-------------------------- MODULE RelaySessionProofs --------------------------
(***************************************************************************)
(* RelaySession for any number of users and connections and any limits:    *)
(* one session per identity (SessionsAreSingle), no lost notice            *)
(* (NoticesAreNotLost), no enrolled client turned away                     *)
(* (EnrolledAreNotRefused), and no permit of the payload budget lost or    *)
(* made (PermitsAreConserved).                                             *)
(***************************************************************************)
EXTENDS RelaySessionProps, FiniteSetTheorems, TLAPS

(***************************************************************************)
(* The inductive invariant.                                                *)
(***************************************************************************)
ConnFields == {"user", "phase", "reader", "leased", "result", "notice", "open"}
ClientFields == {"state", "conn", "busy"}
JobRecords == [conn : Conns, user : Users, kind : {"enroll", "deliver"}]

Shape ==
  /\ DOMAIN conn = Conns /\ \A c \in Conns : DOMAIN conn[c] = ConnFields
  /\ DOMAIN client = Users /\ \A u \in Users : DOMAIN client[u] = ClientFields
  /\ DOMAIN tokens = Users
  /\ jobs \in Seq(JobRecords)

\* A slot in use has a user; only a task that waits for the database has an answer
\* of it, and an append is answered only to a session.
Slots ==
  \A c \in Conns :
    /\ conn[c].phase = "closed" => conn[c].user = None
    /\ conn[c].phase # "closed" => conn[c].user \in Users
    /\ conn[c].result # None => conn[c].phase \in {"enrolling", "executing"}
    /\ conn[c].result = "accepted" => conn[c].phase = "executing"

\* Sessions that missed an append are still there; an exited process has none.
Marked ==
  /\ \A c \in changed : c \in Conns /\ Registered(c)
  /\ process = "exited" => \A c \in Conns : conn[c].phase = "closed"

\* A queued command belongs to the connection in its slot, if any; while the relay
\* runs, the session of a queued request waits for it, and has queued no other.
Queue ==
  /\ \A i \in DOMAIN jobs :
       conn[jobs[i].conn].phase # "closed" => jobs[i].user = conn[jobs[i].conn].user
  /\ process = "running" =>
       \A i \in DOMAIN jobs : jobs[i].kind = "deliver" =>
         /\ conn[jobs[i].conn].phase = "executing" /\ conn[jobs[i].conn].result = None
         /\ \A j \in DOMAIN jobs :
              jobs[j].kind = "deliver" /\ jobs[j].conn = jobs[i].conn => i = j

\* A user who is told that a token is missing has none, or a new one that no
\* connection and no command can use.
Refusals ==
  /\ \A u \in Users : client[u].state = "refused" =>
       /\ u \notin identities
       /\ tokens[u] = "issued" =>
            /\ \A c \in Conns : conn[c].user # u
            /\ process # "exited" => \A i \in DOMAIN jobs : jobs[i].user # u
  /\ \A c \in Conns : conn[c].phase = "enrolling" /\ conn[c].result = "refused" =>
       conn[c].user \notin identities /\ tokens[conn[c].user] # "issued"

SInv == Shape /\ Slots /\ Marked /\ Queue /\ Refusals /\ OneSession /\ NoticeFollowsAppend

LEMMA ClosedFields ==
  /\ DOMAIN Closed = ConnFields
  /\ Closed.user = None /\ Closed.phase = "closed" /\ Closed.reader = "idle"
  /\ Closed.result = None /\ Closed.notice = FALSE /\ Closed.open = FALSE
  BY Zenon DEF Closed, ConnFields

LEMMA OfflineFields ==
  DOMAIN Offline = ClientFields /\ Offline.state = "off"
  BY Zenon DEF Offline, ClientFields

LEMMA QueuedConns ==
  ASSUME SInv
  PROVE  \A i \in DOMAIN jobs :
           jobs[i].conn \in Conns /\ jobs[i].user \in Users /\ jobs[i].kind \in {"enroll", "deliver"}
<1> SUFFICES ASSUME NEW i \in DOMAIN jobs
             PROVE  /\ jobs[i].conn \in Conns /\ jobs[i].user \in Users
                    /\ jobs[i].kind \in {"enroll", "deliver"}
  BY Zenon
<1>1. jobs \in Seq(JobRecords)
  BY Zenon DEF SInv, Shape
<1>2. jobs[i] \in JobRecords
  BY <1>1
<1> QED
  BY Zenon, <1>2 DEF JobRecords

LEMMA UnusedSlot ==
  ASSUME SInv, NEW c \in Conns, conn[c].phase = "closed"
  PROVE  ~Registered(c) /\ c \notin changed /\ conn[c].result = None
  BY Zenon DEF SInv, Slots, Marked, Registered, Sessions

(***************************************************************************)
(* Steps that move one connection from one place to another.               *)
(***************************************************************************)
\* Connection c keeps its user and has no answer of the database any more.
Moves(c) ==
  /\ DOMAIN conn' = Conns /\ \A d \in Conns : d # c => conn'[d] = conn[d]
  /\ DOMAIN conn'[c] = ConnFields
  /\ conn'[c].user = conn[c].user /\ conn[c].phase # "closed" /\ conn'[c].phase # "closed"
  /\ conn'[c].result = None /\ conn[c].result # "accepted"

LEMMA MoveKeeps ==
  ASSUME SInv, NEW c \in Conns, Moves(c), conn'[c].notice = conn[c].notice,
         Registered(c)' <=> Registered(c), Shape', Queue',
         \A u \in Users : client'[u].state = "refused" => client[u].state = "refused",
         \A u \in Users : client'[u].state = "refused" /\ tokens[u] = "issued" /\ process # "exited"
            => \A i \in DOMAIN jobs' : jobs'[i].user # u,
         UNCHANGED <<active_identities, identities, tokens, process, changed>>
  PROVE  SInv'
<1>1. \A d \in Conns : /\ Registered(d)' <=> Registered(d)
                       /\ conn'[d].user = conn[d].user
                       /\ conn'[d].notice = conn[d].notice
                       /\ conn'[d].phase = "closed" <=> conn[d].phase = "closed"
                       /\ conn'[d].result = "accepted" <=> conn[d].result = "accepted"
  BY Zenon, SessionAssumption DEF Moves, Registered
<1>2. Slots'
  BY SessionAssumption DEF SInv, Slots, Moves
<1>3. Marked'
  BY Zenon, <1>1 DEF SInv, Marked
<1>4. Refusals'
  <2>1. \A u \in Users : client'[u].state = "refused" =>
          /\ u \notin identities'
          /\ tokens'[u] = "issued" =>
               /\ \A d \in Conns : conn'[d].user # u
               /\ process' # "exited" => \A i \in DOMAIN jobs' : jobs'[i].user # u
    BY <1>1 DEF SInv, Refusals
  <2>2. \A d \in Conns : conn'[d].phase = "enrolling" /\ conn'[d].result = "refused" =>
          conn'[d].user \notin identities' /\ tokens'[conn'[d].user] # "issued"
    <3> SUFFICES ASSUME NEW d \in Conns, conn'[d].phase = "enrolling", conn'[d].result = "refused"
                 PROVE  conn'[d].user \notin identities' /\ tokens'[conn'[d].user] # "issued"
      BY Zenon
    <3>1. CASE d # c
      BY Zenon, <3>1 DEF SInv, Refusals, Moves
    <3>2. CASE d = c
      BY Zenon, <3>2, SessionAssumption DEF Moves
    <3> QED
      BY Zenon, <3>1, <3>2
  <2> QED
    BY Zenon, <2>1, <2>2 DEF Refusals
<1>5. OneSession'
  <2>1. {d \in Conns : Registered(d)'} = {d \in Conns : Registered(d)}
    BY Zenon, <1>1
  <2>2. {conn'[e].user : e \in {d \in Conns : Registered(d)'}}
          = {conn[e].user : e \in {d \in Conns : Registered(d)}}
    BY <1>1, <2>1
  <2> QED
    BY <1>1, <2>2 DEF SInv, OneSession
<1>6. NoticeFollowsAppend'
  BY Zenon, <1>1 DEF SInv, NoticeFollowsAppend, Marked
<1> QED
  BY Zenon, <1>2, <1>3, <1>4, <1>5, <1>6 DEF SInv

LEMMA QueueKept ==
  ASSUME SInv, NEW c \in Conns, Moves(c), UNCHANGED <<jobs, process>>,
         conn[c].phase # "executing" \/ conn[c].result # None
  PROVE  Queue'
<1>1. \A i \in DOMAIN jobs : jobs[i].conn \in Conns
  BY Zenon, QueuedConns
<1>2. \A i \in DOMAIN jobs :
        conn'[jobs[i].conn].phase # "closed" => jobs[i].user = conn'[jobs[i].conn].user
  BY Zenon, <1>1 DEF SInv, Queue, Moves
<1>3. ASSUME process = "running", NEW i \in DOMAIN jobs, jobs[i].kind = "deliver"
      PROVE  conn'[jobs[i].conn].phase = "executing" /\ conn'[jobs[i].conn].result = None
  <2>1. conn[jobs[i].conn].phase = "executing" /\ conn[jobs[i].conn].result = None
    BY Zenon, <1>3 DEF SInv, Queue
  <2> QED
    BY Zenon, <1>1, <2>1 DEF Moves
<1> QED
  BY Zenon, <1>2, <1>3 DEF SInv, Queue

LEMMA QueueExtended ==
  ASSUME SInv, NEW c \in Conns, NEW kind \in {"enroll", "deliver"}, Moves(c),
         jobs' = Append(jobs, [conn |-> c, user |-> conn[c].user, kind |-> kind]),
         kind = "deliver" => conn'[c].phase = "executing",
         conn[c].phase # "executing", UNCHANGED process
  PROVE  jobs' \in Seq(JobRecords) /\ Queue'
<1> DEFINE job == [conn |-> c, user |-> conn[c].user, kind |-> kind]
           n == Len(jobs) + 1
<1>1. jobs \in Seq(JobRecords) /\ job \in JobRecords
  BY Zenon DEF SInv, Shape, Slots, Moves, JobRecords
<1>2. /\ jobs' \in Seq(JobRecords) /\ DOMAIN jobs' = 1 .. n /\ jobs'[n] = job
      /\ DOMAIN jobs = 1 .. Len(jobs) /\ Len(jobs) \in Nat
      /\ \A i \in 1 .. Len(jobs) : jobs'[i] = jobs[i]
  <2> HIDE DEF job
  <2>1. jobs' = Append(jobs, job)
    BY Zenon DEF job
  <2> QED
    BY <1>1, <2>1
<1>3. job.conn = c /\ job.user = conn[c].user /\ job.kind = kind
  BY Zenon
<1>4. \A i \in 1 .. Len(jobs) : jobs[i].conn \in Conns
  BY Zenon, <1>2, QueuedConns
<1> HIDE DEF job
<1>5. \A i \in DOMAIN jobs' :
        conn'[jobs'[i].conn].phase # "closed" => jobs'[i].user = conn'[jobs'[i].conn].user
  <2> SUFFICES ASSUME NEW i \in 1 .. n, conn'[jobs'[i].conn].phase # "closed"
               PROVE  jobs'[i].user = conn'[jobs'[i].conn].user
    BY Zenon, <1>2
  <2>1. CASE i = n
    BY Zenon, <2>1, <1>2, <1>3 DEF Moves
  <2>2. CASE i \in 1 .. Len(jobs)
    <3>1. jobs'[i] = jobs[i] /\ jobs[i].conn \in Conns
      BY Zenon, <2>2, <1>2, <1>4
    <3>2. conn[jobs[i].conn].phase # "closed" => jobs[i].user = conn[jobs[i].conn].user
      BY Zenon, <2>2, <1>2 DEF SInv, Queue
    <3> QED
      BY Zenon, <3>1, <3>2 DEF Moves
  <2> QED
    BY <2>1, <2>2, <1>2
<1>6. ASSUME process = "running", NEW i \in 1 .. Len(jobs), jobs[i].kind = "deliver"
      PROVE  jobs[i].conn # c /\ conn'[jobs[i].conn] = conn[jobs[i].conn]
  BY SMTT(30), <1>6, <1>2, <1>4 DEF SInv, Queue, Moves
<1>7. ASSUME process = "running", NEW i \in DOMAIN jobs', jobs'[i].kind = "deliver"
      PROVE  /\ conn'[jobs'[i].conn].phase = "executing" /\ conn'[jobs'[i].conn].result = None
             /\ \A j \in DOMAIN jobs' :
                  jobs'[j].kind = "deliver" /\ jobs'[j].conn = jobs'[i].conn => i = j
  <2>1. CASE i = n
    <3>1. kind = "deliver" /\ jobs'[i].conn = c
      BY Zenon, <2>1, <1>7, <1>2, <1>3
    <3>2. conn'[c].phase = "executing" /\ conn'[c].result = None
      BY Zenon, <3>1 DEF Moves
    <3>3. \A j \in DOMAIN jobs' : jobs'[j].kind = "deliver" /\ jobs'[j].conn = c => j = n
      BY <1>2, <1>6, <1>7
    <3> QED
      BY <2>1, <3>1, <3>2, <3>3
  <2>2. CASE i \in 1 .. Len(jobs)
    <3>1. jobs'[i] = jobs[i] /\ jobs[i].kind = "deliver" /\ jobs[i].conn # c
      BY Zenon, <2>2, <1>7, <1>2, <1>6
    <3>2. /\ conn[jobs[i].conn].phase = "executing" /\ conn[jobs[i].conn].result = None
          /\ \A j \in DOMAIN jobs : jobs[j].kind = "deliver" /\ jobs[j].conn = jobs[i].conn => i = j
      BY Zenon, <2>2, <3>1, <1>2, <1>7 DEF SInv, Queue
    <3>3. conn'[jobs[i].conn] = conn[jobs[i].conn]
      BY Zenon, <2>2, <3>1, <1>6, <1>7
    <3>4. \A j \in DOMAIN jobs' : jobs'[j].conn = jobs[i].conn => j \in 1 .. Len(jobs)
      BY <3>1, <1>2, <1>3
    <3> QED
      BY Zenon, <3>1, <3>2, <3>3, <3>4, <1>2
  <2> QED
    BY <2>1, <2>2, <1>2
<1> QED
  BY Zenon, <1>2, <1>5, <1>7 DEF Queue

(***************************************************************************)
(* Steps that leave the sessions as they are.                              *)
(***************************************************************************)
Quiet ==
  /\ DOMAIN conn' = Conns
  /\ \A d \in Conns : /\ DOMAIN conn'[d] = ConnFields /\ conn'[d].user = conn[d].user
                      /\ conn'[d].phase = conn[d].phase /\ conn'[d].result = conn[d].result
                      /\ conn'[d].notice = conn[d].notice

LEMMA QuietKeeps ==
  ASSUME SInv, Quiet, DOMAIN client' = Users,
         \A u \in Users : DOMAIN client'[u] = ClientFields,
         \A u \in Users : client'[u].state = "refused" => client[u].state = "refused",
         UNCHANGED <<active_identities, jobs, stored, process, changed>>
  PROVE  SInv'
<1>1. \A d \in Conns : Registered(d)' <=> Registered(d)
  BY Zenon DEF Quiet, Registered
<1>2. Shape'
  BY Zenon DEF SInv, Shape, Quiet, stored
<1>3. Slots'
  BY DEF SInv, Slots, Quiet
<1>4. Marked'
  BY Zenon, <1>1 DEF SInv, Marked, Quiet
<1>5. Queue'
  <2>1. \A i \in DOMAIN jobs : jobs[i].conn \in Conns
    BY Zenon, QueuedConns
  <2> QED
    BY <2>1 DEF SInv, Queue, Quiet
<1>6. Refusals'
  BY DEF SInv, Refusals, Quiet, stored
<1>7. OneSession'
  <2>1. {d \in Conns : Registered(d)'} = {d \in Conns : Registered(d)}
    BY Zenon, <1>1
  <2>2. {conn'[e].user : e \in {d \in Conns : Registered(d)'}}
          = {conn[e].user : e \in {d \in Conns : Registered(d)}}
    BY Zenon, <2>1 DEF Quiet
  <2> QED
    BY <1>1, <2>2 DEF SInv, OneSession, Quiet
<1>8. NoticeFollowsAppend'
  BY Zenon DEF SInv, NoticeFollowsAppend, Quiet, Marked
<1> QED
  BY Zenon, <1>2, <1>3, <1>4, <1>5, <1>6, <1>7, <1>8 DEF SInv

(***************************************************************************)
(* The end of a connection.                                                *)
(***************************************************************************)
LEMMA CloseKeeps ==
  ASSUME SInv, NEW c \in Conns, NEW verdict \in {"off", "refused", "duplicate"},
         conn[c].phase # "closed", Close(c, verdict), UNCHANGED <<jobs, stored, process>>,
         conn[c].phase = "executing" => process # "running",
         verdict = "refused" => conn[c].user \notin identities /\ tokens[conn[c].user] # "issued"
  PROVE  SInv'
<1>1. /\ DOMAIN conn' = Conns /\ conn'[c] = Closed
      /\ \A d \in Conns : d # c => conn'[d] = conn[d]
  BY Zenon DEF SInv, Shape, Close, Hangup
<1>2. conn[c].user \in Users
  BY Zenon DEF SInv, Slots
<1>3. /\ DOMAIN client' = Users
      /\ \A u \in Users : /\ DOMAIN client'[u] = ClientFields
                          /\ client'[u].state = "refused" =>
                               \/ client[u].state = "refused"
                               \/ u = conn[c].user /\ verdict = "refused"
  <2> DEFINE told == [Offline EXCEPT !.state = verdict]
  <2>1. DOMAIN told = ClientFields /\ told.state = verdict
    BY Zenon, OfflineFields DEF ClientFields
  <2>2. client' = client \/ client' = [client EXCEPT ![conn[c].user] = told]
    BY Zenon DEF Close, Hangup
  <2> HIDE DEF told
  <2> QED
    BY Zenon, <1>2, <2>1, <2>2 DEF SInv, Shape
<1>4. changed' = changed \ {c}
  BY Zenon DEF Close, Hangup
<1>5. ~(Registered(c)') /\ \A d \in Conns : d # c => (Registered(d)' <=> Registered(d))
  BY Zenon, <1>1, ClosedFields DEF Registered, Sessions
<1>6. Shape'
  BY Zenon, <1>1, <1>3, ClosedFields DEF SInv, Shape, stored
<1>7. Slots'
  BY <1>1, ClosedFields, SessionAssumption DEF SInv, Slots
<1>8. Marked'
  <2>1. process # "exited"
    BY Zenon DEF SInv, Marked
  <2> QED
    BY Zenon, <2>1, <1>4, <1>5 DEF SInv, Marked
<1>9. Queue'
  <2>1. \A i \in DOMAIN jobs :
          conn'[jobs[i].conn].phase # "closed" => jobs[i].user = conn'[jobs[i].conn].user
    BY Zenon, <1>1, ClosedFields, QueuedConns DEF SInv, Queue
  <2>2. ASSUME process = "running", NEW i \in DOMAIN jobs, jobs[i].kind = "deliver"
        PROVE  conn'[jobs[i].conn].phase = "executing" /\ conn'[jobs[i].conn].result = None
    <3>1. conn[jobs[i].conn].phase = "executing" /\ conn[jobs[i].conn].result = None
      BY Zenon, <2>2 DEF SInv, Queue
    <3>2. jobs[i].conn # c /\ jobs[i].conn \in Conns
      BY Zenon, <3>1, <2>2, QueuedConns
    <3> QED
      BY Zenon, <3>1, <3>2, <1>1
  <2> QED
    BY Zenon, <2>1, <2>2 DEF SInv, Queue
<1>10. Refusals'
  <2>1. \A d \in Conns : conn'[d].user = conn[d].user \/ conn'[d].user = None
    BY Zenon, <1>1, ClosedFields
  <2>2. ASSUME NEW u \in Users, client'[u].state = "refused"
        PROVE  /\ u \notin identities
               /\ tokens[u] = "issued" =>
                    /\ \A d \in Conns : conn'[d].user # u
                    /\ process # "exited" => \A i \in DOMAIN jobs : jobs[i].user # u
    <3>1. CASE client[u].state = "refused"
      BY Zenon, <3>1, <2>1, SessionAssumption DEF SInv, Refusals
    <3>2. CASE u = conn[c].user /\ verdict = "refused"
      BY Zenon, <3>2
    <3> QED
      BY Zenon, <2>2, <3>1, <3>2, <1>3
  <2>3. \A d \in Conns : conn'[d].phase = "enrolling" /\ conn'[d].result = "refused" =>
          conn'[d].user \notin identities /\ tokens[conn'[d].user] # "issued"
    BY <1>1, ClosedFields DEF SInv, Refusals
  <2> QED
    BY Zenon, <2>2, <2>3 DEF Refusals, stored
<1>11. OneSession'
  <2>1. \A d, e \in Conns : Registered(d)' /\ Registered(e)' /\ conn'[d].user = conn'[e].user => d = e
    BY Zenon, <1>1, <1>5 DEF SInv, OneSession
  <2>2. active_identities' = {conn'[e].user : e \in {d \in Conns : Registered(d)'}}
    <3>1. active_identities = {conn[e].user : e \in {d \in Conns : Registered(d)}}
      BY Zenon DEF SInv, OneSession
    <3>2. {conn'[e].user : e \in {d \in Conns : Registered(d)'}}
            = {conn[e].user : e \in {d \in Conns : Registered(d) /\ d # c}}
      BY <1>1, <1>5
    <3>3. CASE Registered(c)
      <4>1. active_identities' = active_identities \ {conn[c].user}
        BY Zenon, <3>3 DEF Close
      <4>2. \A d \in Conns : Registered(d) /\ d # c => conn[d].user # conn[c].user
        BY Zenon, <3>3 DEF SInv, OneSession
      <4> QED
        BY Zenon, <3>1, <3>2, <4>1, <4>2
    <3>4. CASE ~Registered(c)
      <4>1. active_identities' = active_identities
        BY Zenon, <3>4 DEF Close
      <4> QED
        BY Zenon, <3>1, <3>2, <3>4, <4>1
    <3> QED
      BY Zenon, <3>3, <3>4
  <2> QED
    BY Zenon, <2>1, <2>2 DEF OneSession
<1>12. NoticeFollowsAppend'
  <2>1. process = "running" => conn[c].result # "accepted"
    BY Zenon DEF SInv, Slots
  <2>2. \A d \in changed : d \in Conns
    BY Zenon DEF SInv, Marked
  <2> QED
    BY Zenon, <1>1, <1>4, <2>1, <2>2 DEF SInv, NoticeFollowsAppend
<1> QED
  BY Zenon, <1>6, <1>7, <1>8, <1>9, <1>10, <1>11, <1>12 DEF SInv

LEMMA ClosingKeeps ==
  ASSUME SInv, NEW c \in Conns,
         \/ EndConnection(c) \/ StopWaiting(c) \/ EnrollmentQueueFull(c)
         \/ EnrollmentRefused(c) \/ AlreadyActive(c)
  PROVE  SInv'
<1>1. CASE EndConnection(c)
  BY Zenon, <1>1, CloseKeeps DEF EndConnection
<1>2. CASE StopWaiting(c)
  BY Zenon, <1>2, CloseKeeps DEF StopWaiting
<1>3. CASE EnrollmentQueueFull(c)
  BY Zenon, <1>3, CloseKeeps DEF EnrollmentQueueFull
<1>4. CASE EnrollmentRefused(c)
  BY Zenon, <1>4, CloseKeeps DEF EnrollmentRefused, SInv, Refusals
<1>5. CASE AlreadyActive(c)
  BY Zenon, <1>5, CloseKeeps DEF AlreadyActive
<1> QED
  BY Zenon, <1>1, <1>2, <1>3, <1>4, <1>5

(***************************************************************************)
(* The client program.                                                     *)
(***************************************************************************)
LEMMA BreakKeeps ==
  ASSUME SInv, NEW u \in Users, Break(u) \/ SendRequest(u) \/ Reopen(u)
  PROVE  SInv'
<1>1. Quiet
  <2>1. DOMAIN conn = Conns /\ \A d \in Conns : DOMAIN conn[d] = ConnFields
    BY Zenon DEF SInv, Shape
  <2>2. CASE Break(u)
    <3> DEFINE x == client[u].conn
    <3>1. conn' = [conn EXCEPT ![x].open = FALSE]
      BY Zenon, <2>2 DEF Break
    <3> HIDE DEF x
    <3> QED
      BY Zenon, <2>1, <3>1 DEF Quiet, ConnFields
  <2>3. CASE SendRequest(u)
    <3> DEFINE x == client[u].conn
    <3>1. conn' = [conn EXCEPT ![x].reader = "byte"]
      BY Zenon, <2>3 DEF SendRequest
    <3> HIDE DEF x
    <3> QED
      BY Zenon, <2>1, <3>1 DEF Quiet, ConnFields
  <2>4. CASE Reopen(u)
    BY Zenon, <2>1, <2>4 DEF Reopen, Quiet
  <2> QED
    BY Zenon, <2>2, <2>3, <2>4
<1>2. /\ DOMAIN client' = Users
      /\ \A v \in Users : /\ DOMAIN client'[v] = ClientFields
                          /\ client'[v].state = "refused" => client[v].state = "refused"
  <2>1. DOMAIN client = Users /\ \A v \in Users : DOMAIN client[v] = ClientFields
    BY Zenon DEF SInv, Shape
  <2>2. CASE client' = [client EXCEPT ![u] = Offline]
    BY Zenon, <2>1, <2>2, OfflineFields
  <2>3. CASE client' = [client EXCEPT ![u].busy = TRUE]
    BY Zenon, <2>1, <2>3 DEF ClientFields
  <2> QED
    BY Zenon, <2>2, <2>3 DEF Break, SendRequest, Reopen
<1>3. UNCHANGED <<active_identities, jobs, stored, process, changed>>
  BY Zenon DEF Break, SendRequest, Reopen, relay
<1> QED
  BY Zenon, <1>1, <1>2, <1>3, QuietKeeps

LEMMA DialKeeps ==
  ASSUME SInv, NEW u \in Users, NEW c \in Conns, Dial(u, c)
  PROVE  SInv'
<1> DEFINE new == [Closed EXCEPT !.user = u, !.phase = "accepted", !.open = TRUE]
           dialing == [state |-> "dialing", conn |-> c, busy |-> FALSE]
<1>1. /\ DOMAIN new = ConnFields /\ new.user = u /\ new.phase = "accepted"
      /\ new.result = None /\ new.notice = FALSE
  BY Zenon DEF Closed, ConnFields
<1>2. DOMAIN dialing = ClientFields /\ dialing.state = "dialing"
  BY Zenon DEF ClientFields
<1> HIDE DEF new, dialing
<1>3. /\ conn[c].phase = "closed" /\ ~Referred(c) /\ process = "running"
      /\ conn' = [conn EXCEPT ![c] = new] /\ client' = [client EXCEPT ![u] = dialing]
      /\ UNCHANGED <<active_identities, jobs, stored, process, changed>>
  BY Zenon DEF Dial, new, dialing, relay
<1>4. /\ DOMAIN conn' = Conns /\ conn'[c] = new
      /\ \A d \in Conns : d # c => conn'[d] = conn[d]
  BY Zenon, <1>3 DEF SInv, Shape
<1>5. /\ DOMAIN client' = Users
      /\ \A v \in Users : /\ DOMAIN client'[v] = ClientFields
                          /\ client'[v].state = "refused" => v # u /\ client[v].state = "refused"
  BY Zenon, <1>2, <1>3 DEF SInv, Shape
<1>6. ~Registered(c) /\ c \notin changed /\ conn[c].result = None
  BY Zenon, <1>3, UnusedSlot
<1>7. \A d \in Conns : Registered(d)' <=> Registered(d)
  BY Zenon, <1>1, <1>4, <1>6 DEF Registered, Sessions
<1>8. Shape'
  BY Zenon, <1>1, <1>3, <1>4, <1>5 DEF SInv, Shape, stored
<1>9. Slots'
  BY <1>1, <1>4, SessionAssumption DEF SInv, Slots
<1>10. Marked'
  BY Zenon, <1>3, <1>7 DEF SInv, Marked
<1>11. Queue'
  <2>1. \A i \in DOMAIN jobs : jobs[i].conn \in Conns /\ jobs[i].conn # c
    BY Zenon, <1>3, QueuedConns DEF Referred
  <2> QED
    BY <1>3, <1>4, <2>1 DEF SInv, Queue
<1>12. Refusals'
  <2>1. ASSUME NEW v \in Users, client'[v].state = "refused"
        PROVE  /\ v \notin identities
               /\ tokens[v] = "issued" =>
                    /\ \A d \in Conns : conn'[d].user # v
                    /\ process # "exited" => \A i \in DOMAIN jobs : jobs[i].user # v
    BY <1>1, <1>4, <1>5, <2>1 DEF SInv, Refusals
  <2>2. \A d \in Conns : conn'[d].phase = "enrolling" /\ conn'[d].result = "refused" =>
          conn'[d].user \notin identities /\ tokens[conn'[d].user] # "issued"
    BY Zenon, <1>1, <1>4 DEF SInv, Refusals
  <2> QED
    BY Zenon, <1>3, <2>1, <2>2 DEF Refusals, stored
<1>13. OneSession'
  <2>1. \A d \in Conns : Registered(d) => d # c /\ conn'[d].user = conn[d].user
    BY Zenon, <1>4, <1>6
  <2>2. {conn'[e].user : e \in {d \in Conns : Registered(d)'}}
          = {conn[e].user : e \in {d \in Conns : Registered(d)}}
    BY Zenon, <1>7, <2>1
  <2> QED
    BY Zenon, <1>3, <1>7, <2>1, <2>2 DEF SInv, OneSession
<1>14. NoticeFollowsAppend'
  <2>1. \A d \in changed : d \in Conns /\ d # c
    BY Zenon, <1>6 DEF SInv, Marked
  <2>2. \A d \in Conns : conn[d].result = "accepted" => d # c
    BY Zenon, <1>6, SessionAssumption
  <2> QED
    BY Zenon, <1>3, <1>4, <2>1, <2>2 DEF SInv, NoticeFollowsAppend
<1> QED
  BY Zenon, <1>8, <1>9, <1>10, <1>11, <1>12, <1>13, <1>14 DEF SInv

(***************************************************************************)
(* Handshake and session loop.                                             *)
(***************************************************************************)
LEMMA ReaderKeeps ==
  ASSUME SInv, NEW c \in Conns, AcquirePermit(c) \/ ReadFrame(c)
  PROVE  SInv'
<1>1. DOMAIN conn = Conns /\ \A d \in Conns : DOMAIN conn[d] = ConnFields
  BY Zenon DEF SInv, Shape
<1>2. PICK r \in {"permit", "message"} : conn' = [conn EXCEPT ![c].reader = r]
  BY Zenon DEF AcquirePermit, ReadFrame
<1>3. Quiet
  BY Zenon, <1>1, <1>2 DEF Quiet, ConnFields
<1>4. UNCHANGED <<client, active_identities, jobs, stored, process, changed>>
  BY Zenon DEF AcquirePermit, ReadFrame, relay
<1> QED
  BY Zenon, <1>3, <1>4, QuietKeeps DEF SInv, Shape

\* Steps of the session loop that neither queue a command nor touch a notice.
LEMMA PassingKeeps ==
  ASSUME SInv, NEW c \in Conns,
         \/ AcquireHandshakePermit(c) \/ IdentifyAccepted(c) \/ RateLimited(c) \/ QueueFull(c)
         \/ Reply(c) \/ ReleaseLease(c) \/ NoticeWritten(c)
  PROVE  SInv'
<1>1. DOMAIN conn = Conns /\ \A d \in Conns : DOMAIN conn[d] = ConnFields
  BY Zenon DEF SInv, Shape
<1>2. conn[c].phase \notin {"closed", "enrolling", "executing"} /\ conn[c].user \in Users
  BY Zenon DEF AcquireHandshakePermit, IdentifyAccepted, RateLimited, QueueFull, Takes, Reply,
         ReleaseLease, NoticeWritten, SInv, Slots
<1>3. conn[c].result = None
  BY Zenon, <1>2 DEF SInv, Slots
<1>4. Moves(c) /\ conn'[c].notice = conn[c].notice /\ (Registered(c)' <=> Registered(c))
  <2>1. ASSUME DOMAIN conn' = Conns, \A d \in Conns : d # c => conn'[d] = conn[d],
               DOMAIN conn'[c] = ConnFields, conn'[c].user = conn[c].user,
               conn'[c].result = conn[c].result, conn'[c].notice = conn[c].notice,
               \/ conn[c].phase = "accepted" /\ conn'[c].phase = "handshake"
               \/ conn[c].phase \in Sessions /\ conn'[c].phase \in Sessions
        PROVE  Moves(c) /\ conn'[c].notice = conn[c].notice /\ (Registered(c)' <=> Registered(c))
    BY Zenon, <2>1, <1>2, <1>3, SessionAssumption DEF Moves, Registered, Sessions
  <2>2. CASE AcquireHandshakePermit(c)
    BY Zenon, <2>1, <2>2, <1>1 DEF AcquireHandshakePermit, ConnFields
  <2>3. CASE IdentifyAccepted(c)
    BY Zenon, <2>1, <2>3, <1>1 DEF IdentifyAccepted, ConnFields, Sessions
  <2>4. CASE RateLimited(c)
    BY Zenon, <2>1, <2>4, <1>1 DEF RateLimited, Takes, ConnFields, Sessions
  <2>5. CASE QueueFull(c)
    BY Zenon, <2>1, <2>5, <1>1 DEF QueueFull, Takes, ConnFields, Sessions
  <2>6. CASE Reply(c)
    BY Zenon, <2>1, <2>6, <1>1 DEF Reply, ConnFields, Sessions
  <2>7. CASE ReleaseLease(c)
    BY Zenon, <2>1, <2>7, <1>1 DEF ReleaseLease, ConnFields, Sessions
  <2>8. CASE NoticeWritten(c)
    BY Zenon, <2>1, <2>8, <1>1 DEF NoticeWritten, ConnFields, Sessions
  <2> QED
    BY Zenon, <2>2, <2>3, <2>4, <2>5, <2>6, <2>7, <2>8
<1>5. UNCHANGED <<active_identities, jobs, identities, tokens, process, changed>>
  BY Zenon DEF AcquireHandshakePermit, IdentifyAccepted, RateLimited, QueueFull, Reply,
         ReleaseLease, NoticeWritten, relay, stored
<1>6. /\ DOMAIN client' = Users
      /\ \A u \in Users : /\ DOMAIN client'[u] = ClientFields
                          /\ client'[u].state = "refused" => client[u].state = "refused"
  <2>1. DOMAIN client = Users /\ \A u \in Users : DOMAIN client[u] = ClientFields
    BY Zenon DEF SInv, Shape
  <2> DEFINE w == conn[c].user
  <2>2. \/ client' = client
        \/ client' = [client EXCEPT ![w].state = "online"]
        \/ client' = [client EXCEPT ![w].busy = FALSE]
    BY Zenon DEF AcquireHandshakePermit, IdentifyAccepted, RateLimited, QueueFull, Reply,
           ReleaseLease, NoticeWritten
  <2>3. w \in Users
    BY Zenon, <1>2
  <2> HIDE DEF w
  <2>4. CASE client' = client
    BY Zenon, <2>1, <2>4
  <2>5. CASE client' = [client EXCEPT ![w].state = "online"]
    BY Zenon, <2>1, <2>3, <2>5 DEF ClientFields
  <2>6. CASE client' = [client EXCEPT ![w].busy = FALSE]
    BY Zenon, <2>1, <2>3, <2>6 DEF ClientFields
  <2> QED
    BY Zenon, <2>2, <2>4, <2>5, <2>6
<1>7. Shape'
  BY Zenon, <1>4, <1>5, <1>6 DEF SInv, Shape, Moves
<1>8. Queue'
  BY Zenon, <1>2, <1>4, <1>5, QueueKept
<1>9. \A u \in Users : client'[u].state = "refused" /\ tokens[u] = "issued" /\ process # "exited"
        => \A i \in DOMAIN jobs' : jobs'[i].user # u
  BY Zenon, <1>5, <1>6 DEF SInv, Refusals
<1> QED
  BY Zenon, <1>4, <1>5, <1>6, <1>7, <1>8, <1>9, MoveKeeps

LEMMA SubmitKeeps ==
  ASSUME SInv, NEW c \in Conns, SubmitEnrollment(c) \/ Submit(c)
  PROVE  SInv'
<1>1. DOMAIN conn = Conns /\ \A d \in Conns : DOMAIN conn[d] = ConnFields
  BY Zenon DEF SInv, Shape
<1>2. conn[c].phase \in {"handshake", "serving"} /\ conn[c].user \in Users /\ conn[c].result = None
  BY Zenon DEF SubmitEnrollment, Submit, Takes, SInv, Slots
<1>3. PICK kind \in {"enroll", "deliver"} :
        /\ jobs' = Append(jobs, [conn |-> c, user |-> conn[c].user, kind |-> kind])
        /\ kind = "deliver" => Submit(c)
  BY Zenon DEF SubmitEnrollment, Submit, Admit
<1>4. /\ Moves(c) /\ conn'[c].notice = conn[c].notice /\ (Registered(c)' <=> Registered(c))
      /\ Submit(c) => conn'[c].phase = "executing"
  <2>1. CASE SubmitEnrollment(c)
    <3>1. conn[c].phase = "handshake" /\ conn' = [conn EXCEPT ![c].phase = "enrolling"]
      BY Zenon, <2>1 DEF SubmitEnrollment
    <3>2. ~Submit(c)
      BY Zenon, <3>1 DEF Submit, Takes
    <3> QED
      BY Zenon, <3>1, <3>2, <1>1, <1>2, SessionAssumption DEF Moves, ConnFields, Registered, Sessions
  <2>2. CASE Submit(c)
    <3>1. /\ conn[c].phase = "serving"
          /\ conn' = [conn EXCEPT ![c].phase = "executing", ![c].reader = "idle"]
      BY Zenon, <2>2 DEF Submit, Takes
    <3> QED
      BY Zenon, <3>1, <1>1, <1>2, SessionAssumption DEF Moves, ConnFields, Registered, Sessions
  <2> QED
    BY Zenon, <2>1, <2>2
<1>5. UNCHANGED <<client, active_identities, identities, tokens, process, changed>>
  BY Zenon DEF SubmitEnrollment, Submit, stored
<1>6. jobs' \in Seq(JobRecords) /\ Queue'
  BY Zenon, <1>2, <1>3, <1>4, <1>5, QueueExtended
<1>7. Shape'
  BY Zenon, <1>4, <1>5, <1>6 DEF SInv, Shape, Moves
<1>8. ASSUME NEW u \in Users, client[u].state = "refused", tokens[u] = "issued", process # "exited"
      PROVE  \A i \in DOMAIN jobs' : jobs'[i].user # u
  <2>1. conn[c].user # u /\ \A i \in DOMAIN jobs : jobs[i].user # u
    BY Zenon, <1>8 DEF SInv, Refusals
  <2> DEFINE job == [conn |-> c, user |-> conn[c].user, kind |-> kind]
  <2>2. job.user = conn[c].user /\ job \in JobRecords
    BY Zenon, <1>2, <1>3 DEF JobRecords
  <2>3. jobs' = Append(jobs, job) /\ jobs \in Seq(JobRecords)
    BY Zenon, <1>3 DEF SInv, Shape
  <2> HIDE DEF job
  <2>4. /\ DOMAIN jobs = 1 .. Len(jobs) /\ Len(jobs) \in Nat
        /\ DOMAIN jobs' = 1 .. Len(jobs) + 1 /\ jobs'[Len(jobs) + 1] = job
        /\ \A i \in 1 .. Len(jobs) : jobs'[i] = jobs[i]
    BY <2>2, <2>3
  <2> QED
    BY <2>1, <2>2, <2>4
<1> QED
  BY Zenon, <1>4, <1>5, <1>6, <1>7, <1>8, MoveKeeps

LEMMA SendNoticeKeeps ==
  ASSUME SInv, NEW c \in Conns, SendNotice(c)
  PROVE  SInv'
<1>1. DOMAIN conn = Conns /\ \A d \in Conns : DOMAIN conn[d] = ConnFields
  BY Zenon DEF SInv, Shape
<1>2. /\ conn[c].phase = "serving" /\ changed' = changed \ {c}
      /\ conn' = [conn EXCEPT ![c].phase = "noticing", ![c].notice = FALSE]
      /\ UNCHANGED <<client, active_identities, jobs, stored, process>>
  BY Zenon DEF SendNotice, relay
<1>3. conn[c].result = None
  BY Zenon, <1>2 DEF SInv, Slots
<1>4. Moves(c) /\ conn'[c].phase = "noticing"
  BY Zenon, <1>1, <1>2, <1>3, SessionAssumption DEF Moves, ConnFields
<1>5. \A d \in Conns : Registered(d)' <=> Registered(d)
  BY <1>2, <1>4 DEF Moves, Registered, Sessions
<1>6. \A d \in Conns : conn'[d].user = conn[d].user
  BY Zenon, <1>4 DEF Moves
<1>7. Shape'
  BY Zenon, <1>2, <1>4 DEF SInv, Shape, Moves, stored
<1>8. Slots'
  BY <1>3, <1>4, SessionAssumption DEF SInv, Slots, Moves
<1>9. Marked'
  <2>1. process # "exited"
    BY Zenon, <1>2 DEF SInv, Marked
  <2> QED
    BY Zenon, <1>2, <1>5, <2>1 DEF SInv, Marked
<1>10. Queue'
  BY Zenon, <1>2, <1>4, QueueKept
<1>11. Refusals'
  BY <1>2, <1>4, <1>6 DEF SInv, Refusals, Moves, stored
<1>12. OneSession'
  <2>1. {conn'[e].user : e \in {d \in Conns : Registered(d)'}}
          = {conn[e].user : e \in {d \in Conns : Registered(d)}}
    BY Zenon, <1>5, <1>6
  <2> QED
    BY Zenon, <1>2, <1>5, <1>6, <2>1 DEF SInv, OneSession
<1>13. NoticeFollowsAppend'
  <2>1. \A d \in changed' : d \in changed /\ d \in Conns /\ d # c
    BY Zenon, <1>2 DEF SInv, Marked
  <2> QED
    BY Zenon, <1>2, <1>4, <2>1 DEF SInv, NoticeFollowsAppend, Moves
<1> QED
  BY Zenon, <1>7, <1>8, <1>9, <1>10, <1>11, <1>12, <1>13 DEF SInv

LEMMA AnswerKeeps ==
  ASSUME SInv, NEW c \in Conns, Answer(c)
  PROVE  SInv'
<1> DEFINE answered == [conn EXCEPT ![c].phase = "replying", ![c].result = None]
<1>1. DOMAIN conn = Conns /\ \A d \in Conns : DOMAIN conn[d] = ConnFields
  BY Zenon DEF SInv, Shape
<1>2. /\ conn[c].phase = "executing" /\ conn[c].result # None
      /\ conn' = IF conn[c].result = "accepted" THEN notify(answered) ELSE answered
      /\ UNCHANGED <<client, active_identities, jobs, stored, process, changed>>
  BY Zenon DEF Answer, relay
<1>3. /\ DOMAIN answered = Conns /\ \A d \in Conns : DOMAIN answered[d] = ConnFields
      /\ \A d \in Conns : d # c => answered[d] = conn[d]
      /\ answered[c].phase = "replying" /\ answered[c].result = None
      /\ answered[c].user = conn[c].user /\ answered[c].notice = conn[c].notice
  BY Zenon, <1>1 DEF ConnFields
<1> HIDE DEF answered
<1>4. conn[c].user \in Users /\ Registered(c)
  BY Zenon, <1>2 DEF SInv, Slots, Registered, Sessions
<1>5. UNCHANGED <<identities, tokens>>
  BY Zenon, <1>2 DEF stored
<1>6. CASE conn[c].result # "accepted"
  <2>1. conn' = answered
    BY Zenon, <1>2, <1>6
  <2>2. Moves(c) /\ conn'[c].notice = conn[c].notice /\ (Registered(c)' <=> Registered(c))
    BY Zenon, <2>1, <1>2, <1>3, <1>4, <1>6 DEF Moves, Registered, Sessions
  <2>3. Queue'
    BY Zenon, <2>2, <1>2, QueueKept
  <2>4. Shape'
    BY Zenon, <2>2, <1>2, <1>5 DEF SInv, Shape, Moves
  <2>5. \A u \in Users : client'[u].state = "refused" /\ tokens[u] = "issued" /\ process # "exited"
          => \A i \in DOMAIN jobs' : jobs'[i].user # u
    BY Zenon, <1>2 DEF SInv, Refusals
  <2> HIDE DEF answered
  <2> QED
    BY Zenon, <2>2, <2>3, <2>4, <2>5, <1>2, <1>5, MoveKeeps
<1>7. CASE conn[c].result = "accepted"
  <2>1. conn' = [d \in Conns |-> IF Registered(d) THEN [answered[d] EXCEPT !.notice = TRUE]
                                                   ELSE answered[d]]
    BY Zenon, <1>2, <1>7 DEF notify
  <2>2. /\ DOMAIN conn' = Conns
        /\ \A d \in Conns : /\ DOMAIN conn'[d] = ConnFields
                            /\ conn'[d].user = answered[d].user
                            /\ conn'[d].phase = answered[d].phase
                            /\ conn'[d].result = answered[d].result
                            /\ Registered(d) => conn'[d].notice = TRUE
    BY Zenon, <2>1, <1>3 DEF ConnFields
  <2>3. /\ \A d \in Conns : conn'[d].user = conn[d].user
        /\ \A d \in Conns : d # c => conn'[d].phase = conn[d].phase /\ conn'[d].result = conn[d].result
        /\ conn'[c].phase = "replying" /\ conn'[c].result = None
    BY Zenon, <2>2, <1>3
  <2>4. \A d \in Conns : Registered(d)' <=> Registered(d)
    BY Zenon, <2>3, <1>4 DEF Registered, Sessions
  <2>5. Shape'
    BY Zenon, <2>2, <1>2, <1>5 DEF SInv, Shape
  <2>6. Slots'
    BY <2>3, <1>4, SessionAssumption DEF SInv, Slots
  <2>7. Marked'
    <3>1. process # "exited"
      BY Zenon, <1>2 DEF SInv, Marked
    <3> QED
      BY Zenon, <1>2, <2>4, <3>1 DEF SInv, Marked
  <2>8. Queue'
    <3>1. \A i \in DOMAIN jobs :
            conn'[jobs[i].conn].phase # "closed" => jobs[i].user = conn'[jobs[i].conn].user
      BY SMTT(30), <2>3, <1>2, QueuedConns DEF SInv, Queue
    <3>2. ASSUME process = "running", NEW i \in DOMAIN jobs, jobs[i].kind = "deliver"
          PROVE  conn'[jobs[i].conn].phase = "executing" /\ conn'[jobs[i].conn].result = None
      <4>1. conn[jobs[i].conn].phase = "executing" /\ conn[jobs[i].conn].result = None
        BY Zenon, <3>2 DEF SInv, Queue
      <4>2. jobs[i].conn # c /\ jobs[i].conn \in Conns
        BY Zenon, <4>1, <1>2, QueuedConns
      <4> QED
        BY Zenon, <4>1, <4>2, <2>3
    <3> QED
      BY Zenon, <3>1, <3>2, <1>2 DEF SInv, Queue
  <2>9. Refusals'
    BY SMTT(30), <2>3, <1>2, <1>5 DEF SInv, Refusals
  <2>10. OneSession'
    <3>1. {conn'[e].user : e \in {d \in Conns : Registered(d)'}}
            = {conn[e].user : e \in {d \in Conns : Registered(d)}}
      BY Zenon, <2>3, <2>4
    <3> QED
      BY ZenonT(30), <1>2, <2>3, <2>4, <3>1 DEF SInv, OneSession
  <2>11. NoticeFollowsAppend'
    BY Zenon, <1>2, <2>2 DEF SInv, NoticeFollowsAppend, Marked
  <2> QED
    BY Zenon, <2>5, <2>6, <2>7, <2>8, <2>9, <2>10, <2>11 DEF SInv
<1> QED
  BY Zenon, <1>6, <1>7

LEMMA RegisterKeeps ==
  ASSUME SInv, NEW c \in Conns, register(c)
  PROVE  SInv'
<1>1. DOMAIN conn = Conns /\ \A d \in Conns : DOMAIN conn[d] = ConnFields
  BY Zenon DEF SInv, Shape
<1>2. /\ conn[c].phase = "enrolling" /\ conn[c].result = "registered"
      /\ conn[c].user \notin active_identities
      /\ active_identities' = active_identities \cup {conn[c].user}
      /\ conn' = [conn EXCEPT ![c].phase = "accepting", ![c].result = None]
      /\ UNCHANGED <<client, jobs, stored, process, changed>>
  BY Zenon DEF register
<1>3. Moves(c) /\ conn'[c].phase = "accepting" /\ conn'[c].notice = conn[c].notice
  BY Zenon, <1>1, <1>2, SessionAssumption DEF Moves, ConnFields
<1>4. /\ ~Registered(c) /\ Registered(c)'
      /\ \A d \in Conns : d # c => (Registered(d)' <=> Registered(d))
  BY Zenon, <1>2, <1>3 DEF Moves, Registered, Sessions
<1>5. \A d \in Conns : conn'[d].user = conn[d].user
  BY Zenon, <1>3 DEF Moves
<1>6. Shape'
  BY Zenon, <1>2, <1>3 DEF SInv, Shape, Moves, stored
<1>7. Slots'
  BY <1>2, <1>3, SessionAssumption DEF SInv, Slots, Moves
<1>8. Marked'
  <2>1. process # "exited"
    BY Zenon, <1>2 DEF SInv, Marked
  <2> QED
    BY Zenon, <1>2, <1>4, <2>1 DEF SInv, Marked
<1>9. Queue'
  BY Zenon, <1>2, <1>3, QueueKept
<1>10. Refusals'
  BY <1>2, <1>3, <1>5 DEF SInv, Refusals, Moves, stored
<1>11. OneSession'
  <2>1. active_identities = {conn[e].user : e \in {d \in Conns : Registered(d)}}
    BY Zenon DEF SInv, OneSession
  <2>2. {d \in Conns : Registered(d)'} = {d \in Conns : Registered(d)} \cup {c}
    BY Zenon, <1>4
  <2>3. {conn'[e].user : e \in {d \in Conns : Registered(d)'}}
          = {conn[e].user : e \in {d \in Conns : Registered(d)}} \cup {conn[c].user}
    BY Zenon, <1>5, <2>2
  <2>4. \A d \in Conns : Registered(d) => conn[d].user # conn[c].user
    BY Zenon, <1>2, <2>1
  <2> QED
    BY ZenonT(30), <1>2, <1>4, <1>5, <2>1, <2>3, <2>4 DEF SInv, OneSession
<1>12. NoticeFollowsAppend'
  <2>1. \A d \in Conns : conn'[d].notice = conn[d].notice
    BY Zenon, <1>3 DEF Moves
  <2>2. \A d \in Conns : conn[d].result = "accepted" => conn'[d].result = "accepted"
    BY Zenon, <1>2, <1>3 DEF Moves
  <2> QED
    BY Zenon, <1>2, <2>1, <2>2 DEF SInv, NoticeFollowsAppend, Marked
<1> QED
  BY Zenon, <1>6, <1>7, <1>8, <1>9, <1>10, <1>11, <1>12 DEF SInv

(***************************************************************************)
(* The database thread.                                                    *)
(***************************************************************************)
\* What a command changes: the queue, and the answer its connection waits for.
LEMMA JobsAdvance ==
  ASSUME SInv, jobs # <<>>, jobs' = Tail(jobs), UNCHANGED process,
         \A d \in Conns : conn'[d].user = conn[d].user /\ conn'[d].phase = conn[d].phase,
         \A d \in Conns : d # jobs[1].conn => conn'[d].result = conn[d].result,
         \/ jobs[1].kind = "deliver" \/ conn[jobs[1].conn].phase # "executing"
         \/ conn' = conn
  PROVE  /\ jobs' \in Seq(JobRecords) /\ 1 \in DOMAIN jobs /\ Queue'
         /\ \A i \in DOMAIN jobs' : \E j \in DOMAIN jobs : jobs'[i] = jobs[j]
<1>1. jobs \in Seq(JobRecords)
  BY Zenon DEF SInv, Shape
<1>2. /\ jobs' \in Seq(JobRecords) /\ Len(jobs) \in Nat /\ Len(jobs) > 0
      /\ DOMAIN jobs = 1 .. Len(jobs) /\ DOMAIN jobs' = 1 .. Len(jobs) - 1
      /\ \A i \in 1 .. Len(jobs) - 1 : jobs'[i] = jobs[i + 1]
  BY <1>1
<1>3. \A i \in DOMAIN jobs' : i + 1 \in DOMAIN jobs /\ i + 1 # 1 /\ jobs'[i] = jobs[i + 1]
  BY <1>2
<1>4. 1 \in DOMAIN jobs
  BY <1>2
<1>5. \A i \in DOMAIN jobs' :
        conn'[jobs'[i].conn].phase # "closed" => jobs'[i].user = conn'[jobs'[i].conn].user
  <2> SUFFICES ASSUME NEW i \in DOMAIN jobs', conn'[jobs'[i].conn].phase # "closed"
               PROVE  jobs'[i].user = conn'[jobs'[i].conn].user
    BY Zenon
  <2>1. PICK j \in DOMAIN jobs : jobs'[i] = jobs[j]
    BY Zenon, <1>3
  <2>2. jobs[j].conn \in Conns
    BY Zenon, QueuedConns
  <2> QED
    BY <2>1, <2>2 DEF SInv, Queue
<1>6. ASSUME process = "running", NEW i \in DOMAIN jobs', jobs'[i].kind = "deliver"
      PROVE  /\ conn'[jobs'[i].conn].phase = "executing" /\ conn'[jobs'[i].conn].result = None
             /\ \A k \in DOMAIN jobs' :
                  jobs'[k].kind = "deliver" /\ jobs'[k].conn = jobs'[i].conn => i = k
  <2>1. i + 1 \in DOMAIN jobs /\ i + 1 # 1 /\ jobs'[i] = jobs[i + 1] /\ i \in Nat
    BY <1>2, <1>3
  <2>2. /\ conn[jobs[i + 1].conn].phase = "executing" /\ conn[jobs[i + 1].conn].result = None
        /\ \A j \in DOMAIN jobs : jobs[j].kind = "deliver" /\ jobs[j].conn = jobs[i + 1].conn => i + 1 = j
    BY Zenon, <2>1, <1>6 DEF SInv, Queue
  <2>3. jobs[i + 1].conn \in Conns
    BY Zenon, <2>1, QueuedConns
  <2>4. jobs[1].conn # jobs[i + 1].conn \/ conn' = conn
    BY Zenon, <2>1, <2>2, <1>4
  <2>5. conn'[jobs[i + 1].conn].phase = "executing" /\ conn'[jobs[i + 1].conn].result = None
    BY Zenon, <2>2, <2>3, <2>4
  <2>6. ASSUME NEW k \in DOMAIN jobs', jobs'[k].kind = "deliver", jobs'[k].conn = jobs'[i].conn
        PROVE  i = k
    <3>1. k + 1 \in DOMAIN jobs /\ jobs'[k] = jobs[k + 1] /\ k \in Nat
      BY <1>2, <1>3
    <3>2. i + 1 = k + 1
      BY Zenon, <3>1, <2>1, <2>2, <2>6
    <3> QED
      BY <3>1, <3>2, <2>1
  <2> QED
    BY Zenon, <2>1, <2>5, <2>6
<1> QED
  BY Zenon, <1>2, <1>3, <1>4, <1>5, <1>6 DEF Queue

LEMMA ExecuteDeliverKeeps ==
  ASSUME SInv, NEW result \in {"accepted", "other"}, ExecuteDeliver(result)
  PROVE  SInv'
<1> DEFINE x == jobs[1].conn
<1>1. /\ jobs # <<>> /\ jobs[1].kind = "deliver" /\ jobs' = Tail(jobs) /\ process # "exited"
      /\ conn' = IF conn[x].phase = "executing"
                   THEN [conn EXCEPT ![x].result = result, ![x].leased = TRUE] ELSE conn
      /\ changed' = IF result = "accepted" THEN changed \cup {d \in Conns : Registered(d)}
                                           ELSE changed
      /\ UNCHANGED <<client, active_identities, identities, tokens, process>>
  <2>1. Head(jobs) = jobs[1]
    <3>1. jobs # <<>> /\ jobs \in Seq(JobRecords)
      BY Zenon DEF ExecuteDeliver, SInv, Shape
    <3> QED
      BY <3>1
  <2> QED
    BY Zenon, <2>1 DEF ExecuteDeliver, stored
<1>2. DOMAIN conn = Conns /\ \A d \in Conns : DOMAIN conn[d] = ConnFields
  BY Zenon DEF SInv, Shape
<1>3. 1 \in DOMAIN jobs /\ x \in Conns
  <2>1. jobs \in Seq(JobRecords)
    BY Zenon DEF SInv, Shape
  <2>2. 1 \in DOMAIN jobs
    BY <2>1, <1>1
  <2> QED
    BY Zenon, <2>2, QueuedConns
<1> HIDE DEF x
<1>4. /\ DOMAIN conn' = Conns /\ \A d \in Conns : DOMAIN conn'[d] = ConnFields
      /\ \A d \in Conns : /\ conn'[d].user = conn[d].user /\ conn'[d].phase = conn[d].phase
                          /\ conn'[d].notice = conn[d].notice
                          /\ d # x => conn'[d].result = conn[d].result
      /\ conn[x].phase = "executing" => conn'[x].result = result
      /\ conn[x].phase # "executing" => conn'[x].result = conn[x].result
  <2>1. CASE conn[x].phase = "executing"
    BY Zenon, <2>1, <1>1, <1>2, <1>3 DEF ConnFields
  <2>2. CASE conn[x].phase # "executing"
    BY Zenon, <2>2, <1>1, <1>2
  <2> QED
    BY Zenon, <2>1, <2>2
<1>5. \A d \in Conns : Registered(d)' <=> Registered(d)
  BY Zenon, <1>4 DEF Registered
<1>6. /\ jobs' \in Seq(JobRecords) /\ Queue'
      /\ \A i \in DOMAIN jobs' : \E j \in DOMAIN jobs : jobs'[i] = jobs[j]
  BY Zenon, <1>1, <1>4, JobsAdvance DEF x
<1>7. Shape'
  BY Zenon, <1>1, <1>4, <1>6 DEF SInv, Shape
<1>8. Slots'
  BY <1>4, <1>3 DEF SInv, Slots
<1>9. Marked'
  BY Zenon, <1>1, <1>5 DEF SInv, Marked
<1>10. Refusals'
  <2>1. \A u \in Users : client'[u].state = "refused" =>
          /\ u \notin identities'
          /\ tokens'[u] = "issued" =>
               /\ \A d \in Conns : conn'[d].user # u
               /\ process' # "exited" => \A i \in DOMAIN jobs' : jobs'[i].user # u
    BY <1>1, <1>4, <1>6 DEF SInv, Refusals
  <2>2. \A d \in Conns : conn'[d].phase = "enrolling" => conn'[d].result = conn[d].result
    BY Zenon, <1>4
  <2> QED
    BY <1>1, <1>4, <2>1, <2>2 DEF SInv, Refusals
<1>11. OneSession'
  <2>1. {conn'[e].user : e \in {d \in Conns : Registered(d)'}}
          = {conn[e].user : e \in {d \in Conns : Registered(d)}}
    BY <1>4, <1>5
  <2> QED
    BY <1>1, <1>4, <1>5, <2>1 DEF SInv, OneSession
<1>12. NoticeFollowsAppend'
  <2> SUFFICES ASSUME process = "running", NEW d \in changed'
               PROVE  conn'[d].notice \/ \E e \in Conns : conn'[e].result = "accepted"
    BY Zenon, <1>1 DEF NoticeFollowsAppend
  <2>1. conn[x].phase = "executing" /\ conn[x].result = None
    BY Zenon, <1>1, <1>3 DEF SInv, Queue, x
  <2>2. CASE result = "accepted"
    BY Zenon, <2>1, <2>2, <1>3, <1>4
  <2>3. CASE result # "accepted"
    <3>1. d \in changed /\ d \in Conns
      BY Zenon, <2>3, <1>1 DEF SInv, Marked
    <3>2. \A e \in Conns : conn[e].result = "accepted" => conn'[e].result = "accepted"
      BY Zenon, <2>1, <1>4, SessionAssumption
    <3> QED
      BY Zenon, <3>1, <3>2, <1>4 DEF SInv, NoticeFollowsAppend
  <2> QED
    BY Zenon, <2>2, <2>3
<1> QED
  BY Zenon, <1>6, <1>7, <1>8, <1>9, <1>10, <1>11, <1>12 DEF SInv

LEMMA ExecuteEnrollKeeps ==
  ASSUME SInv, ExecuteEnroll
  PROVE  SInv'
<1> DEFINE x == jobs[1].conn
           u == jobs[1].user
<1>1. /\ jobs # <<>> /\ jobs' = Tail(jobs) /\ process # "exited"
      /\ register_enrolled_identity(u)
      /\ conn' = IF conn[x].phase = "enrolling"
                   THEN [conn EXCEPT ![x].result = Enrollment(u)] ELSE conn
      /\ UNCHANGED <<client, active_identities, process, changed>>
  <2>1. Head(jobs) = jobs[1]
    <3>1. jobs # <<>> /\ jobs \in Seq(JobRecords)
      BY Zenon DEF ExecuteEnroll, SInv, Shape
    <3> QED
      BY <3>1
  <2> QED
    BY Zenon, <2>1 DEF ExecuteEnroll
<1>2. DOMAIN conn = Conns /\ \A d \in Conns : DOMAIN conn[d] = ConnFields
  BY Zenon DEF SInv, Shape
<1>3. 1 \in DOMAIN jobs /\ x \in Conns /\ u \in Users
  <2>1. jobs \in Seq(JobRecords)
    BY Zenon DEF SInv, Shape
  <2>2. 1 \in DOMAIN jobs
    BY <2>1, <1>1
  <2> QED
    BY Zenon, <2>2, QueuedConns
<1>4. conn[x].phase = "enrolling" => conn[x].user = u
  BY Zenon, <1>3 DEF SInv, Queue
<1>5. client[u].state = "refused" => tokens[u] # "issued"
  BY Zenon, <1>1, <1>3 DEF SInv, Refusals
<1> DEFINE answer == Enrollment(u)
<1>6. /\ answer \in {"registered", "refused"}
      /\ answer = "refused" => u \notin identities /\ tokens[u] # "issued"
  BY Zenon DEF Enrollment
<1>7. \/ identities' = identities /\ tokens' = tokens
      \/ /\ u \notin identities /\ tokens[u] = "issued" /\ identities' = identities \cup {u}
         /\ tokens' = [tokens EXCEPT ![u] = "consumed"]
  BY Zenon, <1>1 DEF register_enrolled_identity, stored
<1> HIDE DEF answer
<1>8. /\ DOMAIN conn' = Conns /\ \A d \in Conns : DOMAIN conn'[d] = ConnFields
      /\ \A d \in Conns : /\ conn'[d].user = conn[d].user /\ conn'[d].phase = conn[d].phase
                          /\ conn'[d].notice = conn[d].notice
                          /\ conn'[d].result # conn[d].result =>
                               d = x /\ conn[d].phase = "enrolling" /\ conn'[d].result = answer
  <2>1. CASE conn[x].phase = "enrolling"
    <3>1. conn' = [conn EXCEPT ![x].result = answer]
      BY Zenon, <2>1, <1>1 DEF answer
    <3> HIDE DEF x
    <3> QED
      BY Zenon, <2>1, <3>1, <1>2, <1>3 DEF ConnFields
  <2>2. CASE conn[x].phase # "enrolling"
    BY Zenon, <2>2, <1>1, <1>2
  <2> QED
    BY Zenon, <2>1, <2>2
<1>9. \A d \in Conns : Registered(d)' <=> Registered(d)
  BY Zenon, <1>8 DEF Registered
<1>10. /\ jobs' \in Seq(JobRecords) /\ Queue'
       /\ \A i \in DOMAIN jobs' : \E j \in DOMAIN jobs : jobs'[i] = jobs[j]
  <2>1. conn[x].phase # "executing" \/ conn' = conn
    BY Zenon, <1>1
  <2> QED
    BY Zenon, <1>1, <1>8, <2>1, JobsAdvance
<1>11. Shape'
  BY Zenon, <1>1, <1>7, <1>8, <1>10 DEF SInv, Shape
<1>12. Slots'
  BY <1>6, <1>8, SessionAssumption DEF SInv, Slots
<1>13. Marked'
  BY Zenon, <1>1, <1>9 DEF SInv, Marked
<1>14. Refusals'
  <2>1. \A v \in Users : v \in identities' => v \in identities \/ (v = u /\ tokens[u] = "issued")
    <3> HIDE DEF u
    <3>1. CASE identities' = identities
      BY Zenon, <3>1
    <3>2. CASE tokens[u] = "issued" /\ identities' = identities \cup {u}
      BY Zenon, <3>2
    <3> QED
      BY Zenon, <1>7, <3>1, <3>2
  <2>2. \A v \in Users : tokens'[v] = "issued" => tokens[v] = "issued"
    BY Zenon, <1>3, <1>7 DEF SInv, Shape
  <2>3. ASSUME NEW v \in Users, client'[v].state = "refused"
        PROVE  /\ v \notin identities'
               /\ tokens'[v] = "issued" =>
                    /\ \A d \in Conns : conn'[d].user # v
                    /\ process' # "exited" => \A i \in DOMAIN jobs' : jobs'[i].user # v
    <3>1. /\ v \notin identities
          /\ tokens[v] = "issued" => /\ \A d \in Conns : conn[d].user # v
                                     /\ \A i \in DOMAIN jobs : jobs[i].user # v
      BY Zenon, <1>1, <2>3 DEF SInv, Refusals
    <3>2. v \notin identities'
      BY Zenon, <3>1, <2>1, <2>3, <1>1, <1>5
    <3>3. tokens'[v] = "issued" => /\ \A d \in Conns : conn'[d].user # v
                                   /\ \A i \in DOMAIN jobs' : jobs'[i].user # v
      BY <3>1, <2>2, <1>8, <1>10
    <3> QED
      BY Zenon, <3>2, <3>3
  <2>4. ASSUME NEW d \in Conns, conn'[d].phase = "enrolling", conn'[d].result = "refused"
        PROVE  conn'[d].user \notin identities' /\ tokens'[conn'[d].user] # "issued"
    <3>1. conn'[d].user = conn[d].user /\ conn[d].phase = "enrolling" /\ conn[d].user \in Users
      BY Zenon, <2>4, <1>8 DEF SInv, Slots
    <3>2. conn[d].user \notin identities /\ tokens[conn[d].user] # "issued"
      <4>1. CASE conn'[d].result = conn[d].result
        BY Zenon, <4>1, <3>1, <2>4 DEF SInv, Refusals
      <4>2. CASE conn'[d].result # conn[d].result
        BY ZenonT(30), <4>2, <3>1, <2>4, <1>4, <1>6, <1>8
      <4> QED
        BY Zenon, <4>1, <4>2
    <3> QED
      BY Zenon, <3>1, <3>2, <2>1, <2>2
  <2> QED
    BY Zenon, <2>3, <2>4 DEF Refusals
<1>15. OneSession'
  <2>1. {conn'[e].user : e \in {d \in Conns : Registered(d)'}}
          = {conn[e].user : e \in {d \in Conns : Registered(d)}}
    BY SMTT(30), <1>8, <1>9
  <2> QED
    BY <1>1, <1>8, <1>9, <2>1 DEF SInv, OneSession
<1>16. NoticeFollowsAppend'
  <2>1. \A d \in Conns : conn[d].result = "accepted" => conn'[d].result = "accepted"
    BY Zenon, <1>8 DEF SInv, Slots
  <2> QED
    BY <1>1, <1>8, <2>1 DEF SInv, NoticeFollowsAppend, Marked
<1> QED
  BY Zenon, <1>10, <1>11, <1>12, <1>13, <1>14, <1>15, <1>16 DEF SInv

(***************************************************************************)
(* The process and the operator.                                           *)
(***************************************************************************)
LEMMA ProcessKeeps ==
  ASSUME SInv, Stop \/ Exit \/ Restart
  PROVE  SInv'
<1>1. UNCHANGED <<client, conn, identities, tokens, changed>>
  BY Zenon DEF Stop, Exit, Restart, stored
<1>2. \A d \in Conns : Registered(d)' <=> Registered(d)
  BY Zenon, <1>1 DEF Registered
<1>3. Slots'
  BY Zenon, <1>1 DEF SInv, Slots
<1>4. CASE Stop
  <2>1. process = "running" /\ process' = "stopping" /\ UNCHANGED <<active_identities, jobs>>
    BY Zenon, <1>4 DEF Stop, relay
  <2>2. Shape' /\ Marked' /\ Queue' /\ Refusals'
    BY Zenon, <1>1, <1>2, <2>1 DEF SInv, Shape, Marked, Queue, Refusals
  <2>3. OneSession' /\ NoticeFollowsAppend'
    BY Zenon, <1>1, <1>2, <2>1 DEF SInv, OneSession, NoticeFollowsAppend
  <2> QED
    BY Zenon, <1>3, <2>2, <2>3 DEF SInv
<1>5. CASE Exit
  <2>1. /\ process = "stopping" /\ process' = "exited" /\ UNCHANGED <<active_identities, jobs>>
        /\ \A c \in Conns : conn[c].phase = "closed"
    BY Zenon, <1>5 DEF Exit, relay
  <2>2. Shape' /\ Marked' /\ Queue' /\ Refusals'
    BY Zenon, <1>1, <1>2, <2>1 DEF SInv, Shape, Marked, Queue, Refusals
  <2>3. OneSession' /\ NoticeFollowsAppend'
    BY Zenon, <1>1, <1>2, <2>1 DEF SInv, OneSession, NoticeFollowsAppend
  <2> QED
    BY Zenon, <1>3, <2>2, <2>3 DEF SInv
<1>6. CASE Restart
  <2>1. /\ process = "exited" /\ process' = "running" /\ jobs' = <<>> /\ active_identities' = {}
    BY Zenon, <1>6 DEF Restart
  <2>2. \A c \in Conns : ~Registered(c)
    BY Zenon, <2>1 DEF SInv, Marked, Registered, Sessions
  <2>3. changed = {}
    BY Zenon, <2>2 DEF SInv, Marked
  <2>4. Shape' /\ Marked' /\ Queue' /\ Refusals'
    <3>1. jobs' \in Seq(JobRecords) /\ DOMAIN jobs' = {}
      BY SMTT(30), <2>1
    <3> QED
      BY Zenon, <1>1, <2>1, <2>3, <3>1 DEF SInv, Shape, Marked, Queue, Refusals
  <2>5. OneSession' /\ NoticeFollowsAppend'
    BY Zenon, <1>1, <1>2, <2>1, <2>2, <2>3 DEF OneSession, NoticeFollowsAppend
  <2> QED
    BY Zenon, <1>3, <2>4, <2>5 DEF SInv
<1> QED
  BY Zenon, <1>4, <1>5, <1>6

LEMMA TokenKeeps ==
  ASSUME SInv, NEW u \in Users, issue_enrollment(u) \/ TokenExpires(u)
  PROVE  SInv'
<1>1. UNCHANGED <<client, conn, active_identities, jobs, identities, process, changed>>
  BY Zenon DEF issue_enrollment, TokenExpires, relay
<1>2. \A d \in Conns : Registered(d)' <=> Registered(d)
  BY Zenon, <1>1 DEF Registered
<1>3. PICK s \in {"issued", "expired"} : tokens' = [tokens EXCEPT ![u] = s]
  BY Zenon DEF issue_enrollment, TokenExpires
<1>4. /\ DOMAIN tokens' = Users
      /\ \A v \in Users : tokens'[v] = "issued" =>
           \/ tokens[v] = "issued"
           \/ v = u /\ process = "exited"
  BY Zenon, <1>3 DEF SInv, Shape, issue_enrollment, TokenExpires
<1>5. process = "exited" => \A c \in Conns : conn[c].phase = "closed" /\ conn[c].user = None
  BY Zenon DEF SInv, Marked, Slots
<1>6. Shape' /\ Slots' /\ Marked' /\ Queue'
  BY Zenon, <1>1, <1>2, <1>4 DEF SInv, Shape, Slots, Marked, Queue
<1>7. Refusals'
  <2>1. ASSUME NEW v \in Users, client[v].state = "refused"
        PROVE  /\ v \notin identities
               /\ tokens'[v] = "issued" =>
                    /\ \A c \in Conns : conn[c].user # v
                    /\ process # "exited" => \A i \in DOMAIN jobs : jobs[i].user # v
    <3>1. CASE tokens[v] = "issued" \/ tokens'[v] # "issued"
      BY Zenon, <2>1, <3>1 DEF SInv, Refusals
    <3>2. CASE process = "exited"
      BY Zenon, <2>1, <3>2, <1>5, SessionAssumption DEF SInv, Refusals
    <3> QED
      BY Zenon, <3>1, <3>2, <1>4
  <2>2. ASSUME NEW c \in Conns, conn[c].phase = "enrolling", conn[c].result = "refused"
        PROVE  conn[c].user \notin identities /\ tokens'[conn[c].user] # "issued"
    <3>1. process # "exited" /\ conn[c].user \in Users
      BY Zenon, <2>2, <1>5 DEF SInv, Slots
    <3> QED
      BY Zenon, <2>2, <3>1, <1>4 DEF SInv, Refusals
  <2> QED
    BY Zenon, <2>1, <2>2, <1>1 DEF Refusals
<1>8. OneSession' /\ NoticeFollowsAppend'
  BY Zenon, <1>1, <1>2 DEF SInv, OneSession, NoticeFollowsAppend
<1> QED
  BY Zenon, <1>6, <1>7, <1>8 DEF SInv

(***************************************************************************)
(* The theorems.                                                           *)
(***************************************************************************)
LEMMA SInvInit == Init => SInv
<1> SUFFICES ASSUME Init PROVE SInv
  BY Zenon
<1>1. /\ DOMAIN conn = Conns /\ DOMAIN client = Users /\ DOMAIN tokens = Users
      /\ \A c \in Conns : conn[c] = Closed
      /\ \A u \in Users : client[u] = Offline
      /\ jobs = <<>> /\ changed = {} /\ active_identities = {} /\ process = "running"
  BY Zenon DEF Init
<1>2. \A c \in Conns : ~Registered(c)
  BY Zenon, <1>1, ClosedFields DEF Registered, Sessions
<1>3. jobs \in Seq(JobRecords) /\ DOMAIN jobs = {}
  BY <1>1
<1>4. Shape
  BY Zenon, <1>1, <1>3, ClosedFields, OfflineFields DEF Shape
<1>5. Slots
  BY Zenon, <1>1, ClosedFields, SessionAssumption DEF Slots
<1>6. Marked /\ Queue
  BY Zenon, <1>1, <1>3 DEF Marked, Queue
<1>7. Refusals
  BY Zenon, <1>1, ClosedFields, OfflineFields DEF Refusals
<1>8. OneSession /\ NoticeFollowsAppend
  BY Zenon, <1>1, <1>2 DEF OneSession, NoticeFollowsAppend
<1> QED
  BY Zenon, <1>4, <1>5, <1>6, <1>7, <1>8 DEF SInv

LEMMA SInvNext == SInv /\ [Next]_vars => SInv'
<1> SUFFICES ASSUME SInv, [Next]_vars PROVE SInv'
  BY Zenon
<1>1. ASSUME NEW u \in Users, ClientStep(u)
      PROVE  SInv'
  BY Zenon, <1>1, DialKeeps, BreakKeeps DEF ClientStep
<1>2. ASSUME NEW u \in Users, issue_enrollment(u) \/ TokenExpires(u)
      PROVE  SInv'
  BY Zenon, <1>2, TokenKeeps
<1>3. ASSUME NEW c \in Conns, HandshakeStep(c)
      PROVE  SInv'
  BY Zenon, <1>3, PassingKeeps, SubmitKeeps, ClosingKeeps, RegisterKeeps DEF HandshakeStep
<1>4. ASSUME NEW c \in Conns, SessionStep(c)
      PROVE  SInv'
  BY Zenon, <1>4, ReaderKeeps, PassingKeeps, SubmitKeeps, AnswerKeeps, SendNoticeKeeps, ClosingKeeps
     DEF SessionStep
<1>5. CASE Execute
  BY Zenon, <1>5, ExecuteEnrollKeeps, ExecuteDeliverKeeps DEF Execute
<1>6. CASE Stop \/ Exit \/ Restart
  BY Zenon, <1>6, ProcessKeeps
<1>7. CASE UNCHANGED vars
  <2>1. Quiet /\ UNCHANGED <<client, active_identities, jobs, stored, process, changed>>
    BY Zenon, <1>7 DEF vars, relay, SInv, Shape, Quiet
  <2> QED
    BY Zenon, <2>1, QuietKeeps DEF SInv, Shape
<1> QED
  BY Zenon, <1>1, <1>2, <1>3, <1>4, <1>5, <1>6, <1>7 DEF Next

LEMMA SInvAlways == Spec => []SInv
<1> QED
  BY SInvInit, SInvNext, PTL DEF Spec

\* ConnectionHub::register and the drop of ConnectionRegistration keep one session
\* per identity, for any number of clients that dial, fail and reconnect at once.
THEOREM SessionsAreSingle == Spec => []OneSession
<1>1. SInv => OneSession
  BY Zenon DEF SInv
<1> QED
  BY <1>1, SInvAlways, PTL

\* The one-slot outbound channel of notices loses no wakeup: the session that stored
\* an append is still there to call notify as long as the relay runs.
THEOREM NoticesAreNotLost == Spec => []NoticeFollowsAppend
<1>1. SInv => NoticeFollowsAppend
  BY Zenon DEF SInv
<1> QED
  BY <1>1, SInvAlways, PTL

\* No order of lost answers, abandoned registrations in the queue, expiry, restart and
\* new tokens makes authentication tell an enrolled client that it needs a token.
THEOREM EnrolledAreNotRefused == Spec => []EnrolledNotRefused
<1>1. SInv => EnrolledNotRefused
  BY Zenon DEF SInv, Refusals, EnrolledNotRefused
<1> QED
  BY <1>1, SInvAlways, PTL

(***************************************************************************)
(* Permits.                                                                *)
(***************************************************************************)
\* A session task holds a permit from the handshake to its end, and with the answer
\* of the database until the reply is written; a closed slot has none.
Fine(k) ==
  /\ k.leased \in BOOLEAN
  /\ k.leased => k.phase \in {"handshake", "enrolling", "accepting", "executing", "replying",
                              "replied"}
  /\ k.phase \in {"handshake", "enrolling", "accepting"} => k.leased
  /\ k.phase = "executing" /\ k.result = None => ~k.leased
  /\ k.phase = "closed" => k.reader \notin {"permit", "message"}

\* A queued request is the only one of its session, which waits for it or is gone.
Delivers ==
  \A i \in DOMAIN jobs : jobs[i].kind = "deliver" =>
    /\ \/ conn[jobs[i].conn].phase = "closed"
       \/ conn[jobs[i].conn].phase = "executing" /\ conn[jobs[i].conn].result = None
    /\ \A j \in DOMAIN jobs :
         jobs[j].kind = "deliver" /\ jobs[j].conn = jobs[i].conn => i = j

PInv ==
  /\ SInv /\ free \in Int /\ \A c \in Conns : Fine(conn[c])
  /\ Delivers /\ PermitsConserved

One(b) == IF b THEN 1 ELSE 0
Reads(k) == k.reader \in {"permit", "message"}

\* Only connection c changes in what the permits depend on.
Touches(c) ==
  /\ DOMAIN conn' = Conns
  /\ \A d \in Conns : d # c =>
       /\ conn'[d].leased = conn[d].leased /\ conn'[d].reader = conn[d].reader
       /\ conn'[d].phase = conn[d].phase /\ conn'[d].result = conn[d].result

LEMMA PermitSets ==
  ASSUME SInv
  PROVE  /\ IsFiniteSet(Leased) /\ IsFiniteSet(Reading) /\ IsFiniteSet(Carried)
         /\ Cardinality(Leased) \in Nat /\ Cardinality(Reading) \in Nat
         /\ Cardinality(Carried) \in Nat
<1>1. IsFiniteSet(Conns) /\ Leased \subseteq Conns /\ Reading \subseteq Conns
  BY Zenon, SessionAssumption DEF Leased, Reading
<1>2. jobs \in Seq(JobRecords)
  BY Zenon DEF SInv, Shape
<1>3. DOMAIN jobs = 1 .. Len(jobs) /\ Len(jobs) \in Int
  BY <1>2
<1>4. IsFiniteSet(DOMAIN jobs) /\ Carried \subseteq DOMAIN jobs
  BY <1>3, FS_Interval DEF Carried
<1> QED
  BY Zenon, <1>1, <1>4, FS_Subset, FS_CardinalityType

LEMMA MemberCount ==
  ASSUME NEW S, NEW T, NEW x, IsFiniteSet(S), \A y : y # x => (y \in S <=> y \in T)
  PROVE  /\ Cardinality(T) \in Int /\ Cardinality(S) \in Int
         /\ Cardinality(T) + One(x \in S) = Cardinality(S) + One(x \in T)
<1>1. Cardinality(S) \in Nat
  BY Zenon, FS_CardinalityType
<1>2. CASE x \in S /\ x \in T
  <2>1. S = T
    BY <1>2
  <2> QED
    BY <2>1, <1>1
<1>3. CASE x \notin S /\ x \notin T
  <2>1. S = T
    BY <1>3
  <2> QED
    BY <2>1, <1>1
<1>4. CASE x \in S /\ x \notin T
  <2>1. T = S \ {x}
    BY Zenon, <1>4
  <2>2. Cardinality(T) = Cardinality(S) - 1
    BY Zenon, <1>4, <2>1, FS_RemoveElement
  <2> QED
    BY <1>1, <1>4, <2>2 DEF One
<1>5. CASE x \notin S /\ x \in T
  <2>1. T = S \cup {x}
    BY Zenon, <1>5
  <2>2. Cardinality(T) = Cardinality(S) + 1
    BY Zenon, <1>5, <2>1, FS_AddElement
  <2> QED
    BY <1>1, <1>5, <2>2 DEF One
<1> QED
  BY Zenon, <1>2, <1>3, <1>4, <1>5

LEMMA Balance ==
  ASSUME NEW f \in Int, NEW g \in Int, NEW a \in Int, NEW b \in Int, NEW x \in Int, NEW y \in Int,
         NEW k \in Int, NEW l \in Int, NEW m \in Int, NEW q \in Int, NEW r \in Int, NEW t \in Int,
         f + a + x + k = t, b + l = a + m, y + r = x + q, g + m + q = f + l + r
  PROVE  g + b + y + k = t
  OBVIOUS

\* A step of one connection conserves the permits when its own account is even.
LEMMA EvenStep ==
  ASSUME PInv, NEW c \in Conns, Touches(c), jobs' = jobs, free' \in Int, Fine(conn'[c]),
         free' + One(conn'[c].leased) + One(Reads(conn'[c]))
           = free + One(conn[c].leased) + One(Reads(conn[c]))
  PROVE  PermitsConserved'
<1>1. Carried' = Carried
  BY Zenon DEF Carried
<1>2. IsFiniteSet(Leased) /\ IsFiniteSet(Reading) /\ Cardinality(Carried) \in Nat
  BY Zenon, PermitSets DEF PInv
<1>3. /\ \A d : d # c => (d \in Leased <=> d \in Leased')
      /\ \A d : d # c => (d \in Reading <=> d \in Reading')
  BY Zenon DEF Leased, Reading, Touches
<1>4. /\ (c \in Leased) = conn[c].leased /\ (c \in Leased') = conn'[c].leased
      /\ (c \in Reading) = Reads(conn[c]) /\ (c \in Reading') = Reads(conn'[c])
  BY SMTT(30) DEF Leased, Reading, Reads, PInv, Fine
<1>5. /\ Cardinality(Leased') \in Int /\ Cardinality(Leased) \in Int
      /\ Cardinality(Leased') + One(c \in Leased) = Cardinality(Leased) + One(c \in Leased')
  BY Zenon, <1>2, <1>3, MemberCount
<1>6. /\ Cardinality(Reading') \in Int /\ Cardinality(Reading) \in Int
      /\ Cardinality(Reading') + One(c \in Reading) = Cardinality(Reading) + One(c \in Reading')
  BY Zenon, <1>2, <1>3, MemberCount
<1>7. free \in Int /\ Budget \in Int
      /\ free + Cardinality(Leased) + Cardinality(Reading) + Cardinality(Carried) = Budget
  BY SessionAssumption DEF PInv, PermitsConserved
<1>8. /\ One(conn'[c].leased) \in Int /\ One(Reads(conn'[c])) \in Int
      /\ One(conn[c].leased) \in Int /\ One(Reads(conn[c])) \in Int
  BY SMTT(30) DEF One
<1>9. /\ One(c \in Leased) = One(conn[c].leased) /\ One(c \in Leased') = One(conn'[c].leased)
      /\ One(c \in Reading) = One(Reads(conn[c])) /\ One(c \in Reading') = One(Reads(conn'[c]))
  BY Zenon, <1>4 DEF One
<1> DEFINE l == One(conn[c].leased)
           m == One(conn'[c].leased)
           r == One(Reads(conn[c]))
           q == One(Reads(conn'[c]))
<1>10. /\ l \in Int /\ m \in Int /\ r \in Int /\ q \in Int
       /\ Cardinality(Leased') + l = Cardinality(Leased) + m
       /\ Cardinality(Reading') + r = Cardinality(Reading) + q
       /\ free' + m + q = free + l + r
  BY Zenon, <1>5, <1>6, <1>8, <1>9
<1> HIDE DEF l, m, r, q
<1> DEFINE a == Cardinality(Leased)
           b == Cardinality(Leased')
           x == Cardinality(Reading)
           y == Cardinality(Reading')
           k == Cardinality(Carried)
           f == free
           g == free'
<1>11. /\ a \in Int /\ b \in Int /\ x \in Int /\ y \in Int /\ k \in Int /\ f \in Int /\ g \in Int
       /\ Budget \in Int /\ f + a + x + k = Budget
       /\ b + l = a + m /\ y + r = x + q /\ g + m + q = f + l + r
  <2>1. \A n \in Nat : n \in Int
    OBVIOUS
  <2> QED
    BY Zenon, <2>1, <1>2, <1>5, <1>6, <1>7, <1>10
<1>12. g + b + y + k = Budget
  <2> HIDE DEF a, b, x, y, k, f, g
  <2> QED
    BY SMTT(30), <1>10, <1>11, Balance
<1> QED
  BY Zenon, <1>1, <1>12 DEF PermitsConserved

\* The queue stays right when the session in c has no request in it, ends, or waits on.
LEMMA DeliversKept ==
  ASSUME PInv, NEW c \in Conns, Touches(c), jobs' = jobs,
         \/ conn[c].phase \notin {"closed", "executing"} \/ conn[c].result # None
         \/ conn[c].phase = "closed" /\ ~Referred(c)
         \/ conn'[c].phase = "closed"
         \/ conn'[c].phase = conn[c].phase /\ conn'[c].result = conn[c].result
  PROVE  Delivers'
<1> SUFFICES ASSUME NEW i \in DOMAIN jobs, jobs[i].kind = "deliver"
             PROVE  \/ conn'[jobs[i].conn].phase = "closed"
                    \/ /\ conn'[jobs[i].conn].phase = "executing"
                       /\ conn'[jobs[i].conn].result = None
  BY Zenon DEF PInv, Delivers
<1>1. jobs[i].conn \in Conns
  BY Zenon, QueuedConns DEF PInv
<1>2. \/ conn[jobs[i].conn].phase = "closed"
      \/ conn[jobs[i].conn].phase = "executing" /\ conn[jobs[i].conn].result = None
  BY Zenon DEF PInv, Delivers
<1>3. CASE jobs[i].conn # c
  BY Zenon, <1>1, <1>2, <1>3 DEF Touches
<1>4. CASE jobs[i].conn = c
  <2>1. conn[c].phase = "closed" => conn[c].result = None
    BY Zenon, UnusedSlot DEF PInv
  <2> QED
    BY Zenon, <1>2, <1>4, <2>1 DEF Referred
<1> QED
  BY Zenon, <1>3, <1>4

LEMMA FineKept ==
  ASSUME PInv, NEW c \in Conns, Touches(c), Fine(conn'[c])
  PROVE  \A d \in Conns : Fine(conn'[d])
<1> SUFFICES ASSUME NEW d \in Conns, d # c PROVE Fine(conn'[d])
  BY Zenon
<1>1. Fine(conn[d])
  BY Zenon DEF PInv
<1> QED
  BY Zenon, <1>1 DEF Fine, Touches

\* What a step of connection c that leaves the queue alone has to show.
Even(c) ==
  /\ Touches(c) /\ jobs' = jobs /\ free' \in Int /\ Fine(conn'[c])
  /\ free' + One(conn'[c].leased) + One(Reads(conn'[c]))
       = free + One(conn[c].leased) + One(Reads(conn[c]))
  /\ \/ conn[c].phase \notin {"closed", "executing"} \/ conn[c].result # None
     \/ conn[c].phase = "closed" /\ ~Referred(c)
     \/ conn'[c].phase = "closed"
     \/ conn'[c].phase = conn[c].phase /\ conn'[c].result = conn[c].result

LEMMA EvenKeeps ==
  ASSUME PInv, SInv', NEW c \in Conns, Even(c)
  PROVE  PInv'
<1>1. PermitsConserved'
  BY Zenon, EvenStep DEF Even
<1>2. Delivers'
  BY Zenon, DeliversKept DEF Even
<1>3. \A d \in Conns : Fine(conn'[d])
  BY Zenon, FineKept DEF Even
<1> QED
  BY Zenon, <1>1, <1>2, <1>3 DEF PInv, Even

LEMMA HandshakePermits ==
  ASSUME PInv, NEW c \in Conns,
         AcquireHandshakePermit(c) \/ register(c) \/ IdentifyAccepted(c)
  PROVE  Even(c)
<1>1. DOMAIN conn = Conns /\ DOMAIN conn[c] = ConnFields /\ free \in Int /\ Fine(conn[c])
  BY Zenon DEF PInv, SInv, Shape
<1>2. CASE AcquireHandshakePermit(c)
  BY <1>1, <1>2 DEF AcquireHandshakePermit, Even, Touches, Fine, One, Reads, ConnFields
<1>3. CASE register(c)
  BY Zenon, <1>1, <1>3, SessionAssumption
     DEF register, Even, Touches, Fine, One, Reads, ConnFields
<1>4. CASE IdentifyAccepted(c)
  BY <1>1, <1>4 DEF IdentifyAccepted, Even, Touches, Fine, One, Reads, ConnFields
<1> QED
  BY Zenon, <1>2, <1>3, <1>4

LEMMA ReaderPermits ==
  ASSUME PInv, NEW c \in Conns,
         AcquirePermit(c) \/ ReadFrame(c) \/ RateLimited(c) \/ QueueFull(c)
  PROVE  Even(c)
<1>1. DOMAIN conn = Conns /\ DOMAIN conn[c] = ConnFields /\ free \in Int /\ Fine(conn[c])
  BY Zenon DEF PInv, SInv, Shape
<1>2. CASE AcquirePermit(c)
  BY <1>1, <1>2 DEF AcquirePermit, Even, Touches, Fine, One, Reads, ConnFields
<1>3. CASE ReadFrame(c)
  BY Zenon, <1>1, <1>3 DEF ReadFrame, relay, Even, Touches, Fine, One, Reads, ConnFields
<1>4. CASE RateLimited(c)
  BY <1>1, <1>4 DEF RateLimited, Takes, relay, Even, Touches, Fine, One, Reads, ConnFields
<1>5. CASE QueueFull(c)
  BY <1>1, <1>5 DEF QueueFull, Takes, Even, Touches, Fine, One, Reads, ConnFields
<1> QED
  BY Zenon, <1>2, <1>3, <1>4, <1>5

LEMMA SessionPermits ==
  ASSUME PInv, NEW c \in Conns,
         Answer(c) \/ Reply(c) \/ ReleaseLease(c) \/ SendNotice(c) \/ NoticeWritten(c)
  PROVE  Even(c)
<1>1. DOMAIN conn = Conns /\ DOMAIN conn[c] = ConnFields /\ free \in Int /\ Fine(conn[c])
  BY Zenon DEF PInv, SInv, Shape
<1>2. CASE Answer(c)
  BY <1>1, <1>2 DEF Answer, notify, relay, Even, Touches, Fine, One, Reads, ConnFields
<1>3. CASE Reply(c)
  BY Zenon, <1>1, <1>3 DEF Reply, relay, Even, Touches, Fine, One, Reads, ConnFields
<1>4. CASE ReleaseLease(c)
  BY <1>1, <1>4 DEF ReleaseLease, Even, Touches, Fine, One, Reads, ConnFields
<1>5. CASE SendNotice(c)
  BY Zenon, <1>1, <1>5 DEF SendNotice, relay, Even, Touches, Fine, One, Reads, ConnFields
<1>6. CASE NoticeWritten(c)
  BY Zenon, <1>1, <1>6 DEF NoticeWritten, relay, Even, Touches, Fine, One, Reads, ConnFields
<1> QED
  BY Zenon, <1>2, <1>3, <1>4, <1>5, <1>6

LEMMA ClosingPermits ==
  ASSUME PInv, NEW c \in Conns,
         \/ EndConnection(c) \/ StopWaiting(c) \/ EnrollmentQueueFull(c)
         \/ EnrollmentRefused(c) \/ AlreadyActive(c)
  PROVE  Even(c)
<1>1. DOMAIN conn = Conns /\ free \in Int /\ Fine(conn[c])
  BY Zenon DEF PInv, SInv, Shape
<1>2. /\ conn' = [conn EXCEPT ![c] = Closed] /\ free' = free + Held(c) /\ jobs' = jobs
  BY Zenon DEF EndConnection, StopWaiting, EnrollmentQueueFull, EnrollmentRefused, AlreadyActive,
         Close, Hangup
<1>3. conn'[c] = Closed /\ Touches(c)
  BY Zenon, <1>1, <1>2 DEF Touches
<1>4. Closed.leased = FALSE /\ Fine(Closed) /\ ~Reads(Closed) /\ Closed.phase = "closed"
  BY Zenon DEF Closed, Fine, Reads
<1>5. Held(c) = One(conn[c].leased) + One(Reads(conn[c]))
  BY Zenon DEF Held, One, Reads
<1>6. One(Closed.leased) = 0 /\ One(Reads(Closed)) = 0 /\ One(conn[c].leased) \in Int
      /\ One(Reads(conn[c])) \in Int
  BY <1>4 DEF One
<1>7. free' \in Int /\ free' + 0 + 0 = free + One(conn[c].leased) + One(Reads(conn[c]))
  BY <1>1, <1>2, <1>5, <1>6
<1> QED
  BY Zenon, <1>2, <1>3, <1>4, <1>6, <1>7 DEF Even

LEMMA DialPermits ==
  ASSUME PInv, NEW u \in Users, NEW c \in Conns, Dial(u, c)
  PROVE  Even(c)
<1>1. DOMAIN conn = Conns /\ free \in Int /\ Fine(conn[c])
  BY Zenon DEF PInv, SInv, Shape
<1> DEFINE k == [Closed EXCEPT !.user = u, !.phase = "accepted", !.open = TRUE]
<1>2. /\ conn' = [conn EXCEPT ![c] = k] /\ free' = free /\ jobs' = jobs
      /\ conn[c].phase = "closed" /\ ~Referred(c)
  BY Zenon DEF Dial, relay
<1>3. k.leased = FALSE /\ Fine(k) /\ ~Reads(k)
  BY Zenon DEF Closed, Fine, Reads
<1>4. conn'[c] = k /\ Touches(c)
  <2> HIDE DEF k
  <2> QED
    BY Zenon, <1>1, <1>2 DEF Touches
<1> HIDE DEF k
<1>5. One(k.leased) = 0 /\ One(Reads(k)) = 0
  BY Zenon, <1>3 DEF One
<1>6. One(conn[c].leased) = 0 /\ One(Reads(conn[c])) = 0
  BY Zenon, <1>1, <1>2 DEF One, Reads, Fine
<1> QED
  BY Zenon, <1>1, <1>2, <1>3, <1>4, <1>5, <1>6 DEF Even

\* Steps after which every connection holds what it held.
LEMMA StillKeeps ==
  ASSUME PInv, SInv', jobs' = jobs, free' = free,
         \A d \in Conns : /\ conn'[d].leased = conn[d].leased
                          /\ Reads(conn'[d]) <=> Reads(conn[d])
                          /\ conn'[d].phase = conn[d].phase /\ conn'[d].result = conn[d].result
  PROVE  PInv'
<1>1. Leased' = Leased /\ Reading' = Reading /\ Carried' = Carried
  BY Zenon DEF Leased, Reading, Carried, Reads
<1>2. PermitsConserved'
  BY Zenon, <1>1 DEF PInv, PermitsConserved
<1>3. \A d \in Conns : Fine(conn'[d])
  BY Zenon DEF PInv, Fine, Reads
<1>4. Delivers'
  <2>1. \A i \in DOMAIN jobs : jobs[i].conn \in Conns
    BY Zenon, QueuedConns DEF PInv
  <2> QED
    BY SMTT(30), <2>1 DEF PInv, Delivers
<1> QED
  BY Zenon, <1>2, <1>3, <1>4 DEF PInv

LEMMA ClientPermits ==
  ASSUME PInv, SInv', NEW u \in Users, Break(u) \/ SendRequest(u) \/ Reopen(u)
  PROVE  PInv'
<1>1. DOMAIN conn = Conns /\ \A d \in Conns : DOMAIN conn[d] = ConnFields
  BY Zenon DEF PInv, SInv, Shape
<1>2. jobs' = jobs /\ free' = free
  BY Zenon DEF Break, SendRequest, Reopen, relay
<1> DEFINE c == client[u].conn
<1>3. \/ conn' = [conn EXCEPT ![c].open = FALSE]
      \/ conn[c].reader = "idle" /\ conn' = [conn EXCEPT ![c].reader = "byte"]
      \/ conn' = conn
  BY Zenon DEF Break, SendRequest, Reopen
<1> HIDE DEF c
<1>4. \A d \in Conns : /\ conn'[d].leased = conn[d].leased
                       /\ Reads(conn'[d]) <=> Reads(conn[d])
                       /\ conn'[d].phase = conn[d].phase /\ conn'[d].result = conn[d].result
  <2> SUFFICES ASSUME NEW d \in Conns
               PROVE  /\ conn'[d].leased = conn[d].leased
                      /\ Reads(conn'[d]) <=> Reads(conn[d])
                      /\ conn'[d].phase = conn[d].phase /\ conn'[d].result = conn[d].result
    BY Zenon
  <2>1. CASE conn' = [conn EXCEPT ![c].open = FALSE]
    BY Zenon, <1>1, <2>1 DEF Reads, ConnFields
  <2>2. CASE conn[c].reader = "idle" /\ conn' = [conn EXCEPT ![c].reader = "byte"]
    BY Zenon, <1>1, <2>2 DEF Reads, ConnFields
  <2>3. CASE conn' = conn
    BY Zenon, <2>3
  <2> QED
    BY Zenon, <1>3, <2>1, <2>2, <2>3
<1> QED
  BY Zenon, <1>2, <1>4, StillKeeps

LEMMA OtherPermits ==
  ASSUME PInv, SInv',
         \/ \E u \in Users : issue_enrollment(u) \/ TokenExpires(u)
         \/ Stop \/ Exit \/ UNCHANGED vars
  PROVE  PInv'
<1>1. conn' = conn /\ jobs' = jobs /\ free' = free
  BY Zenon DEF issue_enrollment, TokenExpires, Stop, Exit, vars, relay
<1> QED
  BY Zenon, <1>1, StillKeeps

LEMMA RestartPermits ==
  ASSUME PInv, SInv', Restart
  PROVE  PInv'
<1>1. /\ conn' = conn /\ jobs' = <<>> /\ free' = Budget
      /\ \A c \in Conns : conn[c].phase = "closed"
  BY Zenon DEF Restart, PInv, SInv, Marked
<1>2. Carried' = {} /\ DOMAIN jobs' = {}
  BY <1>1 DEF Carried
<1>3. Leased' = {} /\ Reading' = {}
  BY Zenon, <1>1 DEF Leased, Reading, PInv, Fine
<1>4. Cardinality({}) = 0
  BY Zenon, FS_EmptySet
<1>5. Budget \in Int
  BY SessionAssumption
<1>6. PermitsConserved'
  <2>1. Budget + 0 + 0 + 0 = Budget
    BY <1>5
  <2> QED
    BY Zenon, <2>1, <1>1, <1>2, <1>3, <1>4 DEF PermitsConserved
<1>7. Delivers' /\ \A c \in Conns : Fine(conn'[c])
  BY Zenon, <1>1, <1>2 DEF Delivers, PInv
<1> QED
  BY Zenon, <1>1, <1>5, <1>6, <1>7 DEF PInv

(***************************************************************************)
(* Permits in the queue.                                                   *)
(***************************************************************************)
LEMMA SubmitEnrollmentPermits ==
  ASSUME PInv, SInv', NEW c \in Conns, SubmitEnrollment(c)
  PROVE  PInv'
<1> DEFINE job == [conn |-> c, user |-> conn[c].user, kind |-> "enroll"]
           n == Len(jobs) + 1
<1>1. /\ conn[c].phase = "handshake" /\ jobs' = Append(jobs, job) /\ free' = free
      /\ conn' = [conn EXCEPT ![c].phase = "enrolling"]
  BY Zenon DEF SubmitEnrollment, Admit
<1>2. /\ jobs \in Seq(JobRecords) /\ DOMAIN conn = Conns
      /\ \A d \in Conns : DOMAIN conn[d] = ConnFields
  BY Zenon DEF PInv, SInv, Shape
<1>3. job.kind = "enroll" /\ job.conn = c
  BY Zenon
<1> HIDE DEF job
<1>4. /\ DOMAIN jobs = 1 .. Len(jobs) /\ Len(jobs) \in Nat
      /\ DOMAIN jobs' = 1 .. n /\ jobs'[n] = job
      /\ \A i \in 1 .. Len(jobs) : jobs'[i] = jobs[i]
  BY <1>1, <1>2
<1>5. \A i \in DOMAIN jobs' : jobs'[i].kind = "deliver" => i \in DOMAIN jobs /\ jobs'[i] = jobs[i]
  BY <1>3, <1>4
<1>6. \A i \in DOMAIN jobs : i \in DOMAIN jobs' /\ jobs'[i] = jobs[i]
  BY <1>4
<1>7. Carried' = Carried
  BY Zenon, <1>5, <1>6 DEF Carried
<1>8. \A d \in Conns : /\ conn'[d].leased = conn[d].leased /\ conn'[d].reader = conn[d].reader
                       /\ conn'[d].result = conn[d].result
                       /\ d # c => conn'[d].phase = conn[d].phase
                       /\ d = c => conn'[d].phase = "enrolling"
  BY Zenon, <1>1, <1>2 DEF ConnFields
<1>9. Leased' = Leased /\ Reading' = Reading
  BY Zenon, <1>8 DEF Leased, Reading
<1>10. PermitsConserved'
  BY Zenon, <1>1, <1>7, <1>9 DEF PInv, PermitsConserved
<1>11. \A d \in Conns : Fine(conn'[d])
  BY <1>1, <1>8 DEF PInv, Fine
<1>12. Delivers'
  <2> SUFFICES ASSUME NEW i \in DOMAIN jobs', jobs'[i].kind = "deliver"
               PROVE  /\ \/ conn'[jobs'[i].conn].phase = "closed"
                         \/ /\ conn'[jobs'[i].conn].phase = "executing"
                            /\ conn'[jobs'[i].conn].result = None
                      /\ \A j \in DOMAIN jobs' :
                           jobs'[j].kind = "deliver" /\ jobs'[j].conn = jobs'[i].conn => i = j
    BY Zenon DEF Delivers
  <2>1. i \in DOMAIN jobs /\ jobs'[i] = jobs[i] /\ jobs[i].conn \in Conns
    BY Zenon, <1>5, QueuedConns DEF PInv
  <2>2. \A j \in DOMAIN jobs' :
          jobs'[j].kind = "deliver" /\ jobs'[j].conn = jobs'[i].conn => i = j
    BY Zenon, <2>1, <1>5 DEF PInv, Delivers
  <2>3. \/ conn[jobs[i].conn].phase = "closed"
        \/ conn[jobs[i].conn].phase = "executing" /\ conn[jobs[i].conn].result = None
    BY Zenon, <2>1 DEF PInv, Delivers
  <2> QED
    BY <1>1, <1>8, <2>1, <2>2, <2>3
<1> QED
  BY Zenon, <1>1, <1>10, <1>11, <1>12 DEF PInv

LEMMA SubmitPermits ==
  ASSUME PInv, SInv', NEW c \in Conns, Submit(c)
  PROVE  PInv'
<1> DEFINE job == [conn |-> c, user |-> conn[c].user, kind |-> "deliver"]
           n == Len(jobs) + 1
<1>1. /\ conn[c].phase = "serving" /\ conn[c].reader = "message"
      /\ jobs' = Append(jobs, job) /\ free' = free
      /\ conn' = [conn EXCEPT ![c].phase = "executing", ![c].reader = "idle"]
  BY Zenon DEF Submit, Admit, Takes
<1>2. /\ jobs \in Seq(JobRecords) /\ DOMAIN conn = Conns
      /\ \A d \in Conns : DOMAIN conn[d] = ConnFields
  BY Zenon DEF PInv, SInv, Shape
<1>3. job.kind = "deliver" /\ job.conn = c
  BY Zenon
<1> HIDE DEF job
<1>4. /\ DOMAIN jobs = 1 .. Len(jobs) /\ Len(jobs) \in Nat
      /\ DOMAIN jobs' = 1 .. n /\ jobs'[n] = job /\ n \notin DOMAIN jobs
      /\ \A i \in 1 .. Len(jobs) : jobs'[i] = jobs[i]
  BY <1>1, <1>2
<1>5. \A i \in DOMAIN jobs' : i # n => i \in DOMAIN jobs /\ jobs'[i] = jobs[i]
  BY <1>4
<1>6. n \in DOMAIN jobs' /\ \A i \in DOMAIN jobs : i \in DOMAIN jobs' /\ jobs'[i] = jobs[i]
  BY <1>4
<1>7. n \notin Carried /\ Carried' = Carried \cup {n}
  BY Zenon, <1>3, <1>4, <1>5, <1>6 DEF Carried
<1>8. \A d \in Conns : /\ conn'[d].leased = conn[d].leased /\ conn'[d].result = conn[d].result
                       /\ d # c => conn'[d].phase = conn[d].phase /\ conn'[d].reader = conn[d].reader
                       /\ d = c => conn'[d].phase = "executing" /\ conn'[d].reader = "idle"
  BY Zenon, <1>1, <1>2 DEF ConnFields
<1>9. Leased' = Leased /\ c \in Reading /\ Reading' = Reading \ {c}
  <2>1. Leased' = Leased
    BY Zenon, <1>8 DEF Leased
  <2>2. c \in Reading
    BY Zenon, <1>1 DEF Reading
  <2>3. \A d \in Conns : d # c => (conn'[d].reader = conn[d].reader)
    BY Zenon, <1>8
  <2>4. conn'[c].reader \notin {"permit", "message"}
    BY Zenon, <1>1, <1>8
  <2>5. Reading' = Reading \ {c}
    BY Zenon, <2>3, <2>4 DEF Reading
  <2> QED
    BY Zenon, <2>1, <2>2, <2>5
<1>10. PermitsConserved'
  <2>1. /\ IsFiniteSet(Carried) /\ IsFiniteSet(Reading)
        /\ Cardinality(Carried) \in Int /\ Cardinality(Reading) \in Int /\ Cardinality(Leased) \in Int
    BY PermitSets DEF PInv
  <2>2. Cardinality(Carried') = Cardinality(Carried) + 1
    BY Zenon, <2>1, <1>7, FS_AddElement
  <2>3. Cardinality(Reading') = Cardinality(Reading) - 1
    BY Zenon, <2>1, <1>9, FS_RemoveElement
  <2>4. free + Cardinality(Leased) + Cardinality(Reading) + Cardinality(Carried) = Budget
        /\ free \in Int
    BY Zenon DEF PInv, PermitsConserved
  <2>5. free + Cardinality(Leased) + (Cardinality(Reading) - 1) + (Cardinality(Carried) + 1) = Budget
    BY <2>1, <2>4
  <2> QED
    BY Zenon, <2>2, <2>3, <2>5, <1>1, <1>9 DEF PermitsConserved
<1>11. \A d \in Conns : Fine(conn'[d])
  <2>1. Fine(conn[c]) /\ ~conn[c].leased /\ conn[c].leased \in BOOLEAN
    BY Zenon, <1>1 DEF PInv, Fine
  <2>2. conn'[c].leased = FALSE /\ conn'[c].phase = "executing" /\ conn'[c].reader = "idle"
    BY Zenon, <2>1, <1>8
  <2>3. Fine(conn'[c])
    BY Zenon, <2>2 DEF Fine
  <2>4. ASSUME NEW d \in Conns, d # c PROVE Fine(conn'[d])
    BY Zenon, <2>4, <1>8 DEF PInv, Fine
  <2> QED
    BY Zenon, <2>3, <2>4
<1>12. Delivers'
  <2>0. conn[c].result = None
    BY Zenon, <1>1 DEF PInv, SInv, Slots
  <2>1. \A i \in DOMAIN jobs : jobs[i].kind = "deliver" => jobs[i].conn # c /\ jobs[i].conn \in Conns
    BY Zenon, <1>1, QueuedConns DEF PInv, Delivers
  <2>2. \A i \in DOMAIN jobs : jobs[i].kind = "deliver" =>
          \/ conn'[jobs[i].conn].phase = "closed"
          \/ conn'[jobs[i].conn].phase = "executing" /\ conn'[jobs[i].conn].result = None
    BY SMTT(30), <2>1, <1>8 DEF PInv, Delivers
  <2>3. \A i \in DOMAIN jobs' : jobs'[i].kind = "deliver" =>
          \/ conn'[jobs'[i].conn].phase = "closed"
          \/ conn'[jobs'[i].conn].phase = "executing" /\ conn'[jobs'[i].conn].result = None
    BY <2>0, <2>2, <1>3, <1>4, <1>5, <1>8
  <2>4. ASSUME NEW i \in DOMAIN jobs', NEW j \in DOMAIN jobs', jobs'[i].kind = "deliver",
               jobs'[j].kind = "deliver", jobs'[j].conn = jobs'[i].conn
        PROVE  i = j
    <3>1. CASE i = n
      BY Zenon, <3>1, <2>1, <2>4, <1>3, <1>4, <1>5
    <3>2. CASE j = n
      BY Zenon, <3>2, <2>1, <2>4, <1>3, <1>4, <1>5
    <3>3. CASE i # n /\ j # n
      BY Zenon, <3>3, <2>4, <1>5 DEF PInv, Delivers
    <3> QED
      BY Zenon, <3>1, <3>2, <3>3
  <2> QED
    BY Zenon, <2>3, <2>4 DEF Delivers
<1> QED
  BY Zenon, <1>1, <1>10, <1>11, <1>12 DEF PInv

\* The queue without its first command.
LEMMA Dequeued ==
  ASSUME PInv, jobs # <<>>, jobs' = Tail(jobs)
  PROVE  /\ 1 \in DOMAIN jobs /\ Head(jobs) = jobs[1] /\ jobs[1].conn \in Conns
         /\ \A i \in DOMAIN jobs' : i + 1 \in DOMAIN jobs /\ i + 1 # 1 /\ jobs'[i] = jobs[i + 1]
         /\ \A i, j \in DOMAIN jobs' : i + 1 = j + 1 => i = j
         /\ Cardinality(Carried') \in Int
         /\ Cardinality(Carried) = Cardinality(Carried') + One(jobs[1].kind = "deliver")
<1>1. jobs \in Seq(JobRecords)
  BY Zenon DEF PInv, SInv, Shape
<1>2. /\ Len(jobs) \in Nat /\ Len(jobs) > 0 /\ Head(jobs) = jobs[1]
      /\ DOMAIN jobs = 1 .. Len(jobs) /\ DOMAIN jobs' = 1 .. Len(jobs) - 1
      /\ \A i \in 1 .. Len(jobs) - 1 : jobs'[i] = jobs[i + 1]
  BY <1>1
<1>3. 1 \in DOMAIN jobs /\ Head(jobs) = jobs[1] /\ jobs[1].conn \in Conns
  BY <1>2, QueuedConns DEF PInv
<1>4. /\ \A i \in DOMAIN jobs' : i + 1 \in DOMAIN jobs /\ i + 1 # 1 /\ jobs'[i] = jobs[i + 1]
      /\ \A i, j \in DOMAIN jobs' : i + 1 = j + 1 => i = j
  BY <1>2
<1> DEFINE later == Carried \ {1}
           shift == [i \in later |-> i - 1]
<1>5. \A i \in later : i \in Int /\ i - 1 \in DOMAIN jobs' /\ jobs'[i - 1] = jobs[i]
  BY <1>2 DEF Carried
<1>6. shift \in Bijection(later, Carried')
  <2>1. shift \in [later -> Carried']
    BY Zenon, <1>5 DEF Carried
  <2>2. \A i, j \in later : shift[i] = shift[j] => i = j
    BY <1>5
  <2>3. \A k \in Carried' : \E i \in later : shift[i] = k
    <3> SUFFICES ASSUME NEW k \in Carried'
                 PROVE  k + 1 \in later /\ shift[k + 1] = k
      BY Zenon
    <3>1. k \in DOMAIN jobs' /\ jobs'[k].kind = "deliver" /\ k \in Int
      BY <1>2 DEF Carried
    <3>2. k + 1 \in later
      BY Zenon, <3>1, <1>4 DEF Carried
    <3> QED
      BY <3>1, <3>2
  <2> HIDE DEF shift, later
  <2> QED
    BY Zenon, <2>1, <2>2, <2>3 DEF Bijection, Injection, Surjection, IsInjective
<1>7. IsFiniteSet(Carried) /\ Cardinality(Carried) \in Nat
  BY Zenon, PermitSets DEF PInv
<1>8. /\ IsFiniteSet(later)
      /\ Cardinality(later) = IF 1 \in Carried THEN Cardinality(Carried) - 1 ELSE Cardinality(Carried)
  BY Zenon, <1>7, FS_RemoveElement
<1>9. Cardinality(Carried') = Cardinality(later)
  <2>1. ExistsBijection(later, Carried')
    BY Zenon, <1>6 DEF ExistsBijection
  <2> HIDE DEF later
  <2> QED
    BY Zenon, <1>8, <2>1, FS_Bijection
<1>10. 1 \in Carried <=> jobs[1].kind = "deliver"
  BY Zenon, <1>3 DEF Carried
<1>11. /\ Cardinality(Carried') \in Int
       /\ Cardinality(Carried) = Cardinality(Carried') + One(jobs[1].kind = "deliver")
  <2>1. CASE jobs[1].kind = "deliver"
    BY <2>1, <1>7, <1>8, <1>9, <1>10 DEF One
  <2>2. CASE jobs[1].kind # "deliver"
    BY <2>2, <1>7, <1>8, <1>9, <1>10 DEF One
  <2> QED
    BY Zenon, <2>1, <2>2
<1> QED
  BY Zenon, <1>3, <1>4, <1>11

LEMMA DequeuedDelivers ==
  ASSUME PInv, jobs # <<>>, jobs' = Tail(jobs),
         \A d \in Conns : conn'[d].phase = conn[d].phase,
         \A d \in Conns : d # jobs[1].conn => conn'[d].result = conn[d].result,
         \/ jobs[1].kind = "deliver"
         \/ conn[jobs[1].conn].phase # "executing"
         \/ conn'[jobs[1].conn].result = conn[jobs[1].conn].result
  PROVE  Delivers'
<1>1. /\ 1 \in DOMAIN jobs
      /\ \A i \in DOMAIN jobs' : i + 1 \in DOMAIN jobs /\ i + 1 # 1 /\ jobs'[i] = jobs[i + 1]
      /\ \A i, j \in DOMAIN jobs' : i + 1 = j + 1 => i = j
  BY Zenon, Dequeued
<1> SUFFICES ASSUME NEW i \in DOMAIN jobs', jobs'[i].kind = "deliver"
             PROVE  /\ \/ conn'[jobs'[i].conn].phase = "closed"
                       \/ /\ conn'[jobs'[i].conn].phase = "executing"
                          /\ conn'[jobs'[i].conn].result = None
                    /\ \A j \in DOMAIN jobs' :
                         jobs'[j].kind = "deliver" /\ jobs'[j].conn = jobs'[i].conn => i = j
  BY Zenon DEF Delivers
<1> DEFINE k == i + 1
<1>2. k \in DOMAIN jobs /\ k # 1 /\ jobs'[i] = jobs[k]
  BY Zenon, <1>1
<1>3. jobs[k].conn \in Conns /\ jobs[k].kind = "deliver"
  BY Zenon, <1>2, QueuedConns DEF PInv
<1>4. /\ \/ conn[jobs[k].conn].phase = "closed"
         \/ conn[jobs[k].conn].phase = "executing" /\ conn[jobs[k].conn].result = None
      /\ \A j \in DOMAIN jobs : jobs[j].kind = "deliver" /\ jobs[j].conn = jobs[k].conn => k = j
  <2> HIDE DEF k
  <2> QED
    BY Zenon, <1>2, <1>3 DEF PInv, Delivers
<1>5. \A j \in DOMAIN jobs' : jobs'[j].kind = "deliver" /\ jobs'[j].conn = jobs'[i].conn => i = j
  BY ZenonT(30), <1>1, <1>2, <1>4
<1>6. \/ conn'[jobs[k].conn].phase = "closed"
      \/ conn'[jobs[k].conn].phase = "executing" /\ conn'[jobs[k].conn].result = None
  <2>1. jobs[1].kind = "deliver" => jobs[1].conn # jobs[k].conn
    BY Zenon, <1>1, <1>2, <1>4
  <2> HIDE DEF k
  <2> QED
    BY Zenon, <2>1, <1>3, <1>4
<1> QED
  BY Zenon, <1>2, <1>5, <1>6

LEMMA ExecuteEnrollPermits ==
  ASSUME PInv, SInv', ExecuteEnroll
  PROVE  PInv'
<1> DEFINE x == jobs[1].conn
<1>1. jobs # <<>> /\ jobs' = Tail(jobs) /\ free' = free
  BY Zenon DEF ExecuteEnroll
<1>2. x \in Conns /\ Head(jobs) = jobs[1] /\ Cardinality(Carried') \in Int
      /\ Cardinality(Carried) = Cardinality(Carried') + One(jobs[1].kind = "deliver")
  BY Zenon, <1>1, Dequeued
<1>3. /\ jobs[1].kind = "enroll"
      /\ \/ conn' = conn
         \/ /\ conn[x].phase = "enrolling"
            /\ conn' = [conn EXCEPT ![x].result = Enrollment(jobs[1].user)]
  <2>1. CASE conn[x].phase = "enrolling"
    BY Zenon, <1>2, <2>1 DEF ExecuteEnroll
  <2>2. CASE conn[x].phase # "enrolling"
    BY Zenon, <1>2, <2>2 DEF ExecuteEnroll
  <2> QED
    BY Zenon, <2>1, <2>2
<1>4. DOMAIN conn = Conns /\ \A d \in Conns : DOMAIN conn[d] = ConnFields
  BY Zenon DEF PInv, SInv, Shape
<1> HIDE DEF x
<1>5. \A d \in Conns : /\ conn'[d].leased = conn[d].leased /\ conn'[d].reader = conn[d].reader
                       /\ conn'[d].phase = conn[d].phase
                       /\ d # x \/ conn[x].phase # "enrolling" => conn'[d].result = conn[d].result
  <2>1. CASE conn' = conn
    BY Zenon, <2>1
  <2>2. CASE /\ conn[x].phase = "enrolling"
             /\ conn' = [conn EXCEPT ![x].result = Enrollment(jobs[1].user)]
    <3> HIDE DEF Enrollment
    <3> QED
      BY Zenon, <2>2, <1>2, <1>4 DEF ConnFields
  <2> QED
    BY Zenon, <1>3, <2>1, <2>2
<1>6. Delivers'
  <2>1. \/ conn[x].phase # "executing" \/ conn'[x].result = conn[x].result
    BY Zenon, <1>2, <1>5
  <2> QED
    BY Zenon, <1>1, <1>5, <2>1, DequeuedDelivers DEF x
<1>7. \A d \in Conns : Fine(conn'[d])
  <2> SUFFICES ASSUME NEW d \in Conns PROVE Fine(conn'[d])
    BY Zenon
  <2>1. Fine(conn[d])
    BY Zenon DEF PInv
  <2>2. conn[d].phase = "executing" => conn'[d].result = conn[d].result
    BY Zenon, <1>5
  <2> QED
    BY Zenon, <2>1, <2>2, <1>5 DEF Fine
<1>8. Leased' = Leased /\ Reading' = Reading
  BY Zenon, <1>5 DEF Leased, Reading
<1>9. Cardinality(Carried') = Cardinality(Carried)
  BY <1>2, <1>3 DEF One
<1>10. PermitsConserved'
  BY Zenon, <1>1, <1>8, <1>9 DEF PInv, PermitsConserved
<1> QED
  BY Zenon, <1>1, <1>6, <1>7, <1>10 DEF PInv

LEMMA ExecuteDeliverPermits ==
  ASSUME PInv, SInv', NEW result \in {"accepted", "other"}, ExecuteDeliver(result)
  PROVE  PInv'
<1> DEFINE x == jobs[1].conn
<1>1. jobs # <<>> /\ jobs' = Tail(jobs)
  BY Zenon DEF ExecuteDeliver
<1>2. x \in Conns /\ Head(jobs) = jobs[1] /\ 1 \in DOMAIN jobs /\ Cardinality(Carried') \in Int
      /\ Cardinality(Carried) = Cardinality(Carried') + One(jobs[1].kind = "deliver")
  BY Zenon, <1>1, Dequeued
<1>3. /\ jobs[1].kind = "deliver"
      /\ conn' = IF conn[x].phase = "executing"
                   THEN [conn EXCEPT ![x].result = result, ![x].leased = TRUE] ELSE conn
      /\ free' = IF conn[x].phase = "executing" THEN free ELSE free + 1
  BY Zenon, <1>2 DEF ExecuteDeliver
<1>4. DOMAIN conn = Conns /\ \A d \in Conns : DOMAIN conn[d] = ConnFields
  BY Zenon DEF PInv, SInv, Shape
<1> HIDE DEF x
<1>5. \A d \in Conns : /\ conn'[d].reader = conn[d].reader /\ conn'[d].phase = conn[d].phase
                       /\ (d # x \/ conn[x].phase # "executing") =>
                            conn'[d].result = conn[d].result /\ conn'[d].leased = conn[d].leased
  BY Zenon, <1>2, <1>3, <1>4 DEF ConnFields
<1>6. conn[x].phase = "executing" => conn'[x].result = result /\ conn'[x].leased = TRUE
  BY Zenon, <1>2, <1>3, <1>4 DEF ConnFields
<1>7. Delivers'
  BY Zenon, <1>1, <1>3, <1>5, DequeuedDelivers DEF x
<1>8. \A d \in Conns : Fine(conn'[d])
  <2> SUFFICES ASSUME NEW d \in Conns PROVE Fine(conn'[d])
    BY Zenon
  <2>1. Fine(conn[d])
    BY Zenon DEF PInv
  <2>2. CASE d = x /\ conn[x].phase = "executing"
    BY Zenon, <2>1, <2>2, <1>5, <1>6, SessionAssumption DEF Fine
  <2>3. CASE d # x \/ conn[x].phase # "executing"
    BY Zenon, <2>1, <2>3, <1>5 DEF Fine
  <2> QED
    BY Zenon, <2>2, <2>3
<1>9. Reading' = Reading
  BY Zenon, <1>5 DEF Reading
<1>10. /\ Cardinality(Carried) = Cardinality(Carried') + 1 /\ free \in Int
       /\ IsFiniteSet(Leased) /\ Cardinality(Leased) \in Int /\ Cardinality(Reading) \in Int
       /\ free + Cardinality(Leased) + Cardinality(Reading) + Cardinality(Carried) = Budget
  BY <1>2, <1>3, PermitSets DEF One, PInv, PermitsConserved
<1>11. CASE conn[x].phase = "executing"
  <2>1. conn[x].result = None
    BY Zenon, <1>2, <1>3, <1>11 DEF PInv, Delivers, x
  <2>2. x \notin Leased
    BY Zenon, <2>1, <1>2, <1>11 DEF Leased, PInv, Fine
  <2>3. Leased' = Leased \cup {x}
    BY Zenon, <1>2, <1>5, <1>6, <1>11 DEF Leased
  <2>4. Cardinality(Leased') = Cardinality(Leased) + 1
    BY Zenon, <1>10, <2>2, <2>3, FS_AddElement
  <2>5. free + (Cardinality(Leased) + 1) + Cardinality(Reading) + Cardinality(Carried') = Budget
    BY <1>2, <1>10
  <2>6. PermitsConserved'
    BY Zenon, <2>4, <2>5, <1>3, <1>9, <1>11 DEF PermitsConserved
  <2> QED
    BY Zenon, <1>3, <1>7, <1>8, <1>10, <1>11, <2>6 DEF PInv
<1>12. CASE conn[x].phase # "executing"
  <2>1. Leased' = Leased
    BY Zenon, <1>5, <1>12 DEF Leased
  <2>2. (free + 1) + Cardinality(Leased) + Cardinality(Reading) + Cardinality(Carried') = Budget
    BY <1>2, <1>10
  <2>3. PermitsConserved'
    BY Zenon, <2>1, <2>2, <1>3, <1>9, <1>12 DEF PermitsConserved
  <2> QED
    BY SMTT(30), <1>3, <1>7, <1>8, <1>10, <1>12, <2>3 DEF PInv
<1> QED
  BY Zenon, <1>11, <1>12

LEMMA PInvInit == Init => PInv
<1> SUFFICES ASSUME Init PROVE PInv
  BY Zenon
<1>1. /\ \A c \in Conns : conn[c] = Closed
      /\ jobs = <<>> /\ free = Budget
  BY Zenon DEF Init
<1>2. SInv
  BY Zenon, SInvInit
<1>3. Closed.leased = FALSE /\ Fine(Closed) /\ ~Reads(Closed)
  BY Zenon DEF Closed, Fine, Reads
<1>4. Leased = {} /\ Reading = {} /\ Carried = {} /\ DOMAIN jobs = {}
  BY <1>1, <1>3 DEF Leased, Reading, Carried, Reads
<1>5. Cardinality({}) = 0
  BY Zenon, FS_EmptySet
<1>6. Budget \in Int /\ Budget + 0 + 0 + 0 = Budget
  BY SessionAssumption
<1>7. PermitsConserved
  BY Zenon, <1>1, <1>4, <1>5, <1>6 DEF PermitsConserved
<1> QED
  BY Zenon, <1>1, <1>2, <1>3, <1>4, <1>6, <1>7 DEF PInv, Delivers

LEMMA PInvNext == PInv /\ [Next]_vars => PInv'
<1> SUFFICES ASSUME PInv, [Next]_vars PROVE PInv'
  BY Zenon
<1>1. SInv'
  BY Zenon, SInvNext DEF PInv
<1>2. ASSUME NEW u \in Users, ClientStep(u)
      PROVE  PInv'
  BY Zenon, <1>1, <1>2, DialPermits, EvenKeeps, ClientPermits DEF ClientStep
<1>3. ASSUME NEW c \in Conns, HandshakeStep(c)
      PROVE  PInv'
  BY Zenon, <1>1, <1>3, HandshakePermits, ClosingPermits, EvenKeeps, SubmitEnrollmentPermits
     DEF HandshakeStep
<1>4. ASSUME NEW c \in Conns, SessionStep(c)
      PROVE  PInv'
  BY Zenon, <1>1, <1>4, ReaderPermits, SessionPermits, ClosingPermits, EvenKeeps, SubmitPermits
     DEF SessionStep
<1>5. CASE Execute
  BY Zenon, <1>1, <1>5, ExecuteEnrollPermits, ExecuteDeliverPermits DEF Execute
<1>6. CASE Restart
  BY Zenon, <1>1, <1>6, RestartPermits
<1>7. CASE \/ \E u \in Users : issue_enrollment(u) \/ TokenExpires(u)
           \/ Stop \/ Exit \/ UNCHANGED vars
  BY Zenon, <1>1, <1>7, OtherPermits
<1> QED
  BY Zenon, <1>2, <1>3, <1>4, <1>5, <1>6, <1>7 DEF Next

\* PayloadLease: whatever way a connection ends and whether or not somebody waits for
\* a command's answer, every permit of the payload budget comes back exactly once.
THEOREM PermitsAreConserved == Spec => []PermitsConserved
<1>1. PInv => PermitsConserved
  BY Zenon DEF PInv
<1> QED
  BY <1>1, PInvInit, PInvNext, PTL DEF Spec

===============================================================================
