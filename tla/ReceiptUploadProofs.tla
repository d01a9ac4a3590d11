------------------------ MODULE ReceiptUploadProofs -------------------------
(***************************************************************************)
(* Safety of ReceiptUpload, for any photos, receipts, tabs and bounds, with *)
(* and without locks.                                                      *)
(*                                                                         *)
(* The invariant has two halves.  ServerInv is about the rows of the       *)
(* server: tickets and finalizations belong to attachments that were       *)
(* created, and a ticket is gone when its attachment is stored.  ClientInv *)
(* is about the browser: a status that says ready is still true when it is *)
(* read, because no attachment that is ready ever stops being so.          *)
(***************************************************************************)
EXTENDS ReceiptUpload, TLAPS

ServerTypes ==
    /\ created \in [Upload -> {"none", "accepted", "rejected"}]
    /\ attachment \in [Upload -> {"absent", "pending", "ready"}]
    /\ retired \subseteq Upload
    /\ issued \in [Upload -> Nat]
    /\ \A k \in live : k[1] \in Upload /\ k[2] \in 1..issued[k[1]]
    /\ finalized \in [Upload -> Nat]

(* A row of receipt_attachments was created by the accepted command, and a   *)
(* ticket needs such a row.                                                  *)
CreatedFirst ==
    \A u \in Upload :
       /\ attachment[u] # "absent" => created[u] = "accepted"
       /\ attachment[u] = "absent" => \A k \in live : k[1] # u

ServerInv == ServerTypes /\ CreatedFirst /\ StoredOnce /\ OneLiveTicket

RunType ==
    [stage : Requests \cup {"idle", "push", "list", "next"},
     upload : Nat, ticket : Nat, answer : Answers \cup Unserved \cup {"none"},
     took : SUBSET Receipt, todo : SUBSET Upload]

Late == [kind : Requests, upload : Upload, ticket : Nat]

ClientTypes ==
    /\ receipt \in [Receipt -> {"none", "queued", "live", "closed", "refused"}]
    /\ local \in [Upload -> Rows \cup {"none", "sent", "removed"}]
    /\ run \in [Tab -> RunType]
    /\ removal \in [Upload -> {"none", "asking", "gone", "held", "rejected"}]
    /\ late \subseteq Late

(* A request is about a photo; one that was answered ready is true.          *)
RequestsAreTrue ==
    \A t \in Tab :
       /\ run[t].stage \in Requests => run[t].upload \in Upload
       /\ run[t].answer = "ready" =>
             run[t].upload \in Upload /\ attachment[run[t].upload] = "ready"

ClientInv == ClientTypes /\ RequestsAreTrue /\ NoPhotoIsLost

IInv == ServerInv /\ ClientInv

ReadyStays == \A u \in Upload : attachment[u] = "ready" => attachment'[u] = "ready"

-----------------------------------------------------------------------------
(* The server. *)

LEMMA ServerUnchanged ==
    ASSUME ServerInv, UNCHANGED server
    PROVE  ServerInv' /\ ReadyStays
  BY DEF ServerInv, server, ServerTypes, CreatedFirst, StoredOnce, OneLiveTicket, ReadyStays

LEMMA CreateStep ==
    ASSUME ServerInv, NEW u \in Upload, NEW answer, Create(u, answer)
    PROVE  ServerInv' /\ ReadyStays /\ answer # "ready"
<1>1. CASE UNCHANGED server
  BY <1>1, ServerUnchanged DEF Create
<1>2. CASE /\ created[u] = "none" /\ ~Writable(u) /\ answer = "refused"
           /\ created' = [created EXCEPT ![u] = "rejected"]
           /\ UNCHANGED <<attachment, retired, issued, live, finalized>>
  BY <1>2 DEF ServerInv, ServerTypes, CreatedFirst, StoredOnce, OneLiveTicket, ReadyStays
<1>3. CASE /\ created[u] = "none" /\ Writable(u) /\ answer = "ok"
           /\ created' = [created EXCEPT ![u] = "accepted"]
           /\ attachment' = [attachment EXCEPT ![u] = "pending"]
           /\ issued' = [issued EXCEPT ![u] = @ + 1]
           /\ live' = live \cup {<<u, issued[u] + 1>>}
           /\ UNCHANGED <<retired, finalized>>
  <2> USE <1>3 DEF ServerInv, ServerTypes
  <2>1. attachment[u] = "absent" /\ \A k \in live : k[1] # u
    BY DEF CreatedFirst
  <2>2. ServerTypes'
    OBVIOUS
  <2>3. CreatedFirst'
    BY <2>1 DEF CreatedFirst
  <2>4. StoredOnce'
    BY <2>1 DEF StoredOnce
  <2>5. OneLiveTicket'
    BY <2>1 DEF OneLiveTicket
  <2>6. QED
    BY <2>1, <2>2, <2>3, <2>4, <2>5 DEF ReadyStays
<1>4. QED
  BY <1>1, <1>2, <1>3 DEF Create

LEMMA ReissueStep ==
    ASSUME ServerInv, NEW u \in Upload, NEW answer, Reissue(u, answer)
    PROVE  ServerInv' /\ ReadyStays /\ answer # "ready"
<1>1. CASE UNCHANGED server
  BY <1>1, ServerUnchanged DEF Reissue
<1>2. CASE /\ Open(u) /\ answer = "ok"
           /\ issued' = [issued EXCEPT ![u] = @ + 1]
           /\ live' = {k \in live : k[1] # u} \cup {<<u, issued[u] + 1>>}
           /\ UNCHANGED <<created, attachment, retired, finalized>>
  <2> USE <1>2 DEF ServerInv, ServerTypes
  <2>1. attachment[u] = "pending"
    BY DEF Open
  <2>2. ServerTypes'
    OBVIOUS
  <2>3. CreatedFirst'
    BY <2>1 DEF CreatedFirst
  <2>4. StoredOnce'
    BY DEF StoredOnce
  <2>5. OneLiveTicket'
    BY <2>1 DEF OneLiveTicket
  <2>6. QED
    BY <2>2, <2>3, <2>4, <2>5 DEF ReadyStays
<1>3. QED
  BY <1>1, <1>2 DEF Reissue

LEMMA FinalizeStep ==
    ASSUME ServerInv, NEW u \in Upload, NEW n, NEW answer, Finalize(u, n, answer)
    PROVE  ServerInv' /\ ReadyStays /\ answer # "ready"
<1>1. CASE UNCHANGED server
  BY <1>1, ServerUnchanged DEF Finalize
<1>2. CASE /\ Open(u) /\ <<u, n>> \in live /\ answer = "ok"
           /\ attachment' = [attachment EXCEPT ![u] = "ready"]
           /\ live' = live \ {<<u, n>>}
           /\ finalized' = [finalized EXCEPT ![u] = @ + 1]
           /\ UNCHANGED <<created, retired, issued>>
  <2> USE <1>2 DEF ServerInv, ServerTypes
  <2>1. attachment[u] = "pending" /\ finalized[u] = 0
    BY DEF Open, StoredOnce
  <2>2. ServerTypes'
    OBVIOUS
  <2>3. CreatedFirst'
    BY <2>1 DEF CreatedFirst
  <2>4. StoredOnce'
    BY <2>1 DEF StoredOnce
  <2>5. \A k \in live' : k[1] # u
    BY DEF OneLiveTicket
  <2>6. OneLiveTicket'
    BY <2>5 DEF OneLiveTicket
  <2>7. QED
    BY <2>2, <2>3, <2>4, <2>6 DEF ReadyStays
<1>3. QED
  BY <1>1, <1>2 DEF Finalize

(* Whatever request is run, the rows stay sound, no attachment stops being   *)
(* ready, and the answer ready is true.                                      *)
LEMMA HandleStep ==
    ASSUME ServerInv, NEW kind \in Requests, NEW u \in Upload, NEW n, NEW answer,
           Handle(kind, u, n, answer)
    PROVE  /\ ServerInv' /\ ReadyStays
           /\ answer = "ready" => attachment'[u] = "ready"
<1>1. CASE Create(u, answer)
  BY <1>1, CreateStep
<1>2. CASE Reissue(u, answer)
  BY <1>2, ReissueStep
<1>3. CASE Finalize(u, n, answer)
  BY <1>3, FinalizeStep
<1>4. CASE kind \in Checks /\ Status(u, answer)
  BY <1>4, ServerUnchanged DEF Status, server
<1>5. QED
  BY <1>1, <1>2, <1>3, <1>4 DEF Handle

-----------------------------------------------------------------------------
(* The browser. *)

(* What a step that leaves the runs alone has to show. *)
LEMMA RowsMove ==
    ASSUME ClientInv, ReadyStays, UNCHANGED run,
           receipt' \in [Receipt -> {"none", "queued", "live", "closed", "refused"}],
           local' \in [Upload -> Rows \cup {"none", "sent", "removed"}], NoPhotoIsLost',
           removal' \in [Upload -> {"none", "asking", "gone", "held", "rejected"}],
           late' \subseteq Late
    PROVE  ClientInv'
<1>1. ClientTypes'
  BY DEF ClientInv, ClientTypes
<1>2. RequestsAreTrue'
  BY DEF ClientInv, RequestsAreTrue, ReadyStays
<1>3. QED
  BY <1>1, <1>2 DEF ClientInv

(* Photos that were sent stay stored. *)
LEMMA LocalKept ==
    ASSUME ClientInv, ReadyStays, UNCHANGED local
    PROVE  /\ local' \in [Upload -> Rows \cup {"none", "sent", "removed"}]
           /\ NoPhotoIsLost'
  BY DEF ClientInv, ClientTypes, NoPhotoIsLost, ReadyStays

(* Marking a row keeps the photos that are sent as they are. *)
LEMMA MarkedKeeps ==
    ASSUME ClientInv, ReadyStays, NEW u \in Upload,
           NEW state \in Rows \cup {"sent", "removed"},
           state = "sent" => attachment'[u] = "ready",
           local' = Marked(u, state)
    PROVE  /\ local' \in [Upload -> Rows \cup {"none", "sent", "removed"}]
           /\ NoPhotoIsLost'
<1>1. local' = [local EXCEPT ![u] = IF @ \in Rows THEN state ELSE @]
  BY DEF Marked
<1>2. QED
  BY <1>1 DEF ClientInv, ClientTypes, NoPhotoIsLost, ReadyStays

(* What a step of one run has to show. *)
LEMMA RunMoves ==
    ASSUME ClientInv, ReadyStays, NEW t \in Tab, NEW next \in RunType, Go(t, next),
           next.stage \in Requests => next.upload \in Upload,
           next.answer = "ready" => next.upload \in Upload /\ attachment'[next.upload] = "ready",
           local' \in [Upload -> Rows \cup {"none", "sent", "removed"}], NoPhotoIsLost',
           receipt' \in [Receipt -> {"none", "queued", "live", "closed", "refused"}],
           UNCHANGED removal, late' \subseteq Late
    PROVE  ClientInv'
<1> USE DEF ClientInv
<1>1. run' = [run EXCEPT ![t] = next]
  BY DEF Go
<1>2. ClientTypes'
  BY <1>1 DEF ClientTypes
<1>3. RequestsAreTrue'
  BY <1>1 DEF ClientTypes, RequestsAreTrue, ReadyStays
<1>4. QED
  BY <1>2, <1>3

(* A run that is about to ask, goes on, is given up, or has its photo        *)
(* rejected.                                                                 *)
LEMMA AskMoves ==
    ASSUME ClientInv, ReadyStays, NEW t \in Tab, NEW kind \in Requests,
           run[t].upload \in Upload, Ask(t, kind), UNCHANGED <<local, receipt, removal, late>>
    PROVE  ClientInv'
<1> DEFINE next == [run[t] EXCEPT !.stage = kind, !.answer = "none"]
<1>1. next \in RunType /\ next.upload = run[t].upload /\ next.answer = "none"
  BY DEF ClientInv, ClientTypes, RunType
<1>2. Go(t, next)
  BY DEF Ask
<1> HIDE DEF next
<1>3. QED
  BY <1>1, <1>2, LocalKept, RunMoves DEF ClientInv, ClientTypes

LEMMA RestingType ==
    ASSUME NEW todo \in SUBSET Upload
    PROVE  LET next == IF todo = {} THEN Idle ELSE [Idle EXCEPT !.stage = "next", !.todo = todo]
           IN  next \in RunType /\ next.stage \notin Requests /\ next.answer = "none"
  BY DEF Idle, RunType, Requests, Checks

LEMMA RunRests ==
    ASSUME ClientInv, ReadyStays, NEW t \in Tab, NEW todo \in SUBSET Upload, GoOn(t, todo),
           local' \in [Upload -> Rows \cup {"none", "sent", "removed"}], NoPhotoIsLost',
           receipt' \in [Receipt -> {"none", "queued", "live", "closed", "refused"}],
           UNCHANGED removal, late' \subseteq Late
    PROVE  ClientInv'
<1> DEFINE next == IF todo = {} THEN Idle ELSE [Idle EXCEPT !.stage = "next", !.todo = todo]
<1>1. next \in RunType /\ next.stage \notin Requests /\ next.answer = "none"
  BY RestingType
<1>2. Go(t, next)
  BY DEF GoOn
<1> HIDE DEF next
<1>3. QED
  BY <1>1, <1>2, RunMoves

LEMMA RunEnds ==
    ASSUME ClientInv, ReadyStays, NEW t \in Tab, Go(t, Idle),
           local' \in [Upload -> Rows \cup {"none", "sent", "removed"}], NoPhotoIsLost',
           UNCHANGED <<receipt, removal>>, late' \subseteq Late
    PROVE  ClientInv'
<1>1. Idle \in RunType /\ Idle.stage \notin Requests /\ Idle.answer = "none"
  BY DEF Idle, RunType, Requests, Checks
<1>2. QED
  BY <1>1, RunMoves DEF ClientInv, ClientTypes

LEMMA RejectedMoves ==
    ASSUME ClientInv, ReadyStays, NEW t \in Tab, run[t].upload \in Upload, Rejected(t),
           UNCHANGED <<receipt, removal, late>>
    PROVE  ClientInv'
<1>1. local' = Marked(run[t].upload, "failed") /\ GoOn(t, run[t].todo)
  BY DEF Rejected, Skip
<1>2. /\ local' \in [Upload -> Rows \cup {"none", "sent", "removed"}]
      /\ NoPhotoIsLost'
  BY <1>1, MarkedKeeps DEF Rows
<1>3. run[t].todo \in SUBSET Upload
  BY DEF ClientInv, ClientTypes, RunType
<1>4. QED
  BY <1>1, <1>2, <1>3, RunRests DEF ClientInv, ClientTypes

LEMMA AbandonedMoves ==
    ASSUME ClientInv, ReadyStays, NEW t \in Tab, run[t].upload \in Upload, Abandoned(t),
           UNCHANGED <<receipt, removal>>, late' \subseteq Late
    PROVE  ClientInv'
<1>1. local' = Marked(run[t].upload, "pending") /\ Go(t, Idle)
  BY DEF Abandoned
<1>2. /\ local' \in [Upload -> Rows \cup {"none", "sent", "removed"}]
      /\ NoPhotoIsLost'
  BY <1>1, MarkedKeeps DEF Rows
<1>3. QED
  BY <1>1, <1>2, RunEnds

(* A status that says ready removes the row of a photo that is stored. *)
LEMMA StoredMoves ==
    ASSUME ClientInv, UNCHANGED server, NEW t \in Tab, Stored(run[t].answer),
           local' = Marked(run[t].upload, "sent"), Skip(t), UNCHANGED <<receipt, removal, late>>
    PROVE  ClientInv'
<1>1. ReadyStays
  BY DEF server, ReadyStays
<1>2. run[t].upload \in Upload /\ attachment'[run[t].upload] = "ready"
  BY DEF server, Stored, ClientInv, RequestsAreTrue
<1>3. /\ local' \in [Upload -> Rows \cup {"none", "sent", "removed"}]
      /\ NoPhotoIsLost'
  BY <1>1, <1>2, MarkedKeeps
<1>4. run[t].todo \in SUBSET Upload
  BY DEF ClientInv, ClientTypes, RunType
<1>5. QED
  BY <1>1, <1>3, <1>4, RunRests DEF ClientInv, ClientTypes, Skip

(* What a browser does with an answer. *)
LEMMA ReceiveMoves ==
    ASSUME ClientInv, NEW t \in Tab, Receive(t)
    PROVE  ClientInv'
<1> DEFINE w == run[t]
<1>1. /\ ReadyStays /\ UNCHANGED server
      /\ UNCHANGED <<receipt, removal, late>>
  BY DEF Receive, server, world, ReadyStays
<1>2. w.stage \in Requests => w.upload \in Upload
  BY DEF ClientInv, RequestsAreTrue
<1>3. CASE w.stage = "create" /\ CreateAnswered(t, w.answer)
  BY <1>1, <1>2, <1>3, AskMoves, RejectedMoves DEF CreateAnswered, Requests, Checks
<1>4. CASE w.stage = "check create" /\ Reconciled(t, Ask(t, "reissue") /\ UNCHANGED local)
  BY <1>1, <1>2, <1>4, AskMoves, StoredMoves DEF Reconciled, Requests, Checks
<1>5. CASE w.stage = "reissue" /\ ReissueAnswered(t, w.answer)
  BY <1>1, <1>2, <1>5, AskMoves, RejectedMoves DEF ReissueAnswered, Requests, Checks
<1>6. CASE w.stage = "check reissue" /\ Reconciled(t, Rejected(t))
  BY <1>1, <1>2, <1>6, RejectedMoves, StoredMoves DEF Reconciled, Requests, Checks
<1>7. CASE w.stage = "put" /\ PutAnswered(t, w.answer)
  BY <1>1, <1>2, <1>7, AskMoves, RejectedMoves DEF PutAnswered, Requests, Checks
<1>8. CASE w.stage = "check put" /\ Reconciled(t, Abandoned(t))
  <2>1. late' \subseteq Late
    BY <1>1 DEF ClientInv, ClientTypes
  <2>2. QED
    BY <1>1, <1>2, <1>8, <2>1, AbandonedMoves, StoredMoves DEF Reconciled, Requests, Checks
<1>9. QED
  BY <1>3, <1>4, <1>5, <1>6, <1>7, <1>8 DEF Receive

-----------------------------------------------------------------------------
(* Every step. *)

LEMMA ServerStep ==
    ASSUME IInv, [Next]_vars
    PROVE  ServerInv' /\ ReadyStays
<1> USE DEF IInv
<1>1. CASE UNCHANGED server
  BY <1>1, ServerUnchanged
<1>2. ASSUME NEW t \in Tab, Serve(t)
      PROVE  ServerInv' /\ ReadyStays
  <2>1. run[t].stage \in Requests /\ run[t].upload \in Upload
    BY <1>2 DEF Serve, ClientInv, RequestsAreTrue
  <2>2. QED
    BY <1>2, <2>1, HandleStep DEF Serve
<1>3. CASE ServeLate
  <2>1. PICK q \in late, answer \in Answers : Handle(q.kind, q.upload, q.ticket, answer)
    BY <1>3 DEF ServeLate
  <2>2. q.kind \in Requests /\ q.upload \in Upload
    BY DEF ClientInv, ClientTypes, Late
  <2>3. QED
    BY <2>1, <2>2, HandleStep
<1>4. CASE TicketExpires
  BY <1>4 DEF TicketExpires, ServerInv, ServerTypes, CreatedFirst, StoredOnce, OneLiveTicket,
              ReadyStays
<1>5. ASSUME NEW u \in Upload, RetireRemoved(u)
      PROVE  ServerInv' /\ ReadyStays
  BY <1>5 DEF RetireRemoved, ServerInv, ServerTypes, CreatedFirst, StoredOnce, OneLiveTicket,
              ReadyStays
<1>6. ASSUME NEW r \in Receipt, CreateReceipt(r) \/ CloseReceipt(r)
      PROVE  UNCHANGED server
  BY <1>6 DEF CreateReceipt, CloseReceipt
<1>7. ASSUME NEW u \in Upload,
             Queue(u) \/ Retry(u) \/ Remove(u) \/ RemovalStatus(u) \/ FinishRemoval(u) \/ RemovalFails(u)
      PROVE  UNCHANGED server
  BY <1>7 DEF Queue, Retry, Remove, RemovalStatus, FinishRemoval, RemovalFails
<1>8. ASSUME NEW t \in Tab,
             \/ Start(t) \/ Push(t) \/ List(t) \/ Take(t) \/ Receive(t)
             \/ Turned(t) \/ RequestFails(t) \/ CloseTab(t)
      PROVE  UNCHANGED server
  BY <1>8 DEF Start, Push, List, Take, Receive, Turned, RequestFails, CloseTab
<1>9. QED
  BY <1>1, <1>2, <1>3, <1>4, <1>5, <1>6, <1>7, <1>8 DEF Next, Step, vars

(* Steps of the user and of other members. *)
LEMMA RowsStep ==
    ASSUME ClientInv, ReadyStays, NEW u \in Upload,
           \/ Queue(u) \/ Retry(u) \/ Remove(u) \/ RemovalStatus(u)
           \/ RetireRemoved(u) \/ FinishRemoval(u) \/ RemovalFails(u)
    PROVE  ClientInv'
<1>0. /\ receipt \in [Receipt -> {"none", "queued", "live", "closed", "refused"}]
      /\ late \subseteq Late
  BY DEF ClientInv, ClientTypes
<1>1. CASE Queue(u) \/ Retry(u)
  <2>1. local' = [local EXCEPT ![u] = "pending"] /\ UNCHANGED <<run, removal, receipt, late>>
    BY <1>1 DEF Queue, Retry, world
  <2>2. local' \in [Upload -> Rows \cup {"none", "sent", "removed"}] /\ NoPhotoIsLost'
    BY <2>1 DEF ClientInv, ClientTypes, NoPhotoIsLost, ReadyStays, Rows
  <2>3. QED
    BY <1>0, <2>1, <2>2, RowsMove DEF ClientInv, ClientTypes
<1>2. CASE Remove(u) \/ RemovalStatus(u) \/ RetireRemoved(u)
  <2>1. UNCHANGED <<run, local, receipt, late>>
    BY <1>2 DEF Remove, RemovalStatus, RetireRemoved, world
  <2>2. removal' \in [Upload -> {"none", "asking", "gone", "held", "rejected"}]
    BY <1>2 DEF Remove, RemovalStatus, RetireRemoved, ClientInv, ClientTypes
  <2>3. QED
    BY <1>0, <2>1, <2>2, LocalKept, RowsMove
<1>3. CASE FinishRemoval(u) \/ RemovalFails(u)
  <2>1. UNCHANGED <<run, receipt, late>> /\ removal' = [removal EXCEPT ![u] = "none"]
    BY <1>3 DEF FinishRemoval, RemovalFails, world
  <2>2. removal' \in [Upload -> {"none", "asking", "gone", "held", "rejected"}]
    BY <2>1 DEF ClientInv, ClientTypes
  <2>3. \/ UNCHANGED local
        \/ local' = Marked(u, "removed")
        \/ local' = Marked(u, "failed")
    BY <1>3 DEF FinishRemoval, RemovalFails
  <2>4. local' \in [Upload -> Rows \cup {"none", "sent", "removed"}] /\ NoPhotoIsLost'
    BY <2>3, LocalKept, MarkedKeeps DEF Rows
  <2>5. QED
    BY <1>0, <2>1, <2>2, <2>4, RowsMove
<1>4. QED
  BY <1>1, <1>2, <1>3

(* Steps of a run. *)
LEMMA RunStep ==
    ASSUME IInv, ServerInv', ReadyStays, NEW t \in Tab,
           Step(t) \/ Turned(t) \/ RequestFails(t) \/ CloseTab(t)
    PROVE  ClientInv'
<1> DEFINE w == run[t]
<1> USE DEF IInv
<1>0. /\ w \in RunType /\ (w.stage \in Requests => w.upload \in Upload)
      /\ receipt \in [Receipt -> {"none", "queued", "live", "closed", "refused"}]
      /\ late \subseteq Late
  BY DEF ClientInv, ClientTypes, RequestsAreTrue
<1>1. CASE Start(t)
  <2> DEFINE queued == {r \in Receipt : receipt[r] = "queued"}
             next == [Idle EXCEPT !.stage = IF queued = {} THEN "list" ELSE "push", !.took = queued]
  <2>1. Go(t, next) /\ UNCHANGED <<local, removal, receipt, late>>
    BY <1>1 DEF Start, world
  <2>2. next \in RunType /\ next.stage \notin Requests /\ next.answer = "none"
    BY DEF Idle, RunType, Requests, Checks
  <2> HIDE DEF next
  <2>3. QED
    BY <1>0, <2>1, <2>2, LocalKept, RunMoves
<1>2. CASE Push(t)
  <2> DEFINE next == [Idle EXCEPT !.stage = "list"]
  <2>1. Go(t, next) /\ UNCHANGED <<local, removal, late>>
    BY <1>2 DEF Push
  <2>2. next \in RunType /\ next.stage \notin Requests /\ next.answer = "none"
    BY DEF Idle, RunType, Requests, Checks
  <2>3. receipt' \in [Receipt -> {"none", "queued", "live", "closed", "refused"}]
    BY <1>0, <1>2 DEF Push
  <2> HIDE DEF next
  <2>4. QED
    BY <1>0, <2>1, <2>2, <2>3, LocalKept, RunMoves
<1>3. CASE List(t)
  <2>1. PICK todo \in SUBSET Upload : GoOn(t, todo)
    BY <1>3 DEF List
  <2>2. UNCHANGED <<local, removal, receipt, late>>
    BY <1>3 DEF List, world
  <2>3. QED
    BY <1>0, <2>1, <2>2, LocalKept, RunRests
<1>4. CASE Take(t)
  <2>1. PICK u \in w.todo :
           /\ local' = Marked(u, "uploading")
           /\ Go(t, [Idle EXCEPT !.stage = "create", !.upload = u, !.todo = w.todo \ {u}])
    BY <1>4 DEF Take
  <2> DEFINE next == [Idle EXCEPT !.stage = "create", !.upload = u, !.todo = w.todo \ {u}]
  <2>2. UNCHANGED <<removal, receipt, late>>
    BY <1>4 DEF Take, world
  <2>3. u \in Upload /\ w.todo \subseteq Upload
    BY <1>0 DEF RunType
  <2>4. next \in RunType /\ next.upload \in Upload /\ next.answer = "none"
    BY <2>3, UploadAssumption DEF Idle, RunType, Requests, Checks
  <2>5. local' \in [Upload -> Rows \cup {"none", "sent", "removed"}] /\ NoPhotoIsLost'
    BY <2>1, <2>3, MarkedKeeps DEF Rows
  <2> HIDE DEF next
  <2>6. Go(t, next)
    BY <2>1 DEF next
  <2>7. QED
    BY <1>0, <2>2, <2>4, <2>5, <2>6, RunMoves
<1>5. CASE Serve(t)
  <2>1. PICK answer \in Answers :
           /\ Handle(w.stage, w.upload, w.ticket, answer)
           /\ Go(t, [w EXCEPT !.answer = answer,
                              !.ticket = IF answer = "ok" /\ w.stage \in {"create", "reissue"}
                                         THEN issued[w.upload] + 1 ELSE @])
    BY <1>5 DEF Serve
  <2> DEFINE next == [w EXCEPT !.answer = answer,
                               !.ticket = IF answer = "ok" /\ w.stage \in {"create", "reissue"}
                                          THEN issued[w.upload] + 1 ELSE @]
  <2>2. w.stage \in Requests /\ w.upload \in Upload /\ UNCHANGED <<local, removal, receipt, late>>
    BY <1>0, <1>5 DEF Serve, world
  <2>3. issued[w.upload] + 1 \in Nat
    BY <2>2 DEF ServerInv, ServerTypes
  <2>4. next \in RunType /\ next.upload = w.upload /\ next.answer = answer
    BY <1>0, <2>3 DEF RunType
  <2>5. answer = "ready" => attachment'[w.upload] = "ready"
    BY <2>1, <2>2, HandleStep
  <2> HIDE DEF next
  <2>6. Go(t, next)
    BY <2>1 DEF next
  <2>7. QED
    BY <1>0, <2>2, <2>4, <2>5, <2>6, LocalKept, RunMoves
<1>6. CASE Receive(t)
  BY <1>6, ReceiveMoves
<1>7. CASE Turned(t)
  <2> DEFINE answer == IF w.stage \in {"create", "reissue", "put"} THEN "denied" ELSE "unknown"
             next == [w EXCEPT !.answer = answer]
  <2>1. Go(t, next) /\ w.stage \in Requests /\ UNCHANGED <<local, removal, receipt, late>>
    BY <1>7 DEF Turned
  <2>2. next \in RunType /\ next.upload = w.upload /\ next.answer # "ready"
    BY <1>0 DEF RunType, Unserved
  <2> HIDE DEF next
  <2>3. QED
    BY <1>0, <2>1, <2>2, LocalKept, RunMoves
<1>8. ASSUME GivenUp(t)
      PROVE  late' \subseteq Late
  BY <1>0, <1>8 DEF GivenUp, Late, RunType, Requests
<1>9. CASE RequestFails(t)
  <2>1. GivenUp(t) /\ UNCHANGED <<removal, receipt>>
    BY <1>9 DEF RequestFails
  <2>2. CASE Go(t, Idle) /\ UNCHANGED local
    BY <1>8, <2>1, <2>2, LocalKept, RunEnds
  <2>3. CASE w.stage \in Requests /\ Abandoned(t)
    BY <1>0, <1>8, <2>1, <2>3, AbandonedMoves
  <2>4. QED
    BY <1>9, <2>2, <2>3 DEF RequestFails
<1>10. CASE CloseTab(t)
  BY <1>8, <1>10, LocalKept, RunEnds DEF CloseTab
<1>11. QED
  BY <1>1, <1>2, <1>3, <1>4, <1>5, <1>6, <1>7, <1>9, <1>10 DEF Step

LEMMA ClientStep ==
    ASSUME IInv, [Next]_vars
    PROVE  ClientInv'
<1>0. ServerInv' /\ ReadyStays
  BY ServerStep
<1> USE DEF IInv
<1>1. ASSUME NEW r \in Receipt, CreateReceipt(r) \/ CloseReceipt(r)
      PROVE  ClientInv'
  <2>1. UNCHANGED <<run, local, removal, late>>
    BY <1>1 DEF CreateReceipt, CloseReceipt, browser
  <2>2. receipt' \in [Receipt -> {"none", "queued", "live", "closed", "refused"}]
    BY <1>1 DEF CreateReceipt, CloseReceipt, ClientInv, ClientTypes
  <2>3. QED
    BY <1>0, <2>1, <2>2, LocalKept, RowsMove DEF ClientInv, ClientTypes
<1>2. ASSUME NEW u \in Upload,
             \/ Queue(u) \/ Retry(u) \/ Remove(u) \/ RemovalStatus(u)
             \/ RetireRemoved(u) \/ FinishRemoval(u) \/ RemovalFails(u)
      PROVE  ClientInv'
  BY <1>0, <1>2, RowsStep
<1>3. ASSUME NEW t \in Tab, Step(t) \/ Turned(t) \/ RequestFails(t) \/ CloseTab(t)
      PROVE  ClientInv'
  BY <1>0, <1>3, RunStep
<1>4. CASE TicketExpires \/ ServeLate \/ UNCHANGED vars
  <2>1. UNCHANGED <<run, local, removal, receipt>> /\ late' \subseteq late
    BY <1>4 DEF TicketExpires, ServeLate, vars, browser, world
  <2>2. QED
    BY <1>0, <2>1, LocalKept, RowsMove DEF ClientInv, ClientTypes
<1>5. QED
  BY <1>1, <1>2, <1>3, <1>4 DEF Next

(* The invariant the theorems below follow from. *)
LEMMA InductiveInvariant == Spec => []IInv
<1>1. Init => IInv
  <2> SUFFICES ASSUME Init PROVE IInv
    OBVIOUS
  <2>1. ServerInv
    BY DEF Init, ServerInv, ServerTypes, CreatedFirst, StoredOnce, OneLiveTicket
  <2>2. Idle \in RunType /\ Idle.stage \notin Requests /\ Idle.answer = "none"
    BY DEF Idle, RunType, Requests, Checks
  <2>3. ClientTypes
    BY <2>2 DEF Init, ClientTypes, Rows
  <2>4. RequestsAreTrue /\ NoPhotoIsLost
    BY <2>2 DEF Init, RequestsAreTrue, NoPhotoIsLost
  <2>5. QED
    BY <2>1, <2>3, <2>4 DEF IInv, ClientInv
<1>2. IInv /\ [Next]_vars => IInv'
  BY ServerStep, ClientStep DEF IInv
<1>3. QED
  BY <1>1, <1>2, PTL DEF Spec

-----------------------------------------------------------------------------
(* Every variable keeps its type, and a ticket is one that was issued. *)
THEOREM TypeCorrect == Spec => []TypeOK
<1>1. IInv => TypeOK
  BY DEF IInv, ServerInv, ServerTypes, ClientInv, ClientTypes, RunType, Late, TypeOK
<1>2. QED
  BY <1>1, InductiveInvariant, PTL

(* The row of a photo goes only when the server has stored the photo or the  *)
(* user removed it, whatever answers were lost and requests ran late.        *)
THEOREM PhotosKept == Spec => []NoPhotoIsLost
<1>1. IInv => NoPhotoIsLost
  BY DEF IInv, ClientInv
<1>2. QED
  BY <1>1, InductiveInvariant, PTL

(* An attachment is finalized once, however often its bytes arrive. *)
THEOREM FinalizedOnce == Spec => []StoredOnce
<1>1. IInv => StoredOnce
  BY DEF IInv, ServerInv
<1>2. QED
  BY <1>1, InductiveInvariant, PTL

(* At most one ticket of an attachment is good, and none once it is stored. *)
THEOREM TicketsAreOne == Spec => []OneLiveTicket
<1>1. IInv => OneLiveTicket
  BY DEF IInv, ServerInv
<1>2. QED
  BY <1>1, InductiveInvariant, PTL
=============================================================================
