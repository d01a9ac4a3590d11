--------------------------- MODULE ReceiptUpload ---------------------------
(***************************************************************************)
(* Receipt photos on their way from a browser to the server: the upload    *)
(* queue of frontend/src/receipt-media.ts, run by the synchronization loop *)
(* after the outbox, and the services of application/receipt_media.py      *)
(* behind http_media.py.                                                   *)
(*                                                                         *)
(* A photo is created on the server, which hands out a one-time upload     *)
(* ticket, and finalized with its bytes; the status of the attachment      *)
(* tells a browser that lost an answer what became of it.  Requests are    *)
(* answered late, or run after the browser has given them up.  A service   *)
(* locks the organization row, so a handler is one step.  Replacement of a *)
(* photo by another, and images the server cannot read, are left out.      *)
(***************************************************************************)
EXTENDS Integers, FiniteSets

CONSTANTS
    Upload,        \* photos of this browser; their order is that of createdAt
    Receipt,       \* receipts
    ReceiptOf,     \* the receipt of each photo
    Tab,           \* tabs that run the synchronization loop
    Locks,         \* whether navigator.locks exists
    MaxFailures,   \* bound: requests that fail, and tabs closed
    MaxTickets     \* bound: tickets of a photo after which nobody retries it

ASSUME UploadAssumption == Upload \subseteq Nat /\ ReceiptOf \in [Upload -> Receipt]
ASSUME LocksAssumption == Locks \in BOOLEAN
ASSUME BoundsAssumption == MaxFailures \in Nat /\ MaxTickets \in Nat

VARIABLES
    receipt,       \* queued in the outbox, live, closed (retired or archived), refused
    local,         \* the row of pendingUploads, or why there is none
    run,           \* how far the loop of each tab is
    removal,       \* how far removeReceiptUpload of each photo is
    late,          \* requests given up that the server may still run
    created,       \* the retained outcome of the create command
    attachment,    \* storage_state of the receipt_attachments row
    retired,       \* attachments that are retired
    issued,        \* upload tickets issued for each attachment
    live,          \* tickets <<u, n>> neither used nor revoked nor expired
    finalized,     \* history: how often each attachment was finalized
    failures       \* history: requests that failed and tabs closed

browser == <<local, run, removal>>
server == <<created, attachment, retired, issued, live, finalized>>
world == <<receipt, late, failures>>
vars == <<browser, server, world>>

Rows == {"pending", "uploading", "failed"}
Checks == {"check create", "check reissue", "check put"}
Requests == {"create", "reissue", "put"} \cup Checks
Answers == {"ok", "conflict", "refused", "absent", "pending", "ready"}
Unserved == {"denied", "unknown"}
Idle == [stage |-> "idle", upload |-> 0, ticket |-> 0, answer |-> "none",
         took |-> {}, todo |-> {}]

TypeOK ==
    /\ receipt \in [Receipt -> {"none", "queued", "live", "closed", "refused"}]
    /\ local \in [Upload -> Rows \cup {"none", "sent", "removed"}]
    /\ run \in [Tab -> [stage : Requests \cup {"idle", "push", "list", "next"},
                        upload : Nat, ticket : Nat, answer : Answers \cup Unserved \cup {"none"},
                        took : SUBSET Receipt, todo : SUBSET Upload]]
    /\ removal \in [Upload -> {"none", "asking", "gone", "held", "rejected"}]
    /\ late \subseteq [kind : Requests, upload : Upload, ticket : Nat]
    /\ created \in [Upload -> {"none", "accepted", "rejected"}]
    /\ attachment \in [Upload -> {"absent", "pending", "ready"}]
    /\ retired \subseteq Upload
    /\ issued \in [Upload -> Nat]
    /\ \A k \in live : k[1] \in Upload /\ k[2] \in 1..issued[k[1]]
    /\ finalized \in [Upload -> Nat]

Init ==
    /\ receipt = [r \in Receipt |-> "none"]
    /\ local = [u \in Upload |-> "none"]
    /\ run = [t \in Tab |-> Idle]
    /\ removal = [u \in Upload |-> "none"]
    /\ late = {}
    /\ created = [u \in Upload |-> "none"]
    /\ attachment = [u \in Upload |-> "absent"]
    /\ retired = {}
    /\ issued = [u \in Upload |-> 0]
    /\ live = {}
    /\ finalized = [u \in Upload |-> 0]
    /\ failures = 0

-----------------------------------------------------------------------------
(* The server. *)

Writable(u) == receipt[ReceiptOf[u]] = "live"

(* create_receipt_attachment: the retained outcome carries no ticket. *)
Create(u, answer) ==
    \/ /\ created[u] = "accepted" /\ answer = "conflict"
       /\ UNCHANGED server
    \/ /\ created[u] = "rejected" /\ answer = "refused"
       /\ UNCHANGED server
    \/ /\ created[u] = "none" /\ ~Writable(u) /\ answer = "refused"
       /\ created' = [created EXCEPT ![u] = "rejected"]
       /\ UNCHANGED <<attachment, retired, issued, live, finalized>>
    \/ /\ created[u] = "none" /\ Writable(u) /\ answer = "ok"
       /\ created' = [created EXCEPT ![u] = "accepted"]
       /\ attachment' = [attachment EXCEPT ![u] = "pending"]
       /\ issued' = [issued EXCEPT ![u] = @ + 1]
       /\ live' = live \cup {<<u, issued[u] + 1>>}
       /\ UNCHANGED <<retired, finalized>>

Open(u) == Writable(u) /\ attachment[u] = "pending" /\ u \notin retired

(* Bug: a ticket is handed out that no row keeps. *)
ReissueUnsaved(u, answer) ==
    \/ ~Open(u) /\ answer = "refused" /\ UNCHANGED server
    \/ /\ Open(u) /\ answer = "ok"
       /\ live' = {k \in live : k[1] # u} \cup {<<u, issued[u] + 1>>}
       /\ UNCHANGED <<created, attachment, retired, issued, finalized>>

(* Bug: the tickets issued before stay valid. *)
ReissueMore(u, answer) ==
    \/ ~Open(u) /\ answer = "refused" /\ UNCHANGED server
    \/ /\ Open(u) /\ answer = "ok"
       /\ issued' = [issued EXCEPT ![u] = @ + 1]
       /\ live' = live \cup {<<u, issued[u] + 1>>}
       /\ UNCHANGED <<created, attachment, retired, finalized>>

(* issue_receipt_attachment_upload_ticket: the live tickets are invalidated. *)
Reissue(u, answer) ==
    \/ ~Open(u) /\ answer = "refused" /\ UNCHANGED server
    \/ /\ Open(u) /\ answer = "ok"
       /\ issued' = [issued EXCEPT ![u] = @ + 1]
       /\ live' = {k \in live : k[1] # u} \cup {<<u, issued[u] + 1>>}
       /\ UNCHANGED <<created, attachment, retired, finalized>>

(* Bug: a retained finalization is not looked up, a used ticket is good. *)
FinalizeAgain(u, n, answer) ==
    \/ attachment[u] = "absent" /\ answer = "refused" /\ UNCHANGED server
    \/ /\ attachment[u] # "absent" /\ answer = "ok"
       /\ attachment' = [attachment EXCEPT ![u] = "ready"]
       /\ finalized' = [finalized EXCEPT ![u] = @ + 1]
       /\ UNCHANGED <<created, retired, issued, live>>

(* finalize_receipt_attachment: a retained finalization is answered again;   *)
(* a refusal is not retained.                                                *)
Finalize(u, n, answer) ==
    \/ attachment[u] = "ready" /\ answer = "ok" /\ UNCHANGED server
    \/ /\ attachment[u] # "ready" /\ ~(Open(u) /\ <<u, n>> \in live)
       /\ answer = "refused"
       /\ UNCHANGED server
    \/ /\ Open(u) /\ <<u, n>> \in live /\ answer = "ok"
       /\ attachment' = [attachment EXCEPT ![u] = "ready"]
       /\ live' = live \ {<<u, n>>}
       /\ finalized' = [finalized EXCEPT ![u] = @ + 1]
       /\ UNCHANGED <<created, retired, issued>>

(* attachment_status *)
Status(u, answer) == answer = attachment[u] /\ UNCHANGED server

Handle(kind, u, n, answer) ==
    \/ kind = "create" /\ Create(u, answer)
    \/ kind = "reissue" /\ Reissue(u, answer)
    \/ kind = "put" /\ Finalize(u, n, answer)
    \/ kind \in Checks /\ Status(u, answer)

TicketExpires ==
    /\ \E k \in live : live' = live \ {k}
    /\ UNCHANGED <<browser, world, created, attachment, retired, issued, finalized>>

(* Other members retire a receipt or archive its event, and undo it. *)
CloseReceipt(r) ==
    /\ receipt[r] \in {"live", "closed"}
    /\ receipt' = [receipt EXCEPT ![r] = IF @ = "live" THEN "closed" ELSE "live"]
    /\ UNCHANGED <<browser, server, late, failures>>

-----------------------------------------------------------------------------
(* The user. *)

CreateReceipt(r) ==
    /\ receipt[r] = "none"
    /\ receipt' = [receipt EXCEPT ![r] = "queued"]
    /\ UNCHANGED <<browser, server, late, failures>>

(* queueReceiptAttachment, for a receipt the user sees. *)
Queue(u) ==
    /\ local[u] = "none" /\ \A v \in Upload : v < u => local[v] # "none"
    /\ receipt[ReceiptOf[u]] \in {"queued", "live", "closed"}
    /\ local' = [local EXCEPT ![u] = "pending"]
    /\ UNCHANGED <<run, removal, server, world>>

(* retryReceiptUpload *)
Retry(u) ==
    /\ local[u] = "failed" /\ issued[u] < MaxTickets
    /\ local' = [local EXCEPT ![u] = "pending"]
    /\ UNCHANGED <<run, removal, server, world>>

(* Updating a row that was deleted meanwhile changes nothing. *)
Marked(u, state) == [local EXCEPT ![u] = IF @ \in Rows THEN state ELSE @]

(* removeReceiptUpload: ask for the status of the attachment ... *)
Remove(u) ==
    /\ local[u] \in Rows /\ removal[u] = "none"
    /\ removal' = [removal EXCEPT ![u] = "asking"]
    /\ UNCHANGED <<local, run, server, world>>

RemovalStatus(u) ==
    /\ removal[u] = "asking"
    /\ removal' = [removal EXCEPT ![u] =
          IF u \in retired \/ attachment[u] = "absent" THEN "gone" ELSE "held"]
    /\ UNCHANGED <<local, run, server, world>>

(* ... retire it if the server has it (set_receipt_attachment_lifecycle) ... *)
RetireRemoved(u) ==
    /\ removal[u] = "held"
    /\ IF Writable(u) /\ u \notin retired
       THEN retired' = retired \cup {u} /\ removal' = [removal EXCEPT ![u] = "gone"]
       ELSE UNCHANGED retired /\ removal' = [removal EXCEPT ![u] = "rejected"]
    /\ UNCHANGED <<local, run, world, created, attachment, issued, live, finalized>>

(* ... and delete the row, or keep it as failed. *)
FinishRemoval(u) ==
    /\ \/ removal[u] = "gone" /\ local' = Marked(u, "removed")
       \/ removal[u] = "rejected" /\ local' = Marked(u, "failed")
    /\ removal' = [removal EXCEPT ![u] = "none"]
    /\ UNCHANGED <<run, server, world>>

(* The status or the retirement fails, before or after the server ran it: an *)
(* error status marks the row failed, a request that throws leaves it alone.  *)
RemovalFails(u) ==
    /\ removal[u] # "none" /\ failures < MaxFailures
    /\ failures' = failures + 1
    /\ removal' = [removal EXCEPT ![u] = "none"]
    /\ local' \in {local} \cup (IF removal[u] = "asking" THEN {Marked(u, "failed")} ELSE {})
    /\ UNCHANGED <<run, server, receipt, late>>

-----------------------------------------------------------------------------
(* A run of the loop: push the outbox, then dispatchReceiptUploads. *)

Go(t, next) == run' = [run EXCEPT ![t] = next]

(* A run starts at any time (an edit, a mount, a timer); dispatchOutbox reads *)
(* the receipts that are queued: without one it has nothing to send ...      *)
Start(t) ==
    /\ run[t].stage = "idle"
    /\ Locks => \A s \in Tab : run[s].stage = "idle"
    /\ LET queued == {r \in Receipt : receipt[r] = "queued"}
       IN  Go(t, [Idle EXCEPT !.stage = IF queued = {} THEN "list" ELSE "push", !.took = queued])
    /\ UNCHANGED <<local, removal, server, world>>

(* ... and the server accepts or refuses them. *)
Push(t) ==
    /\ run[t].stage = "push"
    /\ \E refused \in SUBSET run[t].took :
          receipt' = [r \in Receipt |->
             IF r \in run[t].took /\ receipt[r] = "queued"
             THEN IF r \in refused THEN "refused" ELSE "live"
             ELSE receipt[r]]
    /\ Go(t, [Idle EXCEPT !.stage = "list"])
    /\ UNCHANGED <<local, removal, server, late, failures>>

Ask(t, kind) == Go(t, [run[t] EXCEPT !.stage = kind, !.answer = "none"])
GoOn(t, todo) == Go(t, IF todo = {} THEN Idle ELSE [Idle EXCEPT !.stage = "next", !.todo = todo])
Skip(t) == GoOn(t, run[t].todo)

(* The pending uploads are read once, in the order of createdAt. *)
List(t) ==
    /\ run[t].stage = "list"
    /\ GoOn(t, {u \in Upload : local[u] = "pending"})
    /\ UNCHANGED <<local, removal, server, world>>

Take(t) ==
    /\ run[t].stage = "next"
    /\ \E u \in run[t].todo :
          /\ \A v \in run[t].todo : u <= v
          /\ local' = Marked(u, "uploading")
          /\ Go(t, [Idle EXCEPT !.stage = "create", !.upload = u, !.todo = run[t].todo \ {u}])
    /\ UNCHANGED <<removal, server, world>>

(* The server runs the request of the tab. *)
Serve(t) ==
    LET w == run[t]
    IN  /\ w.stage \in Requests /\ w.answer = "none"
        /\ \E answer \in Answers :
              /\ Handle(w.stage, w.upload, w.ticket, answer)
              /\ Go(t, [w EXCEPT !.answer = answer,
                                 !.ticket = IF answer = "ok" /\ w.stage \in {"create", "reissue"}
                                            THEN issued[w.upload] + 1 ELSE @])
        /\ UNCHANGED <<local, removal, world>>

(* The server answers without running the request: the session expired (any  *)
(* request but a status), or the status cannot be told.                      *)
Turned(t) ==
    /\ run[t].stage \in Requests /\ run[t].answer = "none"
    /\ failures < MaxFailures
    /\ failures' = failures + 1
    /\ Go(t, [run[t] EXCEPT !.answer =
                IF run[t].stage \in {"create", "reissue", "put"} THEN "denied" ELSE "unknown"])
    /\ UNCHANGED <<local, removal, server, receipt, late>>

(* Bug: what the server calls pending is taken for stored. *)
StoredOrPending(answer) == answer \in {"ready", "pending"}

(* reconcileReceiptUpload: the server holds the bytes of this very photo. *)
Stored(answer) == answer = "ready"

(* A status was answered: the row goes, or the upload goes on.  (It fails    *)
(* for an attachment that is absent or holds another image, which a browser  *)
(* that asks after an accepted create cannot be told.)                       *)
Reconciled(t, goOn) ==
    LET w == run[t]
    IN  \/ Stored(w.answer) /\ local' = Marked(w.upload, "sent") /\ Skip(t)
        \/ ~Stored(w.answer) /\ goOn

(* The catch branch for a failed request: the row is pending again, and the  *)
(* whole run is given up.                                                    *)
Abandoned(t) == local' = Marked(run[t].upload, "pending") /\ Go(t, Idle)

(* Bug: a 4xx answer is taken for a failed request. *)
RejectedForNow(t) == Abandoned(t)

(* The catch branch for a 4xx answer: only the user has the photo sent again. *)
Rejected(t) == local' = Marked(run[t].upload, "failed") /\ Skip(t)

CreateAnswered(t, answer) ==
    \/ answer = "ok" /\ Ask(t, "put") /\ UNCHANGED local
    \/ answer = "conflict" /\ Ask(t, "check create") /\ UNCHANGED local
    \/ answer \in {"refused", "denied"} /\ Rejected(t)

ReissueAnswered(t, answer) ==
    \/ answer = "ok" /\ Ask(t, "put") /\ UNCHANGED local
    \/ answer = "refused" /\ Ask(t, "check reissue") /\ UNCHANGED local
    \/ answer = "denied" /\ Rejected(t)

PutAnswered(t, answer) ==
    \/ answer = "ok" /\ Ask(t, "check put") /\ UNCHANGED local
    \/ answer \in {"refused", "denied"} /\ Rejected(t)

Receive(t) ==
    LET w == run[t]
    IN  /\ w.answer # "none"
        /\ \/ w.stage = "create" /\ CreateAnswered(t, w.answer)
           \/ w.stage = "check create" /\ Reconciled(t, Ask(t, "reissue") /\ UNCHANGED local)
           \/ w.stage = "reissue" /\ ReissueAnswered(t, w.answer)
           \/ w.stage = "check reissue" /\ Reconciled(t, Rejected(t))
           \/ w.stage = "put" /\ PutAnswered(t, w.answer)
           \/ w.stage = "check put" /\ Reconciled(t, Abandoned(t))
        /\ UNCHANGED <<removal, server, world>>

(* The request of the tab may run although nobody waits for it any more. *)
GivenUp(t) ==
    LET w == run[t]
        request == [kind |-> w.stage, upload |-> w.upload, ticket |-> w.ticket]
    IN  IF w.stage \in {"create", "reissue", "put"} /\ w.answer = "none"
        THEN late' \in {late, late \cup {request}} ELSE UNCHANGED late

(* The network fails, or the answer is lost. *)
RequestFails(t) ==
    /\ run[t].stage \in Requests \cup {"push"} /\ failures < MaxFailures
    /\ failures' = failures + 1
    /\ IF run[t].stage = "push" THEN Go(t, Idle) /\ UNCHANGED local ELSE Abandoned(t)
    /\ GivenUp(t)
    /\ UNCHANGED <<removal, server, receipt>>

CloseTab(t) ==
    /\ run[t].stage # "idle" /\ failures < MaxFailures
    /\ failures' = failures + 1
    /\ Go(t, Idle)
    /\ GivenUp(t)
    /\ UNCHANGED <<local, removal, server, receipt>>

ServeLate ==
    \E q \in late :
       /\ late' = late \ {q}
       /\ \E answer \in Answers : Handle(q.kind, q.upload, q.ticket, answer)
       /\ UNCHANGED <<browser, receipt, failures>>

-----------------------------------------------------------------------------
Step(t) == Start(t) \/ Push(t) \/ List(t) \/ Take(t) \/ Serve(t) \/ Receive(t)

Next ==
    \/ \E r \in Receipt : CreateReceipt(r) \/ CloseReceipt(r)
    \/ \E u \in Upload :
          \/ Queue(u) \/ Retry(u) \/ Remove(u) \/ RemovalStatus(u)
          \/ RetireRemoved(u) \/ FinishRemoval(u) \/ RemovalFails(u)
    \/ \E t \in Tab : Step(t) \/ Turned(t) \/ RequestFails(t) \/ CloseTab(t)
    \/ TicketExpires
    \/ ServeLate

Spec == Init /\ [][Next]_vars

(* Every request ends, and a pending upload starts the loop of each tab      *)
(* again: SyncScheduler shows that it does.                                  *)
FairSpec ==
    /\ Spec
    /\ \A t \in Tab : WF_vars(Step(t))

-----------------------------------------------------------------------------
(* Properties. *)

(* The bytes of a photo leave the browser only when the server has stored    *)
(* this photo, or the user removed it: no lost answer, closed tab, expired   *)
(* session or late request loses one.                                        *)
NoPhotoIsLost == \A u \in Upload : local[u] = "sent" => attachment[u] = "ready"

(* However often a photo is sent, its attachment is finalized once.          *)
StoredOnce ==
    \A u \in Upload : finalized[u] = IF attachment[u] = "ready" THEN 1 ELSE 0

(* At most one ticket of an attachment can be used, and none after it is     *)
(* finalized, whatever retries, tabs and late requests asked for.            *)
OneLiveTicket ==
    \A u \in Upload :
       /\ \A k, l \in live : k[1] = u /\ l[1] = u => k = l
       /\ attachment[u] = "ready" => \A k \in live : k[1] # u

(* A row that says uploading although no run is at it. *)
Stranded(u) == local[u] = "uploading" /\ \A t \in Tab : run[t].upload # u

(* A queued photo is sent, fails or is removed in the end, unless a tab that *)
(* was closed has left it marked as uploading.                               *)
UploadsSettle ==
    \A u \in Upload :
       local[u] = "pending" ~> local[u] \in {"sent", "failed", "removed"} \/ Stranded(u)

(* The documented order: a photo is sent after ordinary synchronization has  *)
(* made its receipt authoritative; the server never refuses one for want of  *)
(* a receipt that is still in the outbox.                                    *)
UploadsFollowReceipts ==
    \A u \in Upload : created[u] = "rejected" => receipt[ReceiptOf[u]] # "queued"
=============================================================================
