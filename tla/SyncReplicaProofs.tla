------------------------- MODULE SyncReplicaProofs -------------------------
(***************************************************************************)
(* Safety of CommandService and of SyncReplica, for any events, recipes,   *)
(* commands, contexts, wall-clock times, limits and number of failures,    *)
(* and any order and number of deliveries.                                 *)
(*                                                                         *)
(* The first part is about the server, ServerSpec.  Three invariants, one  *)
(* on top of the other:                                                    *)
(*   IInv        outcomes, answers and published groups belong together;   *)
(*   WriterInv   each clock is the stamp of the latest command applied to  *)
(*               its field, and the field holds what that command asked;   *)
(*   CarriedInv  the last group that mentions a row has the row.           *)
(*                                                                         *)
(* The second is about a replica that talks to it.  Every step of          *)
(* SyncReplica is a step of ServerSpec or leaves the server alone, so the  *)
(* theorems of the first part hold here too.  Three more invariants:       *)
(*   OutboxInv  what a pending, a failed and an answered command imply,    *)
(*              and what an event shows meanwhile;                         *)
(*   SentInv    the order in which commands reach the server;              *)
(*   HoldInv    what a context has applied, when all pulls take the lock.  *)
(***************************************************************************)
EXTENDS SyncReplica, FiniteSetTheorems, WellFoundedInduction, TLAPS

-----------------------------------------------------------------------------
(* Part I: the command services. *)

(* What a group of the feed may carry: rows of events and of recipes. *)
Records == UNION {[X -> EventRow \cup RecipeRow] : X \in SUBSET Entity}
Group == [mutation : Command, records : Records]

(* A delivery that has been decided and not yet retained is of a lifecycle   *)
(* command; what has an outcome has been issued.                             *)
Decided ==
    /\ \A c \in deciding : request[c].kind \in {"archive", "reactivate"}
    /\ \A c \in Command : retained[c] # "none" => request[c] # NoRequest

(* The groups are those of the applied commands, one each. *)
Published ==
    /\ \A i \in DOMAIN feed : retained[feed[i].mutation] \in Applied
    /\ \A i, j \in DOMAIN feed : feed[i].mutation = feed[j].mutation => i = j
    /\ \A c \in Command : retained[c] \in Applied => \E i \in DOMAIN feed : feed[i].mutation = c

Types == TypeOK /\ feed \in Seq(Group)

IInv == Types /\ Decided /\ Published /\ AnswersAreKept

-----------------------------------------------------------------------------
(* Requests. *)

LEMMA AnyRequest ==
    ASSUME NEW req \in Request
    PROVE  /\ req.kind \in AllKinds
           /\ req # NoRequest
           /\ req.time \in Nat /\ req.value \in Nat
           /\ req.kind \in {"update_base_attendance", "archive", "reactivate"} => req.target \in Event
           /\ req.kind \in {"set_manual", "follow_event", "retire", "restore"} => req.target \in Recipe
<1> DEFINE Typed ==
             /\ req.kind \in AllKinds
             /\ req.time \in Nat /\ req.value \in Nat
             /\ req.kind \in {"update_base_attendance", "archive", "reactivate"} => req.target \in Event
             /\ req.kind \in {"set_manual", "follow_event", "retire", "restore"} => req.target \in Recipe
<1>1. ASSUME NEW K \in SUBSET {"update_base_attendance", "archive", "reactivate"},
             NEW V \in SUBSET Nat, req \in [kind : K, target : Event, time : WallTimes, value : V]
      PROVE  Typed
  BY <1>1, WallTimesAssumption DEF AllKinds
<1>2. ASSUME NEW K \in SUBSET {"set_manual", "follow_event", "retire", "restore"},
             NEW V \in SUBSET Nat, req \in [kind : K, target : Recipe, time : WallTimes, value : V]
      PROVE  Typed
  BY <1>2, WallTimesAssumption DEF AllKinds
<1>3. Typed
  <2> HIDE DEF Typed
  <2> {0} \in SUBSET Nat
    OBVIOUS
  <2> Kinds \cap {"archive", "reactivate"} \in SUBSET {"update_base_attendance", "archive", "reactivate"}
    OBVIOUS
  <2> Kinds \cap {"follow_event", "retire", "restore"}
        \in SUBSET {"set_manual", "follow_event", "retire", "restore"}
    OBVIOUS
  <2>1. CASE req \in [kind : Kinds \cap {"update_base_attendance"}, target : Event,
                     time : WallTimes, value : Attendances]
    BY <2>1, <1>1, AttendancesAssumption
  <2>2. CASE req \in [kind : Kinds \cap {"archive", "reactivate"}, target : Event,
                     time : WallTimes, value : {0}]
    BY <2>2, <1>1
  <2>3. CASE req \in [kind : Kinds \cap {"set_manual"}, target : Recipe,
                     time : WallTimes, value : Attendances]
    BY <2>3, <1>2, AttendancesAssumption
  <2>4. CASE req \in [kind : Kinds \cap {"follow_event", "retire", "restore"}, target : Recipe,
                     time : WallTimes, value : {0}]
    BY <2>4, <1>2
  <2>5. QED
    BY <2>1, <2>2, <2>3, <2>4 DEF Request
<1>4. req # NoRequest
  BY <1>3 DEF NoRequest, AllKinds
<1>5. QED
  BY <1>3, <1>4

LEMMA Requested ==
    ASSUME TypeOK, NEW c \in Command, request[c].kind \in AllKinds
    PROVE  /\ request[c] \in Request
           /\ StampOf(c) \in Stamp
           /\ request[c].value \in Nat
           /\ request[c].kind \in {"update_base_attendance", "archive", "reactivate"} => request[c].target \in Event
           /\ request[c].kind \in {"set_manual", "follow_event", "retire", "restore"} => request[c].target \in Recipe
<1>1. request[c] \in Request
  BY DEF TypeOK, NoRequest, AllKinds
<1>2. QED
  BY <1>1, AnyRequest, CommandAssumption DEF StampOf, Stamp

LEMMA FeedMutations ==
    ASSUME Types
    PROVE  \A i \in DOMAIN feed : feed[i] \in Group /\ feed[i].mutation \in Command
<1>1. \A i \in DOMAIN feed : feed[i] \in Group
  BY DEF Types
<1>2. QED
  BY <1>1 DEF Group

-----------------------------------------------------------------------------
(* What the endings of a command keep, given what it does to the rows. *)

RowTypes ==
    /\ lifecycle \in [Event -> {"active", "archived"}]
    /\ attendance \in [Event -> Nat]
    /\ scheduled \in [Recipe -> RecipeRow]
    /\ clock \in [Field -> Stamp]

LEMMA Concluded ==
    ASSUME IInv, NEW c \in Command, NEW outcome \in Applied, NEW records \in Records,
           request[c].kind \in AllKinds, retained[c] = "none",
           RowTypes', Conclude(c, outcome, records)
    PROVE  IInv'
<1> DEFINE group == [mutation |-> c, records |-> records]
<1> USE DEF IInv, Types, Conclude, Answer, Applied, Outcome
<1>1. group \in Group
  BY DEF Group
<1>2. /\ feed' \in Seq(Group) /\ Len(feed') = Len(feed) + 1 /\ DOMAIN feed' = DOMAIN feed \cup {Len(feed) + 1}
      /\ DOMAIN feed = 1..Len(feed) /\ Len(feed) \in Nat
      /\ feed'[Len(feed) + 1] = group
      /\ \A i \in DOMAIN feed : feed'[i] = feed[i] /\ feed[i] \in Group
  BY <1>1
<1>3. Types'
  BY <1>2 DEF TypeOK, RowTypes
<1>4. Decided'
  BY DEF Decided, TypeOK, NoRequest, AllKinds
<1>5. \A i \in DOMAIN feed : feed[i].mutation # c
  BY <1>2 DEF Published
<1>6. Published'
  <2>1. \A i \in DOMAIN feed : feed[i].mutation \in Command
    BY <1>2 DEF Group
  <2>2. /\ retained'[c] = outcome
        /\ \A d \in Command \ {c} : retained'[d] = retained[d]
    BY DEF TypeOK
  <2>3. feed'[Len(feed) + 1].mutation = c
    BY <1>2
  <2>4. \A i \in DOMAIN feed : feed'[i].mutation = feed[i].mutation
    BY <1>2
  <2>5. \A i \in DOMAIN feed' : retained'[feed'[i].mutation] \in Applied
    BY <1>2, <1>5, <2>1, <2>2, <2>3, <2>4 DEF Published
  <2>6. \A i, j \in DOMAIN feed' : feed'[i].mutation = feed'[j].mutation => i = j
    BY <1>2, <1>5, <2>3, <2>4 DEF Published
  <2>7. \A d \in Command : retained'[d] \in Applied => \E i \in DOMAIN feed' : feed'[i].mutation = d
    BY <1>2, <2>2, <2>3, <2>4 DEF Published
  <2>8. QED
    BY <2>5, <2>6, <2>7 DEF Published
<1>7. AnswersAreKept'
  BY DEF AnswersAreKept, TypeOK
<1>8. QED
  BY <1>3, <1>4, <1>6, <1>7

LEMMA Rejected ==
    ASSUME IInv, NEW c \in Command, request[c].kind \in AllKinds, retained[c] = "none", Reject(c)
    PROVE  IInv'
<1> USE DEF IInv, Types, Reject, Answer, Outcome, rows
<1>1. Types'
  BY DEF TypeOK
<1>2. Decided'
  BY DEF Decided, TypeOK, NoRequest, AllKinds
<1>3. \A i \in DOMAIN feed : feed[i].mutation \in Command /\ feed[i].mutation # c
  BY FeedMutations DEF Published, Applied
<1>4. Published'
  BY <1>3 DEF Published, TypeOK, Applied
<1>5. AnswersAreKept'
  BY DEF AnswersAreKept, TypeOK, Applied
<1>6. QED
  BY <1>1, <1>2, <1>4, <1>5

-----------------------------------------------------------------------------
(* The records a service publishes, and the rows it leaves. *)

LEMMA EventRecordType ==
    ASSUME TypeOK, NEW e \in Event
    PROVE  EventRecord(e) \in EventRow
  BY DEF EventRecord, EventRow, TypeOK

LEMMA OneRecord ==
    ASSUME NEW x \in Entity, NEW row \in EventRow \cup RecipeRow
    PROVE  [y \in {x} |-> row] \in Records
<1>1. [y \in {x} |-> row] \in [{x} -> EventRow \cup RecipeRow] /\ {x} \in SUBSET Entity
  OBVIOUS
<1>2. QED
  BY <1>1 DEF Records

LEMMA UpdateStep ==
    ASSUME IInv, NEW c \in Command, UpdateBaseAttendance(c)
    PROVE  IInv'
<1> DEFINE e == request[c].target
           v == request[c].value
           f == <<e, "attendance">>
<1> USE DEF IInv, Types
<1>1. /\ request[c].kind \in AllKinds
      /\ retained[c] = "none"
      /\ request[c].kind = "update_base_attendance"
  BY DEF UpdateBaseAttendance, Fresh, AllKinds
<1>2. e \in Event /\ v \in Nat /\ StampOf(c) \in Stamp
  BY <1>1, Requested
<1>3. EventRecord(e) \in EventRow /\ e \in Entity
  BY <1>2, EventRecordType DEF Entity
<1>4. CASE Reject(c)
  BY <1>1, <1>4, Rejected
<1>5. CASE /\ attendance' = [attendance EXCEPT ![e] = v]
           /\ scheduled' = [r \in Recipe |->
                              IF r \in FollowingRecipes(e)
                              THEN [scheduled[r] EXCEPT !.diners = v] ELSE scheduled[r]]
           /\ clock' = [clock EXCEPT ![f] = StampOf(c)]
           /\ UNCHANGED lifecycle
           /\ Conclude(c, "accepted", AttendanceRecords(e, v))
  <2>1. \A r \in Recipe : [scheduled[r] EXCEPT !.diners = v] \in RecipeRow
    BY <1>2 DEF TypeOK, RecipeRow
  <2>2. RowTypes'
    BY <1>2, <1>5, <2>1 DEF RowTypes, TypeOK
  <2>3. [EventRecord(e) EXCEPT !.attendance = v] \in EventRow
    BY <1>2, <1>3 DEF EventRow
  <2>4. {e} \cup FollowingRecipes(e) \in SUBSET Entity
    BY <1>3 DEF FollowingRecipes, Entity
  <2>5. AttendanceRecords(e, v) \in [{e} \cup FollowingRecipes(e) -> EventRow \cup RecipeRow]
    BY <2>1, <2>3 DEF AttendanceRecords, FollowingRecipes
  <2>6. AttendanceRecords(e, v) \in Records
    BY <2>4, <2>5 DEF Records
  <2>7. QED
    BY <1>1, <1>5, <2>2, <2>6, Concluded DEF Applied
<1>6. CASE UNCHANGED rows /\ Conclude(c, "partially_superseded", [x \in {e} |-> EventRecord(e)])
  <2>1. RowTypes'
    BY <1>6 DEF RowTypes, TypeOK, rows
  <2>2. QED
    BY <1>1, <1>3, <1>6, <2>1, OneRecord, Concluded DEF Applied
<1>7. QED
  BY <1>4, <1>5, <1>6 DEF UpdateBaseAttendance

(* The two services of a scheduled recipe end alike. *)
LEMMA RecipeStep ==
    ASSUME IInv, NEW c \in Command, NEW r \in Recipe, NEW row \in RecipeRow, NEW f \in Field,
           request[c].kind \in AllKinds, retained[c] = "none",
           \/ Reject(c)
           \/ /\ scheduled' = [scheduled EXCEPT ![r] = row]
              /\ clock' = [clock EXCEPT ![f] = StampOf(c)]
              /\ UNCHANGED <<lifecycle, attendance>>
              /\ Conclude(c, "accepted", [x \in {r} |-> row])
           \/ /\ UNCHANGED rows
              /\ Conclude(c, "partially_superseded", [x \in {r} |-> scheduled[r]])
    PROVE  IInv'
<1> USE DEF IInv, Types
<1>1. r \in Entity /\ scheduled[r] \in RecipeRow
  BY DEF Entity, TypeOK
<1>2. CASE Reject(c)
  BY <1>2, Rejected
<1>3. CASE /\ scheduled' = [scheduled EXCEPT ![r] = row]
           /\ clock' = [clock EXCEPT ![f] = StampOf(c)]
           /\ UNCHANGED <<lifecycle, attendance>>
           /\ Conclude(c, "accepted", [x \in {r} |-> row])
  <2>1. RowTypes'
    BY <1>3, Requested DEF RowTypes, TypeOK
  <2>2. QED
    BY <1>1, <1>3, <2>1, OneRecord, Concluded DEF Applied
<1>4. CASE /\ UNCHANGED rows
           /\ Conclude(c, "partially_superseded", [x \in {r} |-> scheduled[r]])
  <2>1. RowTypes'
    BY <1>4 DEF RowTypes, TypeOK, rows
  <2>2. QED
    BY <1>1, <1>4, <2>1, OneRecord, Concluded DEF Applied
<1>5. QED
  BY <1>2, <1>3, <1>4

LEMMA RecipeAttendanceStep ==
    ASSUME IInv, NEW c \in Command, SetRecipeAttendance(c)
    PROVE  IInv'
<1> DEFINE r == request[c].target
           e == EventOf[r]
           row == IF request[c].kind = "follow_event"
                  THEN [scheduled[r] EXCEPT !.mode = "follows_event", !.diners = attendance[e]]
                  ELSE [scheduled[r] EXCEPT !.mode = "manual", !.diners = request[c].value]
<1> USE DEF IInv, Types
<1>1. request[c].kind \in {"set_manual", "follow_event"} /\ retained[c] = "none"
  BY DEF SetRecipeAttendance, Fresh
<1>2. request[c].kind \in AllKinds
  BY <1>1 DEF AllKinds
<1>3. r \in Recipe /\ request[c].value \in Nat
  BY <1>1, <1>2, Requested
<1>4. attendance[e] \in Nat
  BY <1>3, EventOfAssumption DEF TypeOK
<1>5. row \in RecipeRow
  BY <1>3, <1>4, ZenonT(40) DEF TypeOK, RecipeRow
<1>6. <<r, "attendance">> \in Field
  BY <1>3 DEF Field, Entity
<1> HIDE DEF row
<1>7. \/ Reject(c)
      \/ /\ scheduled' = [scheduled EXCEPT ![r] = row]
         /\ clock' = [clock EXCEPT ![<<r, "attendance">>] = StampOf(c)]
         /\ UNCHANGED <<lifecycle, attendance>>
         /\ Conclude(c, "accepted", [x \in {r} |-> row])
      \/ /\ UNCHANGED rows
         /\ Conclude(c, "partially_superseded", [x \in {r} |-> scheduled[r]])
  BY DEF SetRecipeAttendance, row
<1>8. QED
  BY <1>1, <1>2, <1>3, <1>5, <1>6, <1>7, RecipeStep

LEMMA RecipeLifecycleStep ==
    ASSUME IInv, NEW c \in Command, SetRecipeLifecycle(c)
    PROVE  IInv'
<1> DEFINE r == request[c].target
           row == [scheduled[r] EXCEPT !.retired = (request[c].kind = "retire")]
<1> USE DEF IInv, Types
<1>1. request[c].kind \in {"retire", "restore"} /\ retained[c] = "none"
  BY DEF SetRecipeLifecycle, Fresh
<1>2. request[c].kind \in AllKinds
  BY <1>1 DEF AllKinds
<1>3. r \in Recipe
  BY <1>1, <1>2, Requested
<1>4. (request[c].kind = "retire") \in BOOLEAN
  OBVIOUS
<1>5. row \in RecipeRow
  BY <1>3, <1>4, ZenonT(40) DEF TypeOK, RecipeRow
<1>6. <<r, "lifecycle">> \in Field
  BY <1>3 DEF Field, Entity
<1> HIDE DEF row
<1>7. \/ Reject(c)
      \/ /\ scheduled' = [scheduled EXCEPT ![r] = row]
         /\ clock' = [clock EXCEPT ![<<r, "lifecycle">>] = StampOf(c)]
         /\ UNCHANGED <<lifecycle, attendance>>
         /\ Conclude(c, "accepted", [x \in {r} |-> row])
      \/ /\ UNCHANGED rows
         /\ Conclude(c, "partially_superseded", [x \in {r} |-> scheduled[r]])
  BY DEF SetRecipeLifecycle, row
<1>8. QED
  BY <1>1, <1>2, <1>3, <1>5, <1>6, <1>7, RecipeStep

LEMMA EventLifecycleStep ==
    ASSUME IInv, NEW c \in Command, SetEventLifecycle(c)
    PROVE  IInv'
<1> DEFINE e == request[c].target
           after == Resulting(request[c].kind)
<1> USE DEF IInv, Types
<1>1. request[c].kind \in {"archive", "reactivate"} /\ retained[c] = "none"
  BY DEF SetEventLifecycle, Fresh
<1>2. request[c].kind \in AllKinds
  BY <1>1 DEF AllKinds
<1>3. e \in Event /\ e \in Entity /\ EventRecord(e) \in EventRow /\ StampOf(c) \in Stamp
  BY <1>1, <1>2, Requested, EventRecordType DEF Entity
<1>4. after \in {"active", "archived"}
  BY DEF Resulting
<1>5. [EventRecord(e) EXCEPT !.lifecycle = after] \in EventRow
  BY <1>3, <1>4 DEF EventRow
<1>6. RowTypes'
  BY <1>3, <1>4 DEF RowTypes, TypeOK, SetEventLifecycle
<1>7. Conclude(c, "accepted", [x \in {e} |-> [EventRecord(e) EXCEPT !.lifecycle = after]])
  BY DEF SetEventLifecycle
<1>8. QED
  BY <1>1, <1>2, <1>3, <1>5, <1>6, <1>7, OneRecord, Concluded DEF Applied

(* Retrying, and the rejection of a lifecycle command in two transactions:   *)
(* no row and no group is written, and an outcome only where there was none. *)
LEMMA RejectionStep ==
    ASSUME IInv, NEW c \in Command,
           \/ Replay(c) \/ RefuseEventLifecycle(c)
           \/ RetainLifecycleRejection(c) \/ LoseLifecycleRejection(c)
    PROVE  IInv'
<1> USE DEF IInv, rows, Answer
<1>1. \A i \in DOMAIN feed : feed[i].mutation \in Command
  BY FeedMutations
<1>2. CASE Replay(c)
  <2> USE <1>2 DEF Replay
  <2>1. Types' /\ Decided' /\ Published'
    BY DEF Types, TypeOK, Outcome, Decided, Published
  <2>2. AnswersAreKept'
    BY DEF Types, TypeOK, Outcome, AnswersAreKept, Applied
  <2>3. QED
    BY <2>1, <2>2
<1>3. CASE RefuseEventLifecycle(c)
  BY <1>3 DEF RefuseEventLifecycle, Fresh, Types, TypeOK, Decided, Published, AnswersAreKept
<1>4. CASE RetainLifecycleRejection(c)
  <2> USE <1>4 DEF RetainLifecycleRejection
  <2>1. Types'
    BY DEF Types, TypeOK, Outcome
  <2>2. Decided'
    BY DEF Types, TypeOK, Decided, NoRequest
  <2>3. Published'
    BY <1>1 DEF Types, TypeOK, Published, Applied
  <2>4. AnswersAreKept'
    BY DEF Types, TypeOK, Decided, AnswersAreKept, Applied, Outcome
  <2>5. QED
    BY <2>1, <2>2, <2>3, <2>4
<1>5. CASE LoseLifecycleRejection(c)
  BY <1>5 DEF LoseLifecycleRejection, Types, TypeOK, Decided, Published, AnswersAreKept
<1>6. QED
  BY <1>2, <1>3, <1>4, <1>5

LEMMA ClientStep ==
    ASSUME IInv, Tick \/ \E c \in Command, req \in Request : Issue(c, req)
    PROVE  IInv'
<1> USE DEF IInv, Types, rows
<1>1. CASE Tick
  BY <1>1, TimeAssumption DEF Tick, TypeOK, Decided, Published, AnswersAreKept
<1>2. ASSUME NEW c \in Command, NEW req \in Request, Issue(c, req)
      PROVE  IInv'
  <2> USE <1>2 DEF Issue
  <2>1. req # NoRequest /\ req.kind \in AllKinds
    BY AnyRequest
  <2>2. Types'
    BY DEF TypeOK
  <2>3. c \notin deciding /\ retained[c] = "none"
    BY DEF Decided, NoRequest
  <2>4. Decided'
    BY <2>1, <2>3 DEF Decided, TypeOK
  <2>5. Published'
    BY DEF Published
  <2>6. AnswersAreKept'
    BY DEF AnswersAreKept, TypeOK, NoRequest
  <2>7. QED
    BY <2>2, <2>4, <2>5, <2>6
<1>3. QED
  BY <1>1, <1>2

(* Where a field starts is a stamp, and the first one is before any other. *)
LEMMA StartStamp ==
    ASSUME NEW x, NEW field
    PROVE  /\ StartOf(x, field) \in Stamp
           /\ \A s \in Nat \X Nat : Later(s, NoClock)
<1>1. NoClock \in Stamp /\ Nat \X Nat \subseteq Stamp
  BY DEF NoClock, Stamp
<1>2. \A e \in Event : Creation[e] \in Stamp
  BY <1>1, CreationAssumption
<1>3. QED
  BY <1>1, <1>2 DEF StartOf, Later, NoClock

LEMMA InitialInv ==
    ASSUME ServerInit
    PROVE  IInv
<1> USE DEF ServerInit
<1>1. TypeOK
  <2>1. clock \in [Field -> Stamp]
    BY StartStamp
  <2>2. QED
    BY <2>1 DEF TypeOK, RecipeRow
<1>2. feed \in Seq(Group) /\ DOMAIN feed = {}
  OBVIOUS
<1>3. Decided /\ Published /\ AnswersAreKept
  BY <1>2 DEF Decided, Published, AnswersAreKept, Applied
<1>4. QED
  BY <1>1, <1>2, <1>3 DEF IInv, Types

LEMMA InductiveStep ==
    ASSUME IInv, [ServerNext]_serverVars
    PROVE  IInv'
<1>1. CASE Tick \/ \E c \in Command, req \in Request : Issue(c, req)
  BY <1>1, ClientStep
<1>2. ASSUME NEW c \in Command, Deliver(c)
      PROVE  IInv'
  BY <1>2, UpdateStep, RecipeAttendanceStep, RecipeLifecycleStep, EventLifecycleStep,
     RejectionStep DEF Deliver
<1>3. CASE UNCHANGED serverVars
  BY <1>3 DEF serverVars, rows, IInv, Types, TypeOK, Decided, Published, AnswersAreKept
<1>4. QED
  BY <1>1, <1>2, <1>3 DEF ServerNext

LEMMA Induction == ServerSpec => []IInv
  BY InitialInv, InductiveStep, PTL DEF ServerSpec

-----------------------------------------------------------------------------
(* Last writer wins. *)

(* The stamp of a field is that of the latest command applied to it, or the  *)
(* one it started with when none of them is later.                           *)
WrittenBy(x, kinds, field) ==
    LET S == AppliedTo(x, kinds)
        start == StartOf(x, field)
    IN  \/ /\ clock[<<x, field>>] = start
           /\ \A d \in S : ~Later(StampOf(d), start)
        \/ \E w \in S : /\ clock[<<x, field>>] = StampOf(w)
                         /\ Later(StampOf(w), start)
                         /\ \A d \in S \ {w} : Later(StampOf(w), StampOf(d))

EventKinds == {"update_base_attendance"}
DinerKinds == {"set_manual", "follow_event"}
RetireKinds == {"retire", "restore"}

ClocksAreLatest ==
    /\ \A e \in Event : WrittenBy(e, EventKinds, "attendance")
    /\ \A r \in Recipe : /\ WrittenBy(r, DinerKinds, "attendance")
                         /\ WrittenBy(r, RetireKinds, "lifecycle")

(* A field holds what the command of its stamp asked for. *)
EventHolds(e) ==
    /\ clock[<<e, "attendance">>] = Creation[e] => attendance[e] = 0
    /\ \A w \in AppliedTo(e, EventKinds) :
          clock[<<e, "attendance">>] = StampOf(w) => attendance[e] = request[w].value

DinersHold(r) ==
    /\ clock[<<r, "attendance">>] = NoClock => scheduled[r].mode = "follows_event"
    /\ \A w \in AppliedTo(r, DinerKinds) :
          clock[<<r, "attendance">>] = StampOf(w) =>
             IF request[w].kind = "follow_event" THEN scheduled[r].mode = "follows_event"
             ELSE scheduled[r].mode = "manual" /\ scheduled[r].diners = request[w].value

RetirementHolds(r) ==
    /\ clock[<<r, "lifecycle">>] = NoClock => scheduled[r].retired = FALSE
    /\ \A w \in AppliedTo(r, RetireKinds) :
          clock[<<r, "lifecycle">>] = StampOf(w) =>
             IF request[w].kind = "retire" THEN scheduled[r].retired = TRUE
             ELSE scheduled[r].retired = FALSE

FieldsHold ==
    /\ \A e \in Event : EventHolds(e)
    /\ \A r \in Recipe : DinersHold(r) /\ RetirementHolds(r)

WriterInv == ClocksAreLatest /\ FieldsHold /\ FollowersAgree

(* Later is a strict total order on the stamps of commands. *)
LEMMA StampOrder ==
    ASSUME IInv, NEW c \in Command, NEW d \in Command,
           request[c].kind \in AllKinds, request[d].kind \in AllKinds
    PROVE  /\ StampOf(c) # NoClock /\ StampOf(c) \in Nat \X Nat
           /\ \A x, field : StampOf(c) # StartOf(x, field)
           /\ StampOf(c) = StampOf(d) => c = d
           /\ c # d => Later(StampOf(c), StampOf(d)) \/ Later(StampOf(d), StampOf(c))
           /\ ~(Later(StampOf(c), StampOf(d)) /\ Later(StampOf(d), StampOf(c)))
<1>1. request[c].time \in Nat /\ request[d].time \in Nat
  BY Requested, AnyRequest DEF IInv, Types
<1>2. StampOf(c) # NoClock
  BY <1>1 DEF StampOf, NoClock
<1>3. \A x, field : StampOf(c) # StartOf(x, field)
  <2>1. ASSUME NEW e \in Event
        PROVE  StampOf(c) # Creation[e]
    <3>1. StampOf(c)[2] = c
      BY DEF StampOf
    <3>2. Creation[e] # NoClock => Creation[e][2] \notin Command
      BY CreationAssumption
    <3>3. QED
      BY <1>2, <3>1, <3>2
  <2>2. QED
    BY <1>2, <2>1 DEF StartOf
<1>4. QED
  BY <1>1, <1>2, <1>3, CommandAssumption DEF StampOf, Later

LEMMA LaterTransitive ==
    ASSUME NEW a \in Stamp, NEW b \in Stamp, NEW c \in Stamp,
           Later(a, b), Later(b, c) \/ ~Later(c, b)
    PROVE  Later(a, c)
  BY DEF Later, Stamp

LEMMA AppliedMoves ==
    ASSUME IInv, NEW c \in Command, NEW outcome \in Applied, NEW records,
           retained[c] = "none", Conclude(c, outcome, records)
    PROVE  /\ request' = request
           /\ \A d \in Command : retained'[d] \in Applied <=> d = c \/ retained[d] \in Applied
           /\ retained[c] \notin Applied
  BY DEF IInv, Types, TypeOK, Conclude, Applied

LEMMA AppliedKinds ==
    ASSUME NEW x, NEW kinds \in SUBSET AllKinds, NEW d \in AppliedTo(x, kinds)
    PROVE  d \in Command /\ request[d].kind \in AllKinds
  BY DEF AppliedTo

(* A command that is applied to x enters the order of its writers. *)
LEMMA Written ==
    ASSUME IInv, NEW x \in Entity, NEW kinds \in SUBSET AllKinds,
           NEW field \in {"attendance", "lifecycle"}, WrittenBy(x, kinds, field),
           NEW c \in Command, NEW outcome \in Applied, NEW records,
           retained[c] = "none", request[c].kind \in kinds, request[c].target = x,
           Conclude(c, outcome, records),
           \/ Wins(c, <<x, field>>) /\ clock'[<<x, field>>] = StampOf(c)
           \/ ~Wins(c, <<x, field>>) /\ clock'[<<x, field>>] = clock[<<x, field>>]
    PROVE  WrittenBy(x, kinds, field)'
<1> DEFINE S == AppliedTo(x, kinds)
           f == <<x, field>>
<1>1. request' = request /\ AppliedTo(x, kinds)' = S \cup {c} /\ c \notin S
  BY AppliedMoves DEF AppliedTo
<1>2. \A d \in S \cup {c} : d \in Command /\ request[d].kind \in AllKinds /\ StampOf(d) \in Nat \X Nat
  <2>1. \A d \in S \cup {c} : d \in Command /\ request[d].kind \in AllKinds
    BY AppliedKinds
  <2>2. \A d \in S \cup {c} : request[d].time \in Nat
    BY <2>1, Requested, AnyRequest DEF IInv, Types
  <2>3. QED
    BY <2>1, <2>2, CommandAssumption DEF StampOf
<1>3. \A d \in Command : StampOf(d)' = StampOf(d)
  BY <1>1 DEF StampOf
<1> DEFINE start == StartOf(x, field)
<1>6. start \in Stamp /\ \A d \in S \cup {c} : StampOf(d) \in Stamp /\ StampOf(d) # start
  BY <1>2, StartStamp, StampOrder DEF Stamp
<1>7. SUFFICES \/ /\ clock'[f] = start
                 /\ \A d \in S \cup {c} : ~Later(StampOf(d), start)
              \/ \E w \in S \cup {c} :
                    /\ clock'[f] = StampOf(w)
                    /\ Later(StampOf(w), start)
                    /\ \A d \in (S \cup {c}) \ {w} : Later(StampOf(w), StampOf(d))
  BY <1>1, <1>2, <1>3 DEF WrittenBy
<1> HIDE DEF start
<1>4. CASE clock[f] = start /\ \A d \in S : ~Later(StampOf(d), start)
  <2>1. CASE Wins(c, f) /\ clock'[f] = StampOf(c)
    <3>1. Later(StampOf(c), start)
      BY <1>2, <1>4, <2>1, StartStamp DEF Wins
    <3>2. \A d \in S : Later(StampOf(c), StampOf(d))
      BY <1>4, <1>6, <3>1, LaterTransitive
    <3>3. QED
      BY <2>1, <3>1, <3>2
  <2>2. CASE ~Wins(c, f) /\ clock'[f] = clock[f]
    BY <1>4, <2>2 DEF Wins
  <2>3. QED
    BY <2>1, <2>2
<1>5. CASE ~(clock[f] = start /\ \A d \in S : ~Later(StampOf(d), start))
  <2>1. PICK w \in S : /\ clock[f] = StampOf(w) /\ Later(StampOf(w), start)
                       /\ \A d \in S \ {w} : Later(StampOf(w), StampOf(d))
    BY <1>5 DEF WrittenBy, start
  <2>2. StampOf(w) # NoClock /\ w # c
    BY <1>1, <1>2, StampOrder
  <2>3. CASE Wins(c, f) /\ clock'[f] = StampOf(c)
    <3>1. Later(StampOf(c), StampOf(w))
      BY <2>1, <2>2, <2>3 DEF Wins
    <3>2. \A d \in S : Later(StampOf(c), StampOf(d))
      BY <1>6, <2>1, <3>1, LaterTransitive
    <3>3. Later(StampOf(c), start)
      BY <1>6, <2>1, <3>1, LaterTransitive
    <3>4. QED
      BY <2>3, <3>2, <3>3
  <2>4. CASE ~Wins(c, f) /\ clock'[f] = clock[f]
    <3>1. Later(StampOf(w), StampOf(c))
      BY <1>2, <2>1, <2>2, <2>4, StampOrder DEF Wins
    <3>2. QED
      BY <2>1, <2>4, <3>1
  <2>5. QED
    BY <2>3, <2>4
<1>8. QED
  BY <1>4, <1>5

LEMMA NotWritten ==
    ASSUME IInv, NEW x \in Entity, NEW kinds \in SUBSET AllKinds,
           NEW field \in {"attendance", "lifecycle"}, WrittenBy(x, kinds, field),
           clock'[<<x, field>>] = clock[<<x, field>>],
           AppliedTo(x, kinds)' = AppliedTo(x, kinds),
           \A d \in AppliedTo(x, kinds) : request'[d] = request[d]
    PROVE  WrittenBy(x, kinds, field)'
<1>1. \A d \in AppliedTo(x, kinds) : StampOf(d)' = StampOf(d)
  BY DEF StampOf
<1>2. QED
  BY <1>1 DEF WrittenBy

(* A field that is not written still holds what was asked for, if no command *)
(* with its stamp has come to be applied.                                    *)
Old(w, x, kinds) == w \in AppliedTo(x, kinds) /\ request'[w] = request[w]

LEMMA EventKept ==
    ASSUME NEW e \in Event, EventHolds(e),
           clock'[<<e, "attendance">>] = clock[<<e, "attendance">>], attendance'[e] = attendance[e],
           \A w \in AppliedTo(e, EventKinds)' :
              Old(w, e, EventKinds) \/ clock[<<e, "attendance">>] # StampOf(w)'
    PROVE  EventHolds(e)'
<1>1. \A w \in AppliedTo(e, EventKinds)' : Old(w, e, EventKinds) => StampOf(w)' = StampOf(w)
  BY DEF Old, StampOf
<1>2. QED
  BY <1>1 DEF EventHolds, Old

LEMMA DinersKept ==
    ASSUME NEW r \in Recipe, DinersHold(r),
           clock'[<<r, "attendance">>] = clock[<<r, "attendance">>],
           scheduled'[r].mode = scheduled[r].mode,
           scheduled[r].mode = "manual" => scheduled'[r].diners = scheduled[r].diners,
           \A w \in AppliedTo(r, DinerKinds)' :
              Old(w, r, DinerKinds) \/ clock[<<r, "attendance">>] # StampOf(w)'
    PROVE  DinersHold(r)'
<1>1. \A w \in AppliedTo(r, DinerKinds)' : Old(w, r, DinerKinds) => StampOf(w)' = StampOf(w)
  BY DEF Old, StampOf
<1>2. QED
  BY <1>1 DEF DinersHold, Old

LEMMA RetirementKept ==
    ASSUME NEW r \in Recipe, RetirementHolds(r),
           clock'[<<r, "lifecycle">>] = clock[<<r, "lifecycle">>],
           scheduled'[r].retired = scheduled[r].retired,
           \A w \in AppliedTo(r, RetireKinds)' :
              Old(w, r, RetireKinds) \/ clock[<<r, "lifecycle">>] # StampOf(w)'
    PROVE  RetirementHolds(r)'
<1>1. \A w \in AppliedTo(r, RetireKinds)' : Old(w, r, RetireKinds) => StampOf(w)' = StampOf(w)
  BY DEF Old, StampOf
<1>2. QED
  BY <1>1 DEF RetirementHolds, Old

(* Steps that neither apply a command nor write a row. *)
LEMMA QuietStep ==
    ASSUME IInv, WriterInv, UNCHANGED rows,
           \A d \in Command : retained'[d] \in Applied <=> retained[d] \in Applied,
           \A d \in Command : retained[d] \in Applied => request'[d] = request[d]
    PROVE  WriterInv'
<1> USE DEF rows
<1>1. \A x, kinds : /\ AppliedTo(x, kinds)' = AppliedTo(x, kinds)
                    /\ \A d \in AppliedTo(x, kinds) : request'[d] = request[d]
  BY DEF AppliedTo
<1>2. \A x, kinds : \A w \in AppliedTo(x, kinds)' : Old(w, x, kinds)
  BY <1>1 DEF Old
<1>3. ClocksAreLatest'
  BY <1>1, NotWritten DEF WriterInv, ClocksAreLatest, Entity, EventKinds, DinerKinds, RetireKinds, AllKinds
<1>4. \A e \in Event : EventHolds(e)'
  BY <1>2, EventKept DEF WriterInv, FieldsHold
<1>5. \A r \in Recipe : DinersHold(r)' /\ RetirementHolds(r)'
  BY <1>2, DinersKept, RetirementKept DEF WriterInv, FieldsHold
<1>6. FollowersAgree'
  BY DEF WriterInv, FollowersAgree
<1>7. QED
  BY <1>3, <1>4, <1>5, <1>6 DEF WriterInv, FieldsHold

(* What an applied command changes in the order of the writers. *)
LEMMA ClocksStep ==
    ASSUME IInv, ClocksAreLatest,
           NEW x \in Entity, NEW field \in {"attendance", "lifecycle"},
           NEW c \in Command, NEW outcome \in Applied, NEW records,
           retained[c] = "none", request[c].kind \in AllKinds, request[c].target = x,
           request[c].kind \in EventKinds \cup DinerKinds => field = "attendance",
           request[c].kind \in RetireKinds => field = "lifecycle",
           request[c].kind \in {"archive", "reactivate"} => field = "lifecycle" /\ x \notin Recipe,
           Conclude(c, outcome, records),
           \/ Wins(c, <<x, field>>) /\ clock' = [clock EXCEPT ![<<x, field>>] = StampOf(c)]
           \/ ~Wins(c, <<x, field>>) /\ clock' = clock
           \/ request[c].kind \in {"archive", "reactivate"}
              /\ clock' = [clock EXCEPT ![<<x, field>>] = StampOf(c)]
    PROVE  ClocksAreLatest'
<1>1. ASSUME NEW y \in Entity, NEW kinds \in SUBSET AllKinds, NEW g \in {"attendance", "lifecycle"},
             WrittenBy(y, kinds, g),
             request[c].kind \in kinds /\ x = y => g = field,
             ~(request[c].kind \in kinds /\ x = y) => <<y, g>> # <<x, field>>,
             request[c].kind \notin kinds \/ request[c].kind \notin {"archive", "reactivate"}
      PROVE  WrittenBy(y, kinds, g)'
  <2>1. /\ clock[<<x, field>>] \in Stamp
        /\ clock \in [Field -> Stamp]
        /\ <<x, field>> \in Field
        /\ <<y, g>> \in Field
    BY DEF IInv, Types, TypeOK, Field
  <2>2. CASE request[c].kind \in kinds /\ x = y
    <3>1. \/ Wins(c, <<y, g>>) /\ clock'[<<y, g>>] = StampOf(c)
          \/ ~Wins(c, <<y, g>>) /\ clock'[<<y, g>>] = clock[<<y, g>>]
      BY <1>1, <2>1, <2>2
    <3>2. QED
      BY <1>1, <2>2, <3>1, Written
  <2>3. CASE ~(request[c].kind \in kinds /\ x = y)
    <3>1. clock'[<<y, g>>] = clock[<<y, g>>]
      BY <1>1, <2>1, <2>3
    <3>2. AppliedTo(y, kinds)' = AppliedTo(y, kinds) /\ request' = request
      BY <2>3, AppliedMoves DEF AppliedTo
    <3>3. QED
      BY <1>1, <3>1, <3>2, NotWritten
  <2>4. QED
    BY <2>2, <2>3
<1>2. request[c].kind \in EventKinds \cup {"archive", "reactivate"} => x \in Event
  BY Requested DEF IInv, Types, EventKinds
<1>3. request[c].kind \in DinerKinds \cup RetireKinds => x \in Recipe
  BY Requested DEF IInv, Types, DinerKinds, RetireKinds
<1> USE DEF EventKinds, DinerKinds, RetireKinds, AllKinds, ClocksAreLatest
<1>4. \A e \in Event : WrittenBy(e, EventKinds, "attendance")'
  BY <1>1, <1>2, <1>3, DistinctAssumption DEF Entity
<1>5. \A r \in Recipe : WrittenBy(r, DinerKinds, "attendance")'
  BY <1>1, <1>2, <1>3, DistinctAssumption DEF Entity
<1>6. \A r \in Recipe : WrittenBy(r, RetireKinds, "lifecycle")'
  BY <1>1, <1>2, <1>3, DistinctAssumption DEF Entity
<1>7. QED
  BY <1>4, <1>5, <1>6

(* The writers of every field that the applied command c is not about. *)
LEMMA OtherWriters ==
    ASSUME IInv, NEW c \in Command, NEW outcome \in Applied, NEW records,
           retained[c] = "none", Conclude(c, outcome, records)
    PROVE  /\ request' = request
           /\ \A d \in Command : StampOf(d)' = StampOf(d)
           /\ \A x, kinds : \A w \in AppliedTo(x, kinds)' :
                 \/ Old(w, x, kinds)
                 \/ w = c /\ request[c].target = x /\ request[c].kind \in kinds
  BY AppliedMoves DEF AppliedTo, Old, StampOf

(* The stamp of a field is never that of a command yet to be applied. *)
LEMMA FreshStamp ==
    ASSUME IInv, NEW c \in Command, request[c].kind \in AllKinds, retained[c] = "none",
           NEW x, NEW kinds \in SUBSET AllKinds, NEW field, WrittenBy(x, kinds, field)
    PROVE  clock[<<x, field>>] # StampOf(c)
<1>1. StampOf(c) # StartOf(x, field)
  BY StampOrder
<1>2. ASSUME NEW w \in AppliedTo(x, kinds), clock[<<x, field>>] = StampOf(w)
      PROVE  clock[<<x, field>>] # StampOf(c)
  <2>1. w \in Command /\ request[w].kind \in AllKinds /\ w # c
    BY <1>2, AppliedKinds DEF AppliedTo, Applied
  <2>2. QED
    BY <1>2, <2>1, StampOrder
<1>3. QED
  BY <1>1, <1>2 DEF WrittenBy

(* A superseded command leaves the rows alone. *)
LEMMA SupersededStep ==
    ASSUME IInv, WriterInv, UNCHANGED rows,
           NEW x \in Entity, NEW field \in {"attendance", "lifecycle"},
           NEW c \in Command, NEW outcome \in Applied, NEW records,
           retained[c] = "none", request[c].target = x,
           request[c].kind \in EventKinds \cup DinerKinds \cup RetireKinds,
           request[c].kind \in EventKinds \cup DinerKinds => field = "attendance",
           request[c].kind \in RetireKinds => field = "lifecycle",
           Conclude(c, outcome, records), ~Wins(c, <<x, field>>)
    PROVE  WriterInv'
<1> USE DEF rows
<1>1. request[c].kind \in AllKinds /\ request[c].kind \notin {"archive", "reactivate"}
  BY DEF EventKinds, DinerKinds, RetireKinds, AllKinds
<1>2. ClocksAreLatest'
  BY <1>1, ClocksStep DEF WriterInv
<1>3. /\ EventKinds \in SUBSET AllKinds
      /\ DinerKinds \in SUBSET AllKinds
      /\ RetireKinds \in SUBSET AllKinds
  BY DEF EventKinds, DinerKinds, RetireKinds, AllKinds
<1>4. StampOf(c)' = StampOf(c)
  BY OtherWriters
<1>5. \A e \in Event : EventHolds(e)'
  <2>1. \A e \in Event : \A w \in AppliedTo(e, EventKinds)' :
           Old(w, e, EventKinds) \/ clock[<<e, "attendance">>] # StampOf(w)'
    BY <1>1, <1>3, <1>4, FreshStamp, OtherWriters DEF WriterInv, ClocksAreLatest
  <2>2. QED
    BY <2>1, EventKept DEF WriterInv, FieldsHold
<1>6. \A r \in Recipe : DinersHold(r)' /\ RetirementHolds(r)'
  <2>1. \A r \in Recipe : \A w \in AppliedTo(r, DinerKinds)' :
           Old(w, r, DinerKinds) \/ clock[<<r, "attendance">>] # StampOf(w)'
    BY <1>1, <1>3, <1>4, FreshStamp, OtherWriters DEF WriterInv, ClocksAreLatest
  <2>2. \A r \in Recipe : \A w \in AppliedTo(r, RetireKinds)' :
           Old(w, r, RetireKinds) \/ clock[<<r, "lifecycle">>] # StampOf(w)'
    BY <1>1, <1>3, <1>4, FreshStamp, OtherWriters DEF WriterInv, ClocksAreLatest
  <2>3. QED
    BY <2>1, <2>2, DinersKept, RetirementKept DEF WriterInv, FieldsHold
<1>7. FollowersAgree'
  BY DEF WriterInv, FollowersAgree
<1>8. QED
  BY <1>2, <1>5, <1>6, <1>7 DEF WriterInv, FieldsHold

(* No two commands that are applied have the same stamp. *)
LEMMA OwnStamp ==
    ASSUME IInv, NEW c \in Command, NEW outcome \in Applied, NEW records,
           retained[c] = "none", request[c].kind \in AllKinds, Conclude(c, outcome, records)
    PROVE  /\ StampOf(c) # NoClock /\ \A e \in Event : StampOf(c) # Creation[e]
           /\ \A x : \A kinds \in SUBSET AllKinds : \A w \in AppliedTo(x, kinds)' :
                 StampOf(w)' = StampOf(c) => w = c
<1>1. StampOf(c) # NoClock /\ \A e \in Event : StampOf(c) # Creation[e]
  BY StampOrder DEF StartOf
<1>2. ASSUME NEW x, NEW kinds \in SUBSET AllKinds, NEW w \in Command, w \in AppliedTo(x, kinds)',
             StampOf(w)' = StampOf(c)
      PROVE  w = c
  <2>1. request[w].kind \in AllKinds /\ StampOf(w) = StampOf(c)
    BY <1>2, AppliedMoves, OtherWriters DEF AppliedTo
  <2>2. QED
    BY <2>1, StampOrder
<1>3. \A x, kinds : \A w \in AppliedTo(x, kinds)' : w \in Command
  BY DEF AppliedTo
<1>4. QED
  BY <1>1, <1>2, <1>3

LEMMA KindSets ==
    /\ EventKinds \in SUBSET AllKinds
    /\ DinerKinds \in SUBSET AllKinds
    /\ RetireKinds \in SUBSET AllKinds
  BY DEF EventKinds, DinerKinds, RetireKinds, AllKinds

LEMMA UpdateWrites ==
    ASSUME IInv, WriterInv, NEW c \in Command, UpdateBaseAttendance(c)
    PROVE  WriterInv'
<1> DEFINE e == request[c].target
           v == request[c].value
           f == <<e, "attendance">>
<1>1. request[c].kind = "update_base_attendance" /\ retained[c] = "none"
  BY DEF UpdateBaseAttendance, Fresh
<1>2. request[c].kind \in AllKinds /\ request[c].kind \in EventKinds
      /\ request[c].kind \notin DinerKinds \cup RetireKinds \cup {"archive", "reactivate"}
  BY <1>1 DEF AllKinds, EventKinds, DinerKinds, RetireKinds
<1>3. e \in Event /\ e \in Entity /\ e \notin Recipe /\ f \in Field /\ v \in Nat
  BY <1>1, <1>2, Requested, DistinctAssumption DEF IInv, Types, Entity, Field
<1>4. CASE Reject(c)
  BY <1>1, <1>4, QuietStep DEF Reject, IInv, Types, TypeOK, Applied
<1>5. CASE /\ Wins(c, f)
           /\ attendance' = [attendance EXCEPT ![e] = v]
           /\ scheduled' = [r \in Recipe |->
                              IF r \in FollowingRecipes(e)
                              THEN [scheduled[r] EXCEPT !.diners = v] ELSE scheduled[r]]
           /\ clock' = [clock EXCEPT ![f] = StampOf(c)]
           /\ UNCHANGED lifecycle
           /\ Conclude(c, "accepted", AttendanceRecords(e, v))
  <2>1. ClocksAreLatest'
    BY <1>1, <1>2, <1>3, <1>5, ClocksStep DEF WriterInv, Applied
  <2>2. /\ request' = request
        /\ \A x, kinds : \A w \in AppliedTo(x, kinds)' :
                 \/ Old(w, x, kinds)
                 \/ w = c /\ request[c].target = x /\ request[c].kind \in kinds
    BY <1>1, <1>5, OtherWriters DEF Applied
  <2>3. \A y \in Event : clock'[<<y, "attendance">>] =
                            IF y = e THEN StampOf(c) ELSE clock[<<y, "attendance">>]
    BY <1>3, <1>5 DEF IInv, Types, TypeOK, Field, Entity
  <2>4. \A r \in Recipe : /\ clock'[<<r, "attendance">>] = clock[<<r, "attendance">>]
                          /\ clock'[<<r, "lifecycle">>] = clock[<<r, "lifecycle">>]
    BY <1>3, <1>5 DEF IInv, Types, TypeOK, Field, Entity
  <2>5. \A y \in Event : attendance'[y] = IF y = e THEN v ELSE attendance[y]
    BY <1>3, <1>5 DEF IInv, Types, TypeOK
  <2>6. \A r \in Recipe :
           /\ scheduled'[r].mode = scheduled[r].mode
           /\ scheduled'[r].retired = scheduled[r].retired
           /\ scheduled'[r].diners = IF r \in FollowingRecipes(e) THEN v ELSE scheduled[r].diners
    BY <1>5 DEF IInv, Types, TypeOK, RecipeRow
  <2>7. \A y \in Event : EventHolds(y)'
    <3>1. ASSUME NEW y \in Event, y = e
          PROVE  EventHolds(y)'
      <4>1. StampOf(c) # Creation[y] /\ \A w \in AppliedTo(y, EventKinds)' : StampOf(w)' = StampOf(c) => w = c
        BY <1>1, <1>2, <1>5, OwnStamp, KindSets DEF Applied
      <4>2. QED
        BY <2>2, <2>3, <2>5, <3>1, <4>1 DEF EventHolds
    <3>2. ASSUME NEW y \in Event, y # e
          PROVE  EventHolds(y)'
      BY <2>2, <2>3, <2>5, <3>2, EventKept DEF WriterInv, FieldsHold
    <3>3. QED
      BY <3>1, <3>2
  <2>8. \A r \in Recipe : DinersHold(r)' /\ RetirementHolds(r)'
    BY <1>2, <2>2, <2>4, <2>6, DinersKept, RetirementKept DEF WriterInv, FieldsHold, FollowingRecipes
  <2>9. FollowersAgree'
    <3>1. ASSUME NEW r \in Recipe, scheduled'[r].mode = "follows_event", clock'[<<r, "lifecycle">>] = NoClock
          PROVE  scheduled'[r].diners = attendance'[EventOf[r]]
      <4>1. /\ scheduled[r].retired = FALSE
            /\ scheduled[r].diners = attendance[EventOf[r]]
            /\ scheduled[r].mode = "follows_event"
        BY <2>4, <2>6, <3>1 DEF WriterInv, FieldsHold, RetirementHolds, FollowersAgree
      <4>2. r \in FollowingRecipes(e) <=> EventOf[r] = e
        BY <4>1 DEF FollowingRecipes
      <4>3. QED
        BY <2>5, <2>6, <4>1, <4>2, EventOfAssumption
    <3>2. QED
      BY <3>1 DEF FollowersAgree, NoClock
  <2>10. QED
    BY <2>1, <2>7, <2>8, <2>9 DEF WriterInv, FieldsHold
<1>6. CASE /\ ~Wins(c, f) /\ UNCHANGED rows
           /\ Conclude(c, "partially_superseded", [x \in {e} |-> EventRecord(e)])
  BY <1>1, <1>2, <1>3, <1>6, SupersededStep DEF Applied
<1>7. QED
  BY <1>4, <1>5, <1>6 DEF UpdateBaseAttendance

LEMMA RecipeAttendanceWrites ==
    ASSUME IInv, WriterInv, NEW c \in Command, SetRecipeAttendance(c)
    PROVE  WriterInv'
<1> DEFINE r == request[c].target
           e == EventOf[r]
           f == <<r, "attendance">>
           row == IF request[c].kind = "follow_event"
                  THEN [scheduled[r] EXCEPT !.mode = "follows_event", !.diners = attendance[e]]
                  ELSE [scheduled[r] EXCEPT !.mode = "manual", !.diners = request[c].value]
<1>1. request[c].kind \in {"set_manual", "follow_event"} /\ retained[c] = "none"
  BY DEF SetRecipeAttendance, Fresh
<1>2. request[c].kind \in AllKinds /\ request[c].kind \in DinerKinds
      /\ request[c].kind \notin EventKinds \cup RetireKinds \cup {"archive", "reactivate"}
  BY <1>1 DEF AllKinds, EventKinds, DinerKinds, RetireKinds
<1>3. r \in Recipe /\ r \in Entity /\ r \notin Event /\ f \in Field
  BY <1>1, <1>2, Requested, DistinctAssumption DEF IInv, Types, Entity, Field
<1>4. /\ row.mode = IF request[c].kind = "follow_event" THEN "follows_event" ELSE "manual"
      /\ row.diners = IF request[c].kind = "follow_event" THEN attendance[e] ELSE request[c].value
      /\ row.retired = scheduled[r].retired
  BY <1>3 DEF IInv, Types, TypeOK, RecipeRow
<1> HIDE DEF row
<1>5. CASE Reject(c)
  BY <1>1, <1>5, QuietStep DEF Reject, IInv, Types, TypeOK, Applied
<1>6. CASE /\ Wins(c, f)
           /\ scheduled' = [scheduled EXCEPT ![r] = row]
           /\ clock' = [clock EXCEPT ![f] = StampOf(c)]
           /\ UNCHANGED <<lifecycle, attendance>>
           /\ Conclude(c, "accepted", [x \in {r} |-> row])
  <2>1. ClocksAreLatest'
    BY <1>1, <1>2, <1>3, <1>6, ClocksStep DEF WriterInv, Applied
  <2>2. /\ request' = request
        /\ \A x, kinds : \A w \in AppliedTo(x, kinds)' :
                 \/ Old(w, x, kinds)
                 \/ w = c /\ request[c].target = x /\ request[c].kind \in kinds
    BY <1>1, <1>6, OtherWriters DEF Applied
  <2>3. \A y \in Event : clock'[<<y, "attendance">>] = clock[<<y, "attendance">>]
    BY <1>3, <1>6 DEF IInv, Types, TypeOK, Field, Entity
  <2>4. \A q \in Recipe : /\ clock'[<<q, "attendance">>] =
                                 IF q = r THEN StampOf(c) ELSE clock[<<q, "attendance">>]
                          /\ clock'[<<q, "lifecycle">>] = clock[<<q, "lifecycle">>]
    BY <1>3, <1>6 DEF IInv, Types, TypeOK, Field, Entity
  <2>5. \A q \in Recipe : scheduled'[q] = IF q = r THEN row ELSE scheduled[q]
    BY <1>3, <1>6 DEF IInv, Types, TypeOK
  <2>6. \A y \in Event : EventHolds(y)'
    BY <1>2, <1>6, <2>2, <2>3, EventKept DEF WriterInv, FieldsHold
  <2>7. \A q \in Recipe : DinersHold(q)'
    <3>1. ASSUME NEW q \in Recipe, q = r
          PROVE  DinersHold(q)'
      <4>1. StampOf(c) # NoClock /\ \A w \in AppliedTo(q, DinerKinds)' : StampOf(w)' = StampOf(c) => w = c
        BY <1>1, <1>2, <1>6, OwnStamp, KindSets DEF Applied
      <4>2. QED
        BY <1>4, <2>2, <2>4, <2>5, <3>1, <4>1 DEF DinersHold
    <3>2. ASSUME NEW q \in Recipe, q # r
          PROVE  DinersHold(q)'
      BY <2>2, <2>4, <2>5, <3>2, DinersKept DEF WriterInv, FieldsHold
    <3>3. QED
      BY <3>1, <3>2
  <2>8. \A q \in Recipe : RetirementHolds(q)'
    BY <1>2, <1>4, <2>2, <2>4, <2>5, RetirementKept DEF WriterInv, FieldsHold
  <2>9. FollowersAgree'
    BY <1>3, <1>4, <1>6, <2>4, <2>5 DEF WriterInv, FollowersAgree
  <2>10. QED
    BY <2>1, <2>6, <2>7, <2>8, <2>9 DEF WriterInv, FieldsHold
<1>7. CASE /\ ~Wins(c, f) /\ UNCHANGED rows
           /\ Conclude(c, "partially_superseded", [x \in {r} |-> scheduled[r]])
  BY <1>1, <1>2, <1>3, <1>7, SupersededStep DEF Applied
<1>8. QED
  BY <1>5, <1>6, <1>7 DEF SetRecipeAttendance, row

LEMMA RecipeLifecycleWrites ==
    ASSUME IInv, WriterInv, NEW c \in Command, SetRecipeLifecycle(c)
    PROVE  WriterInv'
<1> DEFINE r == request[c].target
           f == <<r, "lifecycle">>
           row == [scheduled[r] EXCEPT !.retired = (request[c].kind = "retire")]
<1>1. request[c].kind \in {"retire", "restore"} /\ retained[c] = "none"
  BY DEF SetRecipeLifecycle, Fresh
<1>2. request[c].kind \in AllKinds /\ request[c].kind \in RetireKinds
      /\ request[c].kind \notin EventKinds \cup DinerKinds \cup {"archive", "reactivate"}
  BY <1>1 DEF AllKinds, EventKinds, DinerKinds, RetireKinds
<1>3. r \in Recipe /\ r \in Entity /\ r \notin Event /\ f \in Field
  BY <1>1, <1>2, Requested, DistinctAssumption DEF IInv, Types, Entity, Field
<1>4. /\ row.mode = scheduled[r].mode
      /\ row.diners = scheduled[r].diners
      /\ request[c].kind = "retire" => row.retired = TRUE
      /\ request[c].kind # "retire" => row.retired = FALSE
  BY <1>3 DEF IInv, Types, TypeOK, RecipeRow
<1> HIDE DEF row
<1>5. CASE Reject(c)
  BY <1>1, <1>5, QuietStep DEF Reject, IInv, Types, TypeOK, Applied
<1>6. CASE /\ Wins(c, f)
           /\ scheduled' = [scheduled EXCEPT ![r] = row]
           /\ clock' = [clock EXCEPT ![f] = StampOf(c)]
           /\ UNCHANGED <<lifecycle, attendance>>
           /\ Conclude(c, "accepted", [x \in {r} |-> row])
  <2>1. ClocksAreLatest'
    BY <1>1, <1>2, <1>3, <1>6, ClocksStep DEF WriterInv, Applied
  <2>2. /\ request' = request
        /\ \A x, kinds : \A w \in AppliedTo(x, kinds)' :
                 \/ Old(w, x, kinds)
                 \/ w = c /\ request[c].target = x /\ request[c].kind \in kinds
    BY <1>1, <1>6, OtherWriters DEF Applied
  <2>3. \A y \in Event : clock'[<<y, "attendance">>] = clock[<<y, "attendance">>]
    BY <1>3, <1>6 DEF IInv, Types, TypeOK, Field, Entity
  <2>4. \A q \in Recipe : /\ clock'[<<q, "lifecycle">>] =
                                 IF q = r THEN StampOf(c) ELSE clock[<<q, "lifecycle">>]
                          /\ clock'[<<q, "attendance">>] = clock[<<q, "attendance">>]
    BY <1>3, <1>6 DEF IInv, Types, TypeOK, Field, Entity
  <2>5. \A q \in Recipe : scheduled'[q] = IF q = r THEN row ELSE scheduled[q]
    BY <1>3, <1>6 DEF IInv, Types, TypeOK
  <2>6. \A y \in Event : EventHolds(y)'
    BY <1>2, <1>6, <2>2, <2>3, EventKept DEF WriterInv, FieldsHold
  <2>7. \A q \in Recipe : RetirementHolds(q)'
    <3>1. ASSUME NEW q \in Recipe, q = r
          PROVE  RetirementHolds(q)'
      <4>1. StampOf(c) # NoClock /\ \A w \in AppliedTo(q, RetireKinds)' : StampOf(w)' = StampOf(c) => w = c
        BY <1>1, <1>2, <1>6, OwnStamp, KindSets DEF Applied
      <4>2. QED
        BY <1>4, <2>2, <2>4, <2>5, <3>1, <4>1 DEF RetirementHolds
    <3>2. ASSUME NEW q \in Recipe, q # r
          PROVE  RetirementHolds(q)'
      BY <2>2, <2>4, <2>5, <3>2, RetirementKept DEF WriterInv, FieldsHold
    <3>3. QED
      BY <3>1, <3>2
  <2>8. \A q \in Recipe : DinersHold(q)'
    BY <1>2, <1>4, <2>2, <2>4, <2>5, DinersKept DEF WriterInv, FieldsHold
  <2>9. FollowersAgree'
    <3>1. StampOf(c) # NoClock
      BY <1>1, <1>2, <1>6, OwnStamp DEF Applied
    <3>2. QED
      BY <1>3, <1>4, <1>6, <2>4, <2>5, <3>1 DEF WriterInv, FollowersAgree, NoClock
  <2>10. QED
    BY <2>1, <2>6, <2>7, <2>8, <2>9 DEF WriterInv, FieldsHold
<1>7. CASE /\ ~Wins(c, f) /\ UNCHANGED rows
           /\ Conclude(c, "partially_superseded", [x \in {r} |-> scheduled[r]])
  BY <1>1, <1>2, <1>3, <1>7, SupersededStep DEF Applied
<1>8. QED
  BY <1>5, <1>6, <1>7 DEF SetRecipeLifecycle, row

LEMMA EventLifecycleWrites ==
    ASSUME IInv, WriterInv, NEW c \in Command, SetEventLifecycle(c)
    PROVE  WriterInv'
<1> DEFINE e == request[c].target
           after == Resulting(request[c].kind)
<1>1. request[c].kind \in {"archive", "reactivate"} /\ retained[c] = "none"
  BY DEF SetEventLifecycle, Fresh
<1>2. request[c].kind \in AllKinds
      /\ request[c].kind \notin EventKinds \cup DinerKinds \cup RetireKinds
  BY <1>1 DEF AllKinds, EventKinds, DinerKinds, RetireKinds
<1>3. e \in Event /\ e \in Entity /\ e \notin Recipe
  BY <1>1, <1>2, Requested, DistinctAssumption DEF IInv, Types, Entity
<1>4. /\ clock' = [clock EXCEPT ![<<e, "lifecycle">>] = StampOf(c)]
      /\ UNCHANGED <<attendance, scheduled>>
      /\ Conclude(c, "accepted", [x \in {e} |-> [EventRecord(e) EXCEPT !.lifecycle = after]])
  BY DEF SetEventLifecycle
<1>5. ClocksAreLatest'
  BY <1>1, <1>2, <1>3, <1>4, ClocksStep DEF WriterInv, Applied
<1>6. \A x, kinds : \A w \in AppliedTo(x, kinds)' :
         \/ Old(w, x, kinds)
         \/ w = c /\ request[c].target = x /\ request[c].kind \in kinds
  BY <1>1, <1>4, OtherWriters DEF Applied
<1>7. /\ \A y \in Event : clock'[<<y, "attendance">>] = clock[<<y, "attendance">>]
      /\ \A q \in Recipe : /\ clock'[<<q, "lifecycle">>] = clock[<<q, "lifecycle">>]
                           /\ clock'[<<q, "attendance">>] = clock[<<q, "attendance">>]
  BY <1>3, <1>4 DEF IInv, Types, TypeOK, Field, Entity
<1>8. \A y \in Event : EventHolds(y)'
  BY <1>2, <1>4, <1>6, <1>7, EventKept DEF WriterInv, FieldsHold
<1>9. \A q \in Recipe : DinersHold(q)' /\ RetirementHolds(q)'
  BY <1>2, <1>4, <1>6, <1>7, DinersKept, RetirementKept DEF WriterInv, FieldsHold
<1>10. FollowersAgree'
  BY <1>4, <1>7 DEF WriterInv, FollowersAgree
<1>11. QED
  BY <1>5, <1>8, <1>9, <1>10 DEF WriterInv, FieldsHold

LEMMA WriterInvariant == ServerSpec => []WriterInv
<1>1. ServerInit => WriterInv
  <2> SUFFICES ASSUME ServerInit PROVE WriterInv
    OBVIOUS
  <2> USE DEF ServerInit
  <2>1. \A x, kinds : AppliedTo(x, kinds) = {}
    BY DEF AppliedTo, Applied
  <2>2. ClocksAreLatest
    BY <2>1 DEF ClocksAreLatest, WrittenBy, Field, Entity
  <2>3. FieldsHold
    BY <2>1 DEF FieldsHold, EventHolds, DinersHold, RetirementHolds
  <2>4. FollowersAgree
    BY EventOfAssumption DEF FollowersAgree
  <2>5. QED
    BY <2>2, <2>3, <2>4 DEF WriterInv
<1>2. IInv /\ WriterInv /\ [ServerNext]_serverVars => WriterInv'
  <2> SUFFICES ASSUME IInv, WriterInv, [ServerNext]_serverVars PROVE WriterInv'
    OBVIOUS
  <2>1. ASSUME NEW c \in Command, NEW req \in Request, Issue(c, req)
        PROVE  WriterInv'
    BY <2>1, QuietStep DEF Issue, IInv, Types, TypeOK, Decided, Applied
  <2>2. CASE Tick
    BY <2>2, QuietStep DEF Tick
  <2>3. ASSUME NEW c \in Command, Deliver(c)
        PROVE  WriterInv'
    <3>1. CASE Replay(c) \/ RefuseEventLifecycle(c) \/ LoseLifecycleRejection(c)
      BY <3>1, QuietStep DEF Replay, RefuseEventLifecycle, LoseLifecycleRejection
    <3>2. CASE RetainLifecycleRejection(c)
      BY <3>2, QuietStep DEF RetainLifecycleRejection, IInv, Types, TypeOK, Applied
    <3>3. QED
      BY <2>3, <3>1, <3>2, UpdateWrites, RecipeAttendanceWrites, RecipeLifecycleWrites,
         EventLifecycleWrites DEF Deliver
  <2>4. CASE UNCHANGED serverVars
    BY <2>4, QuietStep DEF serverVars
  <2>5. QED
    BY <2>1, <2>2, <2>3, <2>4 DEF ServerNext
<1>3. QED
  BY <1>1, <1>2, Induction, PTL DEF ServerSpec

-----------------------------------------------------------------------------
(* The feed carries the rows. *)

(* The groups that mention x, and the last of them, which has its row. *)
Mentions(x) == {i \in 1..Len(feed) : x \in DOMAIN feed[i].records}

Carried(x) ==
    \/ Mentions(x) = {} /\ Row(x) = InitialRow(x)
    \/ \E i \in Mentions(x) : /\ \A j \in Mentions(x) : j <= i
                              /\ feed[i].records[x] = Row(x)

CarriedInv == \A x \in Entity : Carried(x)

LEMMA CarriedRows ==
    ASSUME CarriedInv
    PROVE  FeedCarriesRows
<1>1. ASSUME NEW x \in Entity
      PROVE  RowFromFeed(x, Len(feed)) = Row(x)
  <2>1. Carried(x)
    BY DEF CarriedInv
  <2>2. CASE Mentions(x) = {} /\ Row(x) = InitialRow(x)
    BY <2>2 DEF RowFromFeed, Mentions
  <2>3. ASSUME NEW i \in Mentions(x), \A j \in Mentions(x) : j <= i, feed[i].records[x] = Row(x)
        PROVE  RowFromFeed(x, Len(feed)) = Row(x)
    <3>1. Mentions(x) # {} /\ \A j \in Mentions(x) : j \in Int
      BY <2>3 DEF Mentions
    <3>2. (CHOOSE k \in Mentions(x) : \A j \in Mentions(x) : j <= k) = i
      BY <2>3, <3>1
    <3>3. QED
      BY <2>3, <3>1, <3>2 DEF RowFromFeed, Mentions
  <2>4. QED
    BY <2>1, <2>2, <2>3 DEF Carried
<1>2. QED
  BY <1>1 DEF FeedCarriesRows

LEMMA RowKept ==
    ASSUME UNCHANGED rows, UNCHANGED feed, CarriedInv
    PROVE  CarriedInv'
  BY DEF CarriedInv, Carried, Mentions, Row, EventRecord, rows

(* A group with the new rows of what a command changed. *)
LEMMA GroupCarries ==
    ASSUME IInv, CarriedInv, NEW c \in Command, NEW outcome \in Applied, NEW records,
           Conclude(c, outcome, records),
           \A x \in Entity : IF x \in DOMAIN records THEN Row(x)' = records[x] ELSE Row(x)' = Row(x)
    PROVE  CarriedInv'
<1> DEFINE n == Len(feed)
           group == [mutation |-> c, records |-> records]
<1>1. /\ n \in Nat /\ Len(feed') = n + 1
      /\ feed'[n + 1].records = records
      /\ \A i \in 1..n : feed'[i] = feed[i]
  <2>1. feed \in Seq(Group \cup {group}) /\ feed' = Append(feed, group)
    BY DEF IInv, Types, Conclude
  <2>2. QED
    BY <2>1
<1>2. ASSUME NEW x \in Entity
      PROVE  Carried(x)'
  <2>1. CASE x \in DOMAIN records
    <3>1. n + 1 \in Mentions(x)'
      BY <1>1, <2>1 DEF Mentions
    <3>2. \A j \in Mentions(x)' : j <= n + 1
      BY <1>1 DEF Mentions
    <3>3. feed'[n + 1].records[x] = Row(x)'
      BY <1>1, <2>1
    <3>4. QED
      BY <3>1, <3>2, <3>3 DEF Carried
  <2>2. CASE x \notin DOMAIN records
    <3>1. Mentions(x)' = Mentions(x)
      BY <1>1, <2>2 DEF Mentions
    <3>2. \A i \in Mentions(x) : feed'[i] = feed[i]
      BY <1>1 DEF Mentions
    <3>3. Row(x)' = Row(x) /\ InitialRow(x)' = InitialRow(x)
      BY <2>2 DEF InitialRow
    <3>4. QED
      BY <3>1, <3>2, <3>3 DEF Carried, CarriedInv
  <2>3. QED
    BY <2>1, <2>2
<1>3. QED
  BY <1>2 DEF CarriedInv

LEMMA CarriedStep ==
    ASSUME IInv, CarriedInv, NEW c \in Command, Deliver(c)
    PROVE  CarriedInv'
<1> DEFINE x == request[c].target
<1> USE DEF CarriedInv
<1>1. CASE Replay(c) \/ RefuseEventLifecycle(c) \/ RetainLifecycleRejection(c)
           \/ LoseLifecycleRejection(c) \/ Reject(c)
  BY <1>1, RowKept DEF Replay, RefuseEventLifecycle, RetainLifecycleRejection,
     LoseLifecycleRejection, Reject
<1>2. CASE UpdateBaseAttendance(c)
  <2> DEFINE v == request[c].value
  <2>1. request[c].kind \in AllKinds /\ request[c].kind = "update_base_attendance"
    BY <1>2 DEF UpdateBaseAttendance, Fresh, AllKinds
  <2>2. x \in Event
    BY <2>1, Requested DEF IInv, Types
  <2>3. CASE /\ attendance' = [attendance EXCEPT ![x] = v]
             /\ scheduled' = [r \in Recipe |->
                                IF r \in FollowingRecipes(x)
                                THEN [scheduled[r] EXCEPT !.diners = v] ELSE scheduled[r]]
             /\ UNCHANGED lifecycle
             /\ Conclude(c, "accepted", AttendanceRecords(x, v))
    <3>1. DOMAIN AttendanceRecords(x, v) = {x} \cup FollowingRecipes(x)
      BY DEF AttendanceRecords
    <3>2. AttendanceRecords(x, v)[x] = [EventRecord(x) EXCEPT !.attendance = v]
      BY DEF AttendanceRecords
    <3>3. \A r \in FollowingRecipes(x) : r \in Recipe /\ r # x
             /\ AttendanceRecords(x, v)[r] = [scheduled[r] EXCEPT !.diners = v]
      BY <2>2, DistinctAssumption DEF AttendanceRecords, FollowingRecipes
    <3>4. ASSUME NEW e \in Event
          PROVE  Row(e)' = IF e = x THEN [EventRecord(x) EXCEPT !.attendance = v] ELSE Row(e)
      BY <2>2, <2>3 DEF Row, EventRecord, IInv, Types, TypeOK
    <3>5. ASSUME NEW r \in Recipe
          PROVE  Row(r)' = IF r \in FollowingRecipes(x) THEN [scheduled[r] EXCEPT !.diners = v] ELSE Row(r)
      BY <2>3, DistinctAssumption DEF Row
    <3>6. \A y \in Entity : IF y \in DOMAIN AttendanceRecords(x, v)
                           THEN Row(y)' = AttendanceRecords(x, v)[y] ELSE Row(y)' = Row(y)
      BY <2>2, <3>1, <3>2, <3>3, <3>4, <3>5, DistinctAssumption DEF Entity
    <3>7. QED
      BY <2>3, <3>6, GroupCarries DEF Applied
  <2>4. CASE UNCHANGED rows /\ Conclude(c, "partially_superseded", [y \in {x} |-> EventRecord(x)])
    <3>1. \A y \in Entity : IF y \in DOMAIN [z \in {x} |-> EventRecord(x)]
                           THEN Row(y)' = [z \in {x} |-> EventRecord(x)][y] ELSE Row(y)' = Row(y)
      BY <2>2, <2>4 DEF Row, EventRecord, rows
    <3>2. QED
      BY <2>4, <3>1, GroupCarries DEF Applied
  <2>5. QED
    BY <1>1, <1>2, <2>3, <2>4 DEF UpdateBaseAttendance
<1>3. ASSUME x \in Recipe, NEW row,
             \/ /\ scheduled' = [scheduled EXCEPT ![x] = row]
                /\ UNCHANGED <<lifecycle, attendance>>
                /\ Conclude(c, "accepted", [y \in {x} |-> row])
             \/ /\ UNCHANGED rows
                /\ Conclude(c, "partially_superseded", [y \in {x} |-> scheduled[x]])
      PROVE  CarriedInv'
  <2>1. CASE /\ scheduled' = [scheduled EXCEPT ![x] = row]
             /\ UNCHANGED <<lifecycle, attendance>>
             /\ Conclude(c, "accepted", [y \in {x} |-> row])
    <3>1. \A y \in Entity : IF y \in DOMAIN [z \in {x} |-> row]
                           THEN Row(y)' = [z \in {x} |-> row][y] ELSE Row(y)' = Row(y)
      BY <1>3, <2>1, DistinctAssumption DEF Row, EventRecord, IInv, Types, TypeOK, Entity
    <3>2. QED
      BY <2>1, <3>1, GroupCarries DEF Applied
  <2>2. CASE /\ UNCHANGED rows
             /\ Conclude(c, "partially_superseded", [y \in {x} |-> scheduled[x]])
    <3>1. \A y \in Entity : IF y \in DOMAIN [z \in {x} |-> scheduled[x]]
                           THEN Row(y)' = [z \in {x} |-> scheduled[x]][y] ELSE Row(y)' = Row(y)
      BY <1>3, <2>2, DistinctAssumption DEF Row, EventRecord, rows
    <3>2. QED
      BY <2>2, <3>1, GroupCarries DEF Applied
  <2>3. QED
    BY <1>3, <2>1, <2>2
<1>4. CASE SetRecipeAttendance(c)
  <2>1. x \in Recipe
    BY <1>4, Requested DEF SetRecipeAttendance, Fresh, AllKinds, IInv, Types
  <2>2. QED
    BY <1>1, <1>3, <1>4, <2>1 DEF SetRecipeAttendance
<1>5. CASE SetRecipeLifecycle(c)
  <2>1. x \in Recipe
    BY <1>5, Requested DEF SetRecipeLifecycle, Fresh, AllKinds, IInv, Types
  <2>2. QED
    BY <1>1, <1>3, <1>5, <2>1 DEF SetRecipeLifecycle
<1>6. CASE SetEventLifecycle(c)
  <2> DEFINE after == Resulting(request[c].kind)
             record == [EventRecord(x) EXCEPT !.lifecycle = after]
  <2>1. x \in Event
    BY <1>6, Requested DEF SetEventLifecycle, Fresh, AllKinds, IInv, Types
  <2>2. Conclude(c, "accepted", [y \in {x} |-> record])
    BY <1>6 DEF SetEventLifecycle
  <2>3. ASSUME NEW e \in Event
        PROVE  Row(e)' = IF e = x THEN record ELSE Row(e)
    BY <1>6, <2>1 DEF SetEventLifecycle, Row, EventRecord, IInv, Types, TypeOK
  <2>4. \A r \in Recipe : Row(r)' = Row(r) /\ r # x
    BY <1>6, <2>1, DistinctAssumption DEF SetEventLifecycle, Row
  <2>5. \A y \in Entity : IF y \in DOMAIN [z \in {x} |-> record]
                         THEN Row(y)' = [z \in {x} |-> record][y] ELSE Row(y)' = Row(y)
    <3> HIDE DEF record
    <3> QED
      BY <2>3, <2>4 DEF Entity
  <2>6. QED
    BY <2>2, <2>5, GroupCarries DEF Applied
<1>7. QED
  BY <1>1, <1>2, <1>4, <1>5, <1>6 DEF Deliver

LEMMA CarriedInvariant == ServerSpec => []CarriedInv
<1>1. ServerInit => CarriedInv
  BY DEF ServerInit, CarriedInv, Carried, Mentions, Row, InitialRow, EventRecord, Entity
<1>2. IInv /\ CarriedInv /\ [ServerNext]_serverVars => CarriedInv'
  <2> SUFFICES ASSUME IInv, CarriedInv, [ServerNext]_serverVars PROVE CarriedInv'
    OBVIOUS
  <2>1. CASE Tick \/ \E c \in Command, req \in Request : Issue(c, req)
    BY <2>1, RowKept DEF Tick, Issue
  <2>2. ASSUME NEW c \in Command, Deliver(c)
        PROVE  CarriedInv'
    BY <2>2, CarriedStep
  <2>3. CASE UNCHANGED serverVars
    BY <2>3, RowKept DEF serverVars
  <2>4. QED
    BY <2>1, <2>2, <2>3 DEF ServerNext
<1>3. QED
  BY <1>1, <1>2, Induction, PTL DEF ServerSpec

-----------------------------------------------------------------------------
(* Every variable keeps its type: no command leaves a row without a value.   *)
THEOREM TypeCorrect == ServerSpec => []TypeOK
<1>1. IInv => TypeOK
  BY DEF IInv, Types
<1>2. QED
  BY <1>1, Induction, PTL

(* A command publishes one group if it was applied and none otherwise,       *)
(* however often and in whatever order the commands are delivered.           *)
THEOREM PublishedOnce == ServerSpec => []AppliedOnce
<1>1. IInv => AppliedOnce
  <2> SUFFICES ASSUME IInv, NEW c \in Command
               PROVE  Cardinality({i \in DOMAIN feed : feed[i].mutation = c})
                        = IF retained[c] \in Applied THEN 1 ELSE 0
    BY DEF AppliedOnce
  <2> DEFINE own == {i \in DOMAIN feed : feed[i].mutation = c}
  <2>1. CASE retained[c] \in Applied
    <3>1. PICK i \in DOMAIN feed : feed[i].mutation = c
      BY <2>1 DEF IInv, Published
    <3>2. own = {i}
      BY <3>1 DEF IInv, Published
    <3>3. QED
      BY <2>1, <3>2, FS_Singleton
  <2>2. CASE retained[c] \notin Applied
    <3>1. own = {}
      BY <2>2 DEF IInv, Published
    <3>2. QED
      BY <2>2, <3>1, FS_EmptySet
  <2>3. QED
    BY <2>1, <2>2
<1>2. QED
  BY <1>1, Induction, PTL

(* A client that was told an outcome can rely on it, retried or not.         *)
THEOREM AnswersKept == ServerSpec => []AnswersAreKept
<1>1. IInv => AnswersAreKept
  BY DEF IInv
<1>2. QED
  BY <1>1, Induction, PTL

LEMMA OutcomeKept ==
    ASSUME IInv, [ServerNext]_serverVars, NEW d \in Command, retained[d] # "none"
    PROVE  retained'[d] = retained[d]
<1> USE DEF IInv, Types, TypeOK
<1>1. CASE Tick \/ \E c \in Command, req \in Request : Issue(c, req)
  BY <1>1 DEF Tick, Issue
<1>2. ASSUME NEW c \in Command, Deliver(c)
      PROVE  retained'[d] = retained[d]
  <2>1. CASE Replay(c) \/ RefuseEventLifecycle(c) \/ LoseLifecycleRejection(c)
    BY <2>1 DEF Replay, RefuseEventLifecycle, LoseLifecycleRejection
  <2>2. CASE RetainLifecycleRejection(c)
    BY <2>2 DEF RetainLifecycleRejection
  <2>3. CASE UpdateBaseAttendance(c)
    BY <2>3 DEF UpdateBaseAttendance, Fresh, Reject, Conclude
  <2>4. CASE SetRecipeAttendance(c)
    BY <2>4 DEF SetRecipeAttendance, Fresh, Reject, Conclude
  <2>5. CASE SetRecipeLifecycle(c)
    BY <2>5 DEF SetRecipeLifecycle, Fresh, Reject, Conclude
  <2>6. CASE SetEventLifecycle(c)
    BY <2>6 DEF SetEventLifecycle, Fresh, Conclude
  <2>7. QED
    BY <1>2, <2>1, <2>2, <2>3, <2>4, <2>5, <2>6 DEF Deliver
<1>3. QED
  BY <1>1, <1>2 DEF ServerNext, serverVars

(* The outcome retained for an identity is never replaced: a service decides *)
(* only without one, and the second transaction of a rejection looks again.  *)
THEOREM OutcomesFinal == ServerSpec => OutcomeIsFinal
<1>1. IInv /\ [ServerNext]_serverVars =>
        [\A c \in Command : retained[c] # "none" => retained'[c] = retained[c]]_serverVars
  BY OutcomeKept
<1>2. QED
  BY <1>1, Induction, PTL DEF ServerSpec, OutcomeIsFinal

(* No command changes the attendance of an archived event or the diners,     *)
(* mode or retirement of its recipes, however late it arrives.               *)
THEOREM ArchivesFrozen == ServerSpec => ArchivedIsFrozen
<1> DEFINE Frozen == \A e \in Event : lifecycle[e] = "archived" =>
                        /\ attendance'[e] = attendance[e]
                        /\ \A r \in Recipe : EventOf[r] = e => scheduled'[r] = scheduled[r]
<1>1. IInv /\ [ServerNext]_serverVars => [Frozen]_serverVars
  <2> SUFFICES ASSUME IInv, ServerNext, NEW e \in Event, lifecycle[e] = "archived"
               PROVE  /\ attendance'[e] = attendance[e]
                      /\ \A r \in Recipe : EventOf[r] = e => scheduled'[r] = scheduled[r]
    BY DEF serverVars
  <2> DEFINE Goal == /\ attendance'[e] = attendance[e]
                     /\ \A r \in Recipe : EventOf[r] = e => scheduled'[r] = scheduled[r]
  <2> USE DEF IInv, Types, TypeOK, rows
  <2>1. CASE Tick \/ \E c \in Command, req \in Request : Issue(c, req)
    BY <2>1 DEF Tick, Issue
  <2>2. ASSUME NEW c \in Command, Deliver(c)
        PROVE  Goal
    <3>1. CASE Replay(c) \/ RefuseEventLifecycle(c) \/ RetainLifecycleRejection(c)
               \/ LoseLifecycleRejection(c)
      BY <3>1 DEF Replay, RefuseEventLifecycle, RetainLifecycleRejection, LoseLifecycleRejection
    <3>2. CASE UpdateBaseAttendance(c)
      BY <3>2 DEF UpdateBaseAttendance, Open, FollowingRecipes, Reject
    <3>3. CASE SetRecipeAttendance(c)
      BY <3>3 DEF SetRecipeAttendance, Open, Reject
    <3>4. CASE SetRecipeLifecycle(c)
      BY <3>4 DEF SetRecipeLifecycle, Open, Reject
    <3>5. CASE SetEventLifecycle(c)
      BY <3>5 DEF SetEventLifecycle
    <3>6. QED
      BY <2>2, <3>1, <3>2, <3>3, <3>4, <3>5 DEF Deliver
  <2>3. QED
    BY <2>1, <2>2 DEF ServerNext
<1>2. QED
  BY <1>1, Induction, PTL DEF ServerSpec, ArchivedIsFrozen

(* Each field holds what the latest of the commands applied to it asked for, *)
(* in whatever order they arrived.                                           *)
THEOREM LatestWins == ServerSpec => []LastWriterWins
<1>1. ASSUME IInv, NEW x, NEW kinds \in SUBSET AllKinds, NEW S \in SUBSET AppliedTo(x, kinds),
             NEW w \in S, \A d \in S \ {w} : Later(StampOf(w), StampOf(d))
      PROVE  Latest(S) = w
  <2>1. ASSUME NEW d \in S, \A b \in S \ {d} : Later(StampOf(d), StampOf(b))
        PROVE  d = w
    <3>1. d \in AppliedTo(x, kinds) /\ w \in AppliedTo(x, kinds)
      BY <1>1
    <3>2. /\ d \in Command /\ request[d].kind \in AllKinds
          /\ w \in Command /\ request[w].kind \in AllKinds
      BY <3>1, AppliedKinds
    <3>3. d # w => Later(StampOf(d), StampOf(w)) /\ Later(StampOf(w), StampOf(d))
      BY <1>1, <2>1
    <3>4. QED
      BY <1>1, <3>2, <3>3, StampOrder
  <2>2. QED
    BY <1>1, <2>1 DEF Latest
<1>2. IInv /\ WriterInv => LastWriterWins
  <2> SUFFICES ASSUME IInv, WriterInv PROVE LastWriterWins
    OBVIOUS
  <2>1. ASSUME NEW x, NEW kinds \in SUBSET AllKinds, NEW field, WrittenBy(x, kinds, field)
        PROVE  LET S == {c \in AppliedTo(x, kinds) : Later(StampOf(c), StartOf(x, field))}
               IN  /\ S = {} => clock[<<x, field>>] = StartOf(x, field)
                   /\ S # {} => Latest(S) \in S /\ clock[<<x, field>>] = StampOf(Latest(S))
    <3> DEFINE S == {c \in AppliedTo(x, kinds) : Later(StampOf(c), StartOf(x, field))}
    <3>1. CASE \A d \in AppliedTo(x, kinds) : ~Later(StampOf(d), StartOf(x, field))
      BY <2>1, <3>1 DEF WrittenBy
    <3>2. CASE \E d \in AppliedTo(x, kinds) : Later(StampOf(d), StartOf(x, field))
      <4>1. PICK w \in S : /\ clock[<<x, field>>] = StampOf(w)
                           /\ \A d \in S \ {w} : Later(StampOf(w), StampOf(d))
        BY <2>1, <3>2 DEF WrittenBy
      <4>2. Latest(S) = w
        BY <1>1, <4>1
      <4>3. QED
        BY <4>1, <4>2
    <3>3. QED
      BY <3>1, <3>2
  <2>6. ASSUME NEW r \in Recipe, NEW kinds \in SUBSET AllKinds, NEW field, WrittenBy(r, kinds, field)
        PROVE  LET S == AppliedTo(r, kinds)
               IN  /\ S = {} => clock[<<r, field>>] = NoClock
                   /\ S # {} => Latest(S) \in S /\ clock[<<r, field>>] = StampOf(Latest(S))
    <3>1. StartOf(r, field) = NoClock
      BY DistinctAssumption DEF StartOf
    <3>2. \A c \in AppliedTo(r, kinds) : Later(StampOf(c), NoClock)
      BY AppliedKinds, StampOrder, StartStamp
    <3>3. AppliedTo(r, kinds) = {c \in AppliedTo(r, kinds) : Later(StampOf(c), NoClock)}
      BY <3>2
    <3>4. QED
      BY <2>1, <2>6, <3>1, <3>3
  <2>2. EventAttendanceIsLatest
    <3>1. ASSUME NEW e \in Event
          PROVE  LET S == {c \in AppliedTo(e, EventKinds) : Later(StampOf(c), Creation[e])}
                 IN  attendance[e] = IF S = {} THEN 0 ELSE request[Latest(S)].value
      <4>1. StartOf(e, "attendance") = Creation[e]
        BY DEF StartOf
      <4>2. WrittenBy(e, EventKinds, "attendance") /\ EventHolds(e)
        BY DEF WriterInv, ClocksAreLatest, FieldsHold
      <4> DEFINE S == {c \in AppliedTo(e, EventKinds) : Later(StampOf(c), Creation[e])}
      <4>3. /\ S = {} => clock[<<e, "attendance">>] = Creation[e]
            /\ S # {} => Latest(S) \in S /\ clock[<<e, "attendance">>] = StampOf(Latest(S))
        BY <2>1, <4>1, <4>2, KindSets
      <4>4. CASE S = {}
        BY <4>2, <4>3, <4>4 DEF EventHolds
      <4>5. CASE S # {}
        <5>1. attendance[e] = request[Latest(S)].value
          BY <4>2, <4>3, <4>5 DEF EventHolds
        <5>2. QED
          BY <4>5, <5>1
      <4>6. QED
        BY <4>4, <4>5
    <3>2. QED
      BY <3>1 DEF EventAttendanceIsLatest, EventKinds
  <2>3. RecipeAttendanceIsLatest
    <3>1. ASSUME NEW r \in Recipe
          PROVE  LET S == AppliedTo(r, DinerKinds)
                     w == Latest(S)
                 IN  IF S = {} \/ request[w].kind = "follow_event"
                     THEN scheduled[r].mode = "follows_event"
                     ELSE scheduled[r].mode = "manual" /\ scheduled[r].diners = request[w].value
      BY <2>6, KindSets DEF WriterInv, ClocksAreLatest, FieldsHold, DinersHold
    <3>2. QED
      BY <3>1 DEF RecipeAttendanceIsLatest, DinerKinds
  <2>4. RecipeLifecycleIsLatest
    <3>1. ASSUME NEW r \in Recipe
          PROVE  LET S == AppliedTo(r, RetireKinds)
                 IN  scheduled[r].retired = (S # {} /\ request[Latest(S)].kind = "retire")
      BY <2>6, KindSets DEF WriterInv, ClocksAreLatest, FieldsHold, RetirementHolds
    <3>2. QED
      BY <3>1 DEF RecipeLifecycleIsLatest, RetireKinds
  <2>5. QED
    BY <2>2, <2>3, <2>4 DEF LastWriterWins
<1>3. QED
  BY <1>2, Induction, WriterInvariant, PTL

(* A recipe that follows its event and was never retired serves as many      *)
(* diners as the event expects.                                              *)
THEOREM FollowersFollow == ServerSpec => []FollowersAgree
<1>1. WriterInv => FollowersAgree
  BY DEF WriterInv
<1>2. QED
  BY <1>1, WriterInvariant, PTL

(* Whoever replays the feed from the start holds the server's rows.          *)
THEOREM FeedIsComplete == ServerSpec => []FeedCarriesRows
  BY CarriedInvariant, CarriedRows, PTL

-----------------------------------------------------------------------------
(* Part II: the replica. *)

(* This browser's commands are attendance updates, recorded when queued and  *)
(* sent after that.                                                          *)
OwnEdits ==
    /\ \A c \in Own : request[c] # NoRequest => request[c].kind = "update_base_attendance"
    /\ \A c \in DOMAIN outbox : request[c] # NoRequest
    /\ \A x \in Context : \A j \in DOMAIN context[x].todo : request[context[x].todo[j]] # NoRequest

(* The outbox is finite and totally ordered, and its numbers have a largest. *)
Numbered ==
    /\ IsFiniteSet(DOMAIN outbox)
    /\ \A c, d \in DOMAIN outbox : outbox[c].sequence = outbox[d].sequence => c = d
    /\ \E n \in Nat : \A c \in DOMAIN outbox : outbox[c].sequence <= n

(* Positions of the feed: nothing is stored, answered or claimed beyond it.  *)
Placed ==
    /\ \A y \in Entity : canonical[y] <= Len(feed)
    /\ cursor <= Len(feed)
    /\ \A x \in Context :
          /\ context[x].step = "applying" => context[x].at \in Nat
          /\ context[x].step \in {"applying", "installing"} => context[x].upto <= Len(feed)
          /\ context[x].step = "saving" => context[x].at <= Len(feed)

(* While a context waits for a batch, each of its commands has an outcome or *)
(* the server has yet to run it.                                             *)
Answered ==
    \A x \in Context : context[x].step = "waiting" =>
       \A i \in DOMAIN Batch(context[x].todo) :
          \/ retained[Batch(context[x].todo)[i]] # "none"
          \/ \E j \in DOMAIN flight[x] : flight[x][j] = Batch(context[x].todo)[i]

(* A command is sent after whatever was pending before it when the context   *)
(* read the outbox, unless another context settled that meanwhile, or that   *)
(* is too large and about to be rejected.                                    *)
EarlierFirst ==
    \A x \in Context : \A j \in DOMAIN context[x].todo : \A d \in Pending(outbox) :
       LET c == context[x].todo[j]
       IN  c \in DOMAIN outbox /\ outbox[d].sequence < outbox[c].sequence =>
              \/ \E i \in 1..(j - 1) : context[x].todo[i] = d
              \/ context[x].step = "sizing" /\ d \in context[x].large

(* An event with pending commands shows the newest of them, or one refused.  *)
Mine(e) == {c \in Pending(outbox) : request[c].target = e}
NewestIsShown ==
    \A e \in Event :
       Editable(e, canonical) /\ Mine(e) # {} =>
          \/ overlay[e] = Newest(Mine(e), outbox)
          \/ overlay[e] \in Own /\ Refused(overlay[e])

OutboxInv ==
    /\ SyncTypeOK
    /\ OwnEdits
    /\ Numbered
    /\ Placed
    /\ Answered
    /\ EarlierFirst
    /\ FailedWasRefused
    /\ NewestIsShown

(* What the server has yet to run was recorded, and comes after whatever     *)
(* precedes it in the outbox.                                                *)
Preceded ==
    \A x \in Context : \A k \in DOMAIN flight[x] :
       /\ request[flight[x][k]] # NoRequest
       /\ \A d \in DOMAIN outbox :
             LET c == flight[x][k]
             IN  c \in DOMAIN outbox /\ outbox[d].sequence < outbox[c].sequence =>
                    \/ retained[d] # "none" \/ d \in Oversized
                    \/ \E i \in 1..(k - 1) : flight[x][i] = d

SentInv == Preceded /\ ServedInOrder

(* Every row is stored as of its last change in the first n groups. *)
Covers(n) ==
    \A y \in Entity : \A i \in 1..n :
       y \in DOMAIN feed[i].records => canonical[y] >= i \/ (canonical[y] = Absent /\ y \in Recipe)

(* What a context that holds the cursor knows of it and of the rows. *)
Pulling(w) ==
    /\ w.step \in {"asking", "saving"} => w.at = cursor
    /\ w.step = "applying" => cursor <= w.at /\ w.at <= Len(feed) /\ Covers(w.at)

HoldInv == Covers(cursor) /\ \A x \in Context : Pulling(context[x])

-----------------------------------------------------------------------------
(* The server's side. *)

(* What a step of the server leaves as it was: recorded commands, retained   *)
(* outcomes, and the groups of the feed.                                     *)
FeedGrows ==
    /\ Len(feed) \in Nat /\ Len(feed)' \in Nat /\ Len(feed) <= Len(feed)'
    /\ DOMAIN feed = 1..Len(feed)
    /\ \A i \in 1..Len(feed) : feed'[i] = feed[i]

LEMMA FeedIsAppended ==
    ASSUME IInv, [ServerNext]_serverVars
    PROVE  FeedGrows
<1> USE DEF FeedGrows, IInv, Types
<1>1. CASE feed' = feed
  BY <1>1
<1>2. ASSUME NEW c, NEW records, feed' = Append(feed, [mutation |-> c, records |-> records])
      PROVE  FeedGrows
  BY <1>2
<1>3. ASSUME NEW c \in Command, Deliver(c)
      PROVE  FeedGrows
  BY <1>1, <1>2, <1>3 DEF Deliver, Replay, UpdateBaseAttendance, SetRecipeAttendance,
     SetRecipeLifecycle, SetEventLifecycle, RefuseEventLifecycle, RetainLifecycleRejection,
     LoseLifecycleRejection, Reject, Conclude
<1>4. QED
  BY <1>1, <1>3 DEF ServerNext, Tick, Issue, serverVars

LEMMA RequestKept ==
    ASSUME IInv, [ServerNext]_serverVars, NEW c \in Command, request[c] # NoRequest
    PROVE  request'[c] = request[c]
<1> USE DEF IInv, Types, TypeOK
<1>1. ASSUME NEW d \in Command, Deliver(d)
      PROVE  request' = request
  BY <1>1 DEF Deliver, Replay, UpdateBaseAttendance, SetRecipeAttendance, SetRecipeLifecycle,
     SetEventLifecycle, RefuseEventLifecycle, RetainLifecycleRejection,
     LoseLifecycleRejection, Reject, Conclude
<1>2. QED
  BY <1>1 DEF ServerNext, Tick, Issue, serverVars

(* A delivery of an attendance update ends with an outcome. *)
LEMMA UpdateIsAnswered ==
    ASSUME IInv, NEW c \in Command, request[c].kind = "update_base_attendance", Deliver(c)
    PROVE  retained'[c] # "none"
<1> USE DEF IInv, Types, TypeOK
<1>1. c \notin deciding
  BY DEF Decided
<1>2. CASE Replay(c)
  BY <1>2 DEF Replay
<1>3. CASE UpdateBaseAttendance(c)
  BY <1>3 DEF UpdateBaseAttendance, Reject, Conclude
<1>4. QED
  BY <1>1, <1>2, <1>3 DEF Deliver, SetRecipeAttendance, SetRecipeLifecycle, SetEventLifecycle,
     RefuseEventLifecycle, RetainLifecycleRejection, LoseLifecycleRejection, Fresh

(* Every step of SyncReplica is one of the server's, or leaves it alone. *)
LEMMA ServerStep ==
    ASSUME SyncTypeOK, [SyncNext]_syncVars
    PROVE  [ServerNext]_serverVars
<1>1. CASE Others
  BY <1>1 DEF Others, ServerNext
<1>2. ASSUME NEW c \in Own, NEW req \in Request, Queue(c, req)
      PROVE  [ServerNext]_serverVars
  BY <1>2, OwnAssumption DEF Queue, ServerNext
<1>3. ASSUME NEW x \in Context, Serve(x)
      PROVE  [ServerNext]_serverVars
  <2>1. Head(flight[x]) \in Own
    BY <1>3 DEF Serve, SyncTypeOK
  <2>2. QED
    BY <1>3, <2>1, OwnAssumption DEF Serve, ServerNext
<1>4. CASE UNCHANGED serverVars
  BY <1>4
<1>5. QED
  BY <1>1, <1>2, <1>3, <1>4 DEF SyncNext, Continue, Discard, StartLoop, StartPanel, ReadCursor,
     AnswerPull, AnswerBootstrap, ApplyGroup, WriteCursor, InstallSnapshot, GatherNothing, Gather,
     RejectOversized, ReadMetadata, WriteMetadata, SendBatch, FinishDispatch, ReceiveOutcomes, Fail,
     PushFails, syncVars

-----------------------------------------------------------------------------
(* The order of the outbox. *)

LessThan == {p \in Nat \X Nat : p[1] < p[2]}

LEMMA LessThanIsWellFounded == IsWellFoundedOn(LessThan, Nat)
<1>1. IsWellFoundedOn(OpToRel(<, Nat), Nat)
  BY NatLessThanWellFounded
<1>2. QED
  BY <1>1 DEF OpToRel, LessThan

LEMMA LargestExists ==
    ASSUME NEW n \in Nat, NEW T \in SUBSET (0..n), T # {}
    PROVE  \E m \in T : \A k \in T : k <= m
<1> DEFINE D == {n - k : k \in T}
<1>1. \A k \in T : k \in Nat /\ n - k \in Nat /\ n - k \in D
  OBVIOUS
<1>2. D \subseteq Nat /\ D # {}
  BY <1>1
<1>3. PICK d \in D : \A e \in D : <<e, d>> \notin LessThan
  BY <1>2, LessThanIsWellFounded, WFMin
<1>4. PICK m \in T : d = n - m
  OBVIOUS
<1>5. ASSUME NEW k \in T
      PROVE  k <= m
  <2>1. ~(n - k < n - m)
    BY <1>1, <1>3, <1>4 DEF LessThan
  <2>2. QED
    BY <1>1, <2>1
<1>6. QED
  BY <1>5

LEMMA OutboxTypes ==
    ASSUME SyncTypeOK
    PROVE  /\ DOMAIN outbox \subseteq Own
           /\ \A c \in DOMAIN outbox : outbox[c] \in OutboxRow /\ outbox[c].sequence \in Nat
<1>1. PICK S \in SUBSET Own : outbox \in [S -> OutboxRow]
  BY DEF SyncTypeOK
<1>2. QED
  BY <1>1 DEF OutboxRow

LEMMA NewestOfSome ==
    ASSUME SyncTypeOK, Numbered, NEW S \in SUBSET DOMAIN outbox, S # {}
    PROVE  /\ Newest(S, outbox) \in S
           /\ \A d \in S : outbox[d].sequence <= outbox[Newest(S, outbox)].sequence
<1>1. PICK n \in Nat : \A c \in DOMAIN outbox : outbox[c].sequence <= n
  BY DEF Numbered
<1> DEFINE T == {outbox[c].sequence : c \in S}
<1>2. T \in SUBSET (0..n) /\ T # {}
  BY <1>1, OutboxTypes
<1>3. PICK m \in T : \A k \in T : k <= m
  BY <1>2, LargestExists
<1>4. PICK c \in S : m = outbox[c].sequence
  OBVIOUS
<1>5. \A d \in S : outbox[d].sequence <= outbox[c].sequence
  BY <1>3, <1>4
<1>6. QED
  BY <1>5 DEF Newest

LEMMA NewestIs ==
    ASSUME NEW box, NEW S, NEW c \in S,
           \A d \in S : /\ box[d].sequence \in Nat
                        /\ box[d].sequence <= box[c].sequence
                        /\ box[d].sequence = box[c].sequence => d = c
    PROVE  Newest(S, box) = c
<1>1. \A d \in S : box[d].sequence <= box[c].sequence
  OBVIOUS
<1>2. /\ Newest(S, box) \in S
      /\ box[c].sequence <= box[Newest(S, box)].sequence
  BY <1>1 DEF Newest
<1>3. box[c].sequence = box[Newest(S, box)].sequence
  BY <1>2
<1>4. QED
  BY <1>2, <1>3

LEMMA NextIsLargest ==
    ASSUME SyncTypeOK, Numbered
    PROVE  NextSequence \in Nat \ {0} /\ \A c \in DOMAIN outbox : outbox[c].sequence < NextSequence
<1>1. CASE DOMAIN outbox = {}
  BY <1>1 DEF NextSequence
<1>2. CASE DOMAIN outbox # {}
  BY <1>2, NewestOfSome, OutboxTypes DEF NextSequence
<1>3. QED
  BY <1>1, <1>2

-----------------------------------------------------------------------------
(* Types. *)

Work == [step : Steps, stage : Stages, at : Nat \cup {NoCursor},
         upto : Nat, more : BOOLEAN, todo : Seq(Own), large : SUBSET Oversized]

LEMMA ReplayedType ==
    ASSUME SyncTypeOK, Numbered, NEW records
    PROVE  Replayed(records, outbox) \in [Event -> Own \cup {NoCommand}]
<1>1. ASSUME NEW e \in Event
      PROVE  Replayed(records, outbox)[e] \in Own \cup {NoCommand}
  <2> DEFINE mine == {c \in Pending(outbox) : request[c].target = e}
  <2>1. mine \in SUBSET DOMAIN outbox
    BY DEF Pending
  <2>2. mine # {} => Newest(mine, outbox) \in Own
    <3> HIDE DEF mine
    <3> QED
      BY <2>1, NewestOfSome, OutboxTypes
  <2>3. QED
    BY <2>2 DEF Replayed
<1>2. QED
  BY <1>1 DEF Replayed

LEMMA RestingIsWork == Resting \in Work
  BY DEF Resting, Work, Steps, Stages

LEMMA AfterPullIsWork ==
    ASSUME NEW x \in Context
    PROVE  AfterPull(x) \in Work
  BY RestingIsWork DEF AfterPull, Work, Resting, Steps, Stages

LEMMA BatchTypes ==
    ASSUME NEW todo \in Seq(Own)
    PROVE  /\ Batch(todo) \in Seq(Own) /\ Rest(todo) \in Seq(Own)
           /\ Len(Batch(todo)) \in 0..Len(todo)
           /\ Len(Rest(todo)) = Len(todo) - Len(Batch(todo))
           /\ \A i \in 1..Len(Batch(todo)) : Batch(todo)[i] = todo[i]
           /\ \A i \in 1..Len(Rest(todo)) : Rest(todo)[i] = todo[i + Len(Batch(todo))]
<1>1. BatchLimit \in Nat /\ Len(todo) \in Nat
  BY LimitAssumption
<1>2. /\ Batch(todo) \in Seq(Own) /\ Len(Batch(todo)) \in 0..Len(todo)
      /\ \A i \in 1..Len(Batch(todo)) : Batch(todo)[i] = todo[i]
  BY <1>1 DEF Batch
<1>3. QED
  BY <1>1, <1>2 DEF Rest

LEMMA BatchIsPrefix ==
    ASSUME NEW todo \in Seq(Own)
    PROVE  /\ DOMAIN Batch(todo) = 1..Len(Batch(todo)) /\ Len(Batch(todo)) \in Nat
           /\ \A i \in DOMAIN Batch(todo) : i \in DOMAIN todo /\ Batch(todo)[i] = todo[i]
<1> DEFINE b == Batch(todo)
<1>1. /\ b \in Seq(Own) /\ Len(b) \in 0..Len(todo)
      /\ \A i \in 1..Len(b) : b[i] = todo[i]
  BY BatchTypes
<1> HIDE DEF b
<1>2. DOMAIN b = 1..Len(b) /\ DOMAIN todo = 1..Len(todo) /\ Len(b) \in Nat /\ Len(todo) \in Nat
  BY <1>1
<1>3. \A i \in DOMAIN b : i \in DOMAIN todo /\ b[i] = todo[i]
  BY <1>1, <1>2
<1>4. QED
  BY <1>2, <1>3 DEF b

LEMMA QueueTypes ==
    ASSUME OutboxInv, NEW c \in Own, NEW req \in Request, Queue(c, req)
    PROVE  /\ \E S \in SUBSET Own : outbox' \in [S -> OutboxRow]
           /\ overlay' \in [Event -> Own \cup {NoCommand}]
           /\ c \notin DOMAIN outbox
<1> USE DEF OutboxInv
<1>1. PICK S \in SUBSET Own : outbox \in [S -> OutboxRow]
  BY DEF SyncTypeOK
<1>2. NextSequence \in Nat \ {0}
  BY NextIsLargest
<1>3. outbox' \in [S \cup {c} -> OutboxRow]
  BY <1>1, <1>2 DEF Queue, OutboxRow
<1>4. S \cup {c} \in SUBSET Own
  OBVIOUS
<1>5. overlay' \in [Event -> Own \cup {NoCommand}]
  BY DEF Queue, SyncTypeOK
<1>6. c \notin DOMAIN outbox
  BY DEF Queue, Issue, OwnEdits
<1>7. QED
  BY <1>3, <1>4, <1>5, <1>6

(* What the steps that only rewrite or drop rows of the outbox leave of it. *)
OutboxShrinks ==
    /\ \E S \in SUBSET Own : outbox' \in [S -> OutboxRow]
    /\ DOMAIN outbox' \subseteq DOMAIN outbox
    /\ \A c \in DOMAIN outbox' : /\ outbox'[c].sequence = outbox[c].sequence
                                 /\ outbox'[c].state = "pending" => outbox[c].state = "pending"

LEMMA DiscardShrinks ==
    ASSUME OutboxInv, NEW c \in Own, Discard(c)
    PROVE  OutboxShrinks
<1>1. PICK S \in SUBSET Own : outbox \in [S -> OutboxRow]
  BY DEF OutboxInv, SyncTypeOK
<1>2. outbox' \in [S \ {c} -> OutboxRow] /\ S \ {c} \in SUBSET Own
  BY <1>1 DEF Discard
<1>3. QED
  BY <1>1, <1>2 DEF OutboxShrinks, Discard

LEMMA RejectionShrinks ==
    ASSUME OutboxInv, NEW x \in Context, RejectOversized(x)
    PROVE  OutboxShrinks
<1>1. PICK S \in SUBSET Own : outbox \in [S -> OutboxRow]
  BY DEF OutboxInv, SyncTypeOK
<1>2. outbox' \in [S -> OutboxRow]
  BY <1>1 DEF RejectOversized, OutboxRow
<1>3. \A c \in S : /\ outbox'[c].sequence = outbox[c].sequence
                   /\ outbox'[c].state = "pending" => outbox[c].state = "pending"
  BY <1>1 DEF RejectOversized, OutboxRow
<1>4. QED
  BY <1>1, <1>2, <1>3 DEF OutboxShrinks

LEMMA OutcomesShrink ==
    ASSUME OutboxInv, NEW x \in Context, ReceiveOutcomes(x)
    PROVE  OutboxShrinks
<1>1. PICK S \in SUBSET Own : outbox \in [S -> OutboxRow]
  BY DEF OutboxInv, SyncTypeOK
<1> DEFINE batch == Batch(context[x].todo)
           named == {batch[i] : i \in DOMAIN batch}
           kept == {c \in S : c \in named => retained[c] = "rejected"}
<1>2. outbox' = [c \in kept |-> IF c \in named THEN [outbox[c] EXCEPT !.state = "failed"] ELSE outbox[c]]
  BY <1>1 DEF ReceiveOutcomes, Settled
<1> HIDE DEF named
<1>3. kept \in SUBSET Own /\ outbox' \in [kept -> OutboxRow]
  BY <1>1, <1>2 DEF OutboxRow
<1>4. \A c \in kept : /\ outbox'[c].sequence = outbox[c].sequence
                      /\ outbox'[c].state = "pending" => outbox[c].state = "pending"
  BY <1>1, <1>2 DEF OutboxRow
<1>5. QED
  BY <1>1, <1>3, <1>4 DEF OutboxShrinks

LEMMA GatheredIsOrdered ==
    ASSUME IsFiniteSet(DOMAIN outbox), SyncTypeOK,
           NEW todo \in InOrder(Pending(outbox) \ Oversized, outbox)
    PROVE  /\ todo \in Seq(Own)
           /\ \A c : c \in Pending(outbox) \ Oversized <=> \E i \in DOMAIN todo : todo[i] = c
           /\ \A i, j \in DOMAIN todo : i < j => outbox[todo[i]].sequence < outbox[todo[j]].sequence
<1> DEFINE S == Pending(outbox) \ Oversized
<1>1. S \subseteq Own /\ IsFiniteSet(S)
  BY OutboxTypes, FS_Subset DEF Pending
<1>2. Cardinality(S) \in Nat
  BY <1>1, FS_CardinalityType
<1>3. /\ todo \in [1..Cardinality(S) -> S] /\ S = {todo[i] : i \in DOMAIN todo}
      /\ \A i, j \in DOMAIN todo : i < j => outbox[todo[i]].sequence < outbox[todo[j]].sequence
  BY DEF InOrder
<1> HIDE DEF S
<1>4. todo \in Seq(Own)
  BY <1>1, <1>2, <1>3
<1>5. \A c : c \in S <=> \E i \in DOMAIN todo : todo[i] = c
  BY <1>3
<1>6. QED
  BY <1>3, <1>4, <1>5 DEF S

(* The steps that only move a context on. *)
LEMMA ContextMoves ==
    ASSUME NEW x \in Context, context \in [Context -> Work], cursor \in Nat \cup {NoCursor},
           Len(feed) \in Nat,
           \/ StartLoop(x) \/ StartPanel(x) \/ ReadCursor(x) \/ AnswerPull(x)
           \/ AnswerBootstrap(x) \/ GatherNothing(x) \/ ReadMetadata(x) \/ WriteMetadata(x)
           \/ SendBatch(x) \/ FinishDispatch(x)
    PROVE  context' \in [Context -> Work]
<1>1. CASE StartLoop(x) \/ StartPanel(x)
  <2>1. \A stage \in Stages : [context[x] EXCEPT !.step = "reading", !.stage = stage] \in Work
    BY DEF Work, Steps
  <2>2. PICK stage \in Stages :
             context' = [context EXCEPT ![x].step = "reading", ![x].stage = stage]
    BY <1>1 DEF StartLoop, StartPanel, Stages
  <2>3. QED
    BY <2>1, <2>2
<1>2. CASE ReadCursor(x)
  BY <1>2, ZenonT(60) DEF ReadCursor, Work, Steps
<1>3. CASE AnswerPull(x)
  <2>1. PageEnd(context[x].at) \in Nat
    BY <1>3, LimitAssumption DEF AnswerPull, PageEnd, Work, NoCursor
  <2>2. \A upto \in Nat, more \in BOOLEAN :
           [context[x] EXCEPT !.step = "applying", !.upto = upto, !.more = more] \in Work
    BY DEF Work, Steps
  <2>3. (PageEnd(context[x].at) > context[x].at) \in BOOLEAN
    OBVIOUS
  <2>4. [context[x] EXCEPT !.step = "applying", !.upto = PageEnd(context[x].at),
                           !.more = (PageEnd(context[x].at) > context[x].at)] \in Work
    BY <2>1, <2>2, <2>3
  <2>5. QED
    BY <1>3, <2>4 DEF AnswerPull
<1>4. CASE AnswerBootstrap(x)
  <2>1. [context[x] EXCEPT !.step = "installing", !.upto = Len(feed), !.more = TRUE] \in Work
    BY DEF Work, Steps
  <2>2. QED
    BY <1>4, <2>1 DEF AnswerBootstrap
<1>5. CASE SendBatch(x)
  BY <1>5 DEF SendBatch, Work, Steps
<1>6. CASE FinishDispatch(x) \/ GatherNothing(x)
  <2>1. Draining \in Work /\ [Resting EXCEPT !.step = "noting", !.stage = "drain"] \in Work
    BY RestingIsWork DEF Draining, Work, Steps, Stages
  <2>2. QED
    BY <1>6, <2>1 DEF FinishDispatch, GatherNothing
<1>7. CASE ReadMetadata(x)
  BY <1>7, ZenonT(60) DEF ReadMetadata, Work, Steps
<1>8. CASE WriteMetadata(x)
  <2>1. [context[x] EXCEPT !.step = "sending"] \in Work /\ Draining \in Work
    BY RestingIsWork DEF Draining, Work, Steps, Stages
  <2>2. AfterNote(x) \in Work
    BY <2>1, RestingIsWork DEF AfterNote
  <2>3. QED
    BY <1>8, <2>2 DEF WriteMetadata
<1>9. QED
  BY <1>1, <1>2, <1>3, <1>4, <1>5, <1>6, <1>7, <1>8

LEMMA TypeStep ==
    ASSUME IInv, IInv', OutboxInv, [SyncNext]_syncVars
    PROVE  SyncTypeOK'
<1>1. /\ TypeOK /\ TypeOK' /\ Len(feed) \in Nat
      /\ \E S \in SUBSET Own : outbox \in [S -> OutboxRow]
      /\ canonical \in [Entity -> Nat \cup {Absent}]
      /\ overlay \in [Event -> Own \cup {NoCommand}]
      /\ cursor \in Nat \cup {NoCursor}
      /\ context \in [Context -> Work]
      /\ flight \in [Context -> Seq(Own)]
      /\ failures \in Nat
  BY DEF OutboxInv, IInv, Types, SyncTypeOK, Work
<1>2. SyncTypeOK' <=>
         /\ \E S \in SUBSET Own : outbox' \in [S -> OutboxRow]
         /\ canonical' \in [Entity -> Nat \cup {Absent}]
         /\ overlay' \in [Event -> Own \cup {NoCommand}]
         /\ cursor' \in Nat \cup {NoCursor}
         /\ context' \in [Context -> Work]
         /\ flight' \in [Context -> Seq(Own)]
         /\ failures' \in Nat
  BY <1>1 DEF SyncTypeOK, Work
<1>3. SyncTypeOK /\ Numbered
  BY DEF OutboxInv
<1>4. CASE UNCHANGED replicaVars
  BY <1>1, <1>2, <1>4 DEF replicaVars, tables
<1>5. ASSUME NEW c \in Own, NEW req \in Request, Queue(c, req)
      PROVE  SyncTypeOK'
  BY <1>1, <1>2, <1>5, QueueTypes DEF Queue
<1>6. ASSUME NEW c \in Own, Discard(c)
      PROVE  SyncTypeOK'
  BY <1>1, <1>2, <1>6, DiscardShrinks DEF Discard, OutboxShrinks
<1>7. ASSUME NEW x \in Context, StartLoop(x) \/ StartPanel(x) \/ ReadCursor(x) \/ AnswerPull(x)
                                \/ AnswerBootstrap(x) \/ GatherNothing(x) \/ ReadMetadata(x)
                                \/ FinishDispatch(x)
      PROVE  SyncTypeOK'
  <2>1. context' \in [Context -> Work]
    BY <1>1, <1>7, ContextMoves
  <2>2. UNCHANGED <<outbox, canonical, overlay, cursor, flight, failures>>
    BY <1>7 DEF StartLoop, StartPanel, ReadCursor, AnswerPull, AnswerBootstrap, GatherNothing,
       ReadMetadata, FinishDispatch, tables
  <2>3. QED
    BY <1>1, <1>2, <2>1, <2>2
<1>8. ASSUME NEW x \in Context, SendBatch(x)
      PROVE  SyncTypeOK'
  <2>1. context' \in [Context -> Work]
    BY <1>1, <1>8, ContextMoves
  <2>2. Batch(context[x].todo) \in Seq(Own)
    BY <1>1, BatchTypes DEF Work
  <2>3. QED
    BY <1>1, <1>2, <1>8, <2>1, <2>2 DEF SendBatch, tables
<1>9. ASSUME NEW x \in Context, Fail(x) \/ PushFails(x)
      PROVE  SyncTypeOK'
  <2>1. /\ context' \in {[context EXCEPT ![x] = Resting],
                         [context EXCEPT ![x] = [Resting EXCEPT !.step = "noting"]]}
        /\ flight' \in {flight, [flight EXCEPT ![x] = <<>>]}
        /\ failures' = failures + 1
        /\ UNCHANGED <<outbox, canonical, overlay, cursor>>
    BY <1>9 DEF Fail, PushFails, tables
  <2>2. context' \in [Context -> Work]
    <3>1. [Resting EXCEPT !.step = "noting"] \in Work
      BY RestingIsWork DEF Work, Steps
    <3>2. QED
      BY <1>1, <2>1, <3>1, RestingIsWork
  <2>3. flight' \in [Context -> Seq(Own)]
    <3>1. <<>> \in Seq(Own) /\ flight \in [Context -> Seq(Own)]
      BY <1>1
    <3>2. [flight EXCEPT ![x] = <<>>] \in [Context -> Seq(Own)]
      BY <3>1
    <3>3. QED
      BY <2>1, <3>1, <3>2
  <2>4. QED
    BY <1>1, <1>2, <2>1, <2>2, <2>3
<1>10. ASSUME NEW x \in Context, ApplyGroup(x)
       PROVE  SyncTypeOK'
  <2>1. context[x] \in Work /\ context[x].at \in Nat
    BY <1>1, <1>10 DEF ApplyGroup, Placed, OutboxInv
  <2>2. canonical' \in [Entity -> Nat \cup {Absent}]
    BY <1>1, <1>10, <2>1 DEF ApplyGroup
  <2>3. overlay' \in [Event -> Own \cup {NoCommand}]
    BY <1>3, <1>10, ReplayedType DEF ApplyGroup, RebuildOverlays
  <2>4. context' \in [Context -> Work]
    <3>1. \A at \in Nat : [context[x] EXCEPT !.at = at] \in Work
      BY <2>1 DEF Work
    <3>2. context \in [Context -> Work] /\ context[x].at + 1 \in Nat
      BY <1>1, <2>1
    <3>3. QED
      BY <1>10, <3>1, <3>2 DEF ApplyGroup
  <2>5. QED
    BY <1>1, <1>2, <1>10, <2>2, <2>3, <2>4 DEF ApplyGroup
<1>11. ASSUME NEW x \in Context, WriteCursor(x)
       PROVE  SyncTypeOK'
  BY <1>1, <1>2, <1>11, AfterPullIsWork DEF WriteCursor, Work
<1>12. ASSUME NEW x \in Context, InstallSnapshot(x)
       PROVE  SyncTypeOK'
  <2>1. context[x].upto \in Nat
    BY <1>1 DEF Work
  <2>2. Snapshot(context[x].upto) \in [Entity -> Nat \cup {Absent}]
    BY <2>1 DEF Snapshot
  <2>3. overlay' \in [Event -> Own \cup {NoCommand}]
    BY <1>3, <1>12, ReplayedType DEF InstallSnapshot, RebuildOverlays
  <2>4. QED
    BY <1>1, <1>2, <1>12, <2>1, <2>2, <2>3, AfterPullIsWork DEF InstallSnapshot
<1>13. ASSUME NEW x \in Context, Gather(x)
       PROVE  SyncTypeOK'
  <2>1. PICK todo \in InOrder(Pending(outbox) \ Oversized, outbox) :
             context' = [context EXCEPT ![x].step = "sizing", ![x].todo = todo,
                                        ![x].large = Pending(outbox) \cap Oversized]
    BY <1>13 DEF Gather
  <2>2. todo \in Seq(Own)
    BY <1>3, GatheredIsOrdered DEF Numbered
  <2>3. \A large \in SUBSET Oversized :
           [context[x] EXCEPT !.step = "sizing", !.todo = todo, !.large = large] \in Work
    BY <1>1, <2>2 DEF Work, Steps
  <2>4. context' \in [Context -> Work]
    <3>1. Pending(outbox) \cap Oversized \in SUBSET Oversized
      OBVIOUS
    <3>2. QED
      BY <1>1, <2>1, <2>3, <3>1
  <2>5. QED
    BY <1>1, <1>2, <1>13, <2>4 DEF Gather, tables
<1>14. ASSUME NEW x \in Context, RejectOversized(x)
       PROVE  SyncTypeOK'
  <2>1. [context[x] EXCEPT !.step = "noting", !.large = {}] \in Work
    BY <1>1 DEF Work, Steps
  <2>2. context' \in [Context -> Work]
    BY <1>1, <1>14, <2>1 DEF RejectOversized
  <2>3. QED
    BY <1>1, <1>2, <1>14, <2>2, RejectionShrinks DEF RejectOversized, OutboxShrinks
<1>15. ASSUME NEW x \in Context, WriteMetadata(x)
       PROVE  SyncTypeOK'
  <2>1. context' \in [Context -> Work]
    BY <1>1, <1>15, ContextMoves
  <2>2. cursor' \in Nat \cup {NoCursor}
    BY <1>1, <1>15 DEF WriteMetadata, Work
  <2>3. QED
    BY <1>1, <1>2, <1>15, <2>1, <2>2 DEF WriteMetadata
<1>16. ASSUME NEW x \in Context, Serve(x)
       PROVE  SyncTypeOK'
  BY <1>1, <1>2, <1>16 DEF Serve, tables
<1>17. ASSUME NEW x \in Context, ReceiveOutcomes(x)
       PROVE  SyncTypeOK'
  <2>1. context \in [Context -> Work] /\ Rest(context[x].todo) \in Seq(Own)
    BY <1>1, BatchTypes DEF Work
  <2>2. context' \in [Context -> Work]
    BY <1>17, <2>1, ZenonT(40) DEF ReceiveOutcomes, Work, Steps
  <2>3. QED
    BY <1>1, <1>2, <1>17, <2>2, OutcomesShrink DEF ReceiveOutcomes, OutboxShrinks
<1>18. QED
  BY <1>4, <1>5, <1>6, <1>7, <1>8, <1>9, <1>10, <1>11, <1>12, <1>13, <1>14, <1>15, <1>16, <1>17
     DEF SyncNext, Continue, Others, syncVars

-----------------------------------------------------------------------------
(* How a step changes the outbox, the commands to send, and the requests. *)

LEMMA OutboxStep ==
    ASSUME OutboxInv, [SyncNext]_syncVars
    PROVE  \/ outbox' = outbox
           \/ OutboxShrinks
           \/ \E c \in Own, req \in Request : Queue(c, req)
<1>1. CASE Others \/ UNCHANGED syncVars
  BY <1>1 DEF Others, replicaVars, syncVars, tables
<1>2. ASSUME NEW c \in Own, Discard(c)
      PROVE  OutboxShrinks
  BY <1>2, DiscardShrinks
<1>3. ASSUME NEW x \in Context, StartLoop(x) \/ StartPanel(x) \/ Fail(x) \/ PushFails(x)
      PROVE  outbox' = outbox
  BY <1>3 DEF StartLoop, StartPanel, Fail, PushFails, tables
<1>4. ASSUME NEW x \in Context, Continue(x)
      PROVE  outbox' = outbox \/ OutboxShrinks
  BY <1>4, RejectionShrinks, OutcomesShrink DEF Continue, ReadCursor, AnswerPull, AnswerBootstrap,
     ApplyGroup, WriteCursor, InstallSnapshot, GatherNothing, Gather, ReadMetadata, WriteMetadata,
     SendBatch, FinishDispatch, Serve, tables
<1>5. QED
  BY <1>1, <1>2, <1>3, <1>4 DEF SyncNext

LEMMA OwnRequestStep ==
    ASSUME IInv, OutboxInv, [SyncNext]_syncVars
    PROVE  \/ \E c \in Own, req \in Request : Queue(c, req)
           \/ \A c \in Own : request'[c] = request[c]
<1>1. request \in [Command -> Request \cup {NoRequest}]
  BY DEF IInv, Types, TypeOK
<1>2. ASSUME NEW d \in Command, Deliver(d)
      PROVE  request' = request
  BY <1>2 DEF Deliver, Replay, UpdateBaseAttendance, SetRecipeAttendance, SetRecipeLifecycle,
     SetEventLifecycle, RefuseEventLifecycle, RetainLifecycleRejection,
     LoseLifecycleRejection, Reject, Conclude
<1>3. CASE Others
  BY <1>1, <1>2, <1>3, OwnAssumption DEF Others, Issue, Tick
<1>4. ASSUME NEW x \in Context, Serve(x)
      PROVE  request' = request
  <2>1. Head(flight[x]) \in Command
    BY <1>4, OwnAssumption DEF Serve, OutboxInv, SyncTypeOK
  <2>2. QED
    BY <1>2, <1>4, <2>1 DEF Serve
<1>5. CASE UNCHANGED serverVars
  BY <1>5 DEF serverVars
<1>6. QED
  BY <1>3, <1>4, <1>5 DEF SyncNext, Continue, Discard, StartLoop, StartPanel, ReadCursor,
     AnswerPull, AnswerBootstrap, ApplyGroup, WriteCursor, InstallSnapshot, GatherNothing, Gather,
     RejectOversized, ReadMetadata, WriteMetadata, SendBatch, FinishDispatch, ReceiveOutcomes, Fail,
     PushFails, syncVars

LEMMA TodoStep ==
    ASSUME OutboxInv, [SyncNext]_syncVars, NEW x \in Context
    PROVE  \/ /\ context'[x].todo = context[x].todo
              /\ context[x].step = "sizing" => context'[x] = context[x]
           \/ context'[x].todo = <<>>
           \/ Gather(x)
           \/ RejectOversized(x)
           \/ ReceiveOutcomes(x)
<1> DEFINE Goal == \/ /\ context'[x].todo = context[x].todo
                      /\ context[x].step = "sizing" => context'[x] = context[x]
                   \/ context'[x].todo = <<>>
                   \/ Gather(x)
                   \/ RejectOversized(x)
                   \/ ReceiveOutcomes(x)
<1>1. context \in [Context -> Work]
  BY DEF OutboxInv, SyncTypeOK, Work
<1>2. CASE context' = context
  BY <1>2
<1>3. ASSUME NEW y \in Context, NEW w, context' = [context EXCEPT ![y] = w],
             w.todo = <<>> \/ (w.todo = context[y].todo /\ context[y].step # "sizing")
      PROVE  Goal
  <2>1. CASE y # x
    BY <1>1, <1>3, <2>1
  <2>2. CASE y = x
    BY <1>1, <1>3, <2>2
  <2>3. QED
    BY <2>1, <2>2
<1>4. ASSUME NEW y \in Context, StartLoop(y) \/ StartPanel(y)
      PROVE  Goal
  <2>1. PICK stage : context' = [context EXCEPT ![y].step = "reading", ![y].stage = stage]
    BY <1>4 DEF StartLoop, StartPanel
  <2> DEFINE w == [context[y] EXCEPT !.step = "reading", !.stage = stage]
  <2>2. context' = [context EXCEPT ![y] = w] /\ w.todo = context[y].todo
    BY <1>1, <2>1 DEF Work
  <2>3. context[y].step # "sizing"
    BY <1>4 DEF StartLoop, StartPanel
  <2> HIDE DEF w
  <2>4. QED
    BY <1>3, <2>2, <2>3
<1>5. ASSUME NEW y \in Context, ReadCursor(y)
      PROVE  Goal
  <2> DEFINE w == [context[y] EXCEPT !.step = "asking", !.at = cursor]
  <2>1. /\ context' = [context EXCEPT ![y] = w] /\ w.todo = context[y].todo
        /\ context[y].step # "sizing"
    BY <1>1, <1>5 DEF ReadCursor, Work
  <2> HIDE DEF w
  <2>2. QED
    BY <1>3, <2>1
<1>6. ASSUME NEW y \in Context, AnswerPull(y)
      PROVE  Goal
  <2> DEFINE upto == PageEnd(context[y].at)
             w == [context[y] EXCEPT !.step = "applying", !.upto = upto, !.more = (upto > context[y].at)]
  <2>1. /\ context' = [context EXCEPT ![y] = w] /\ context[y].step # "sizing"
    BY <1>6 DEF AnswerPull
  <2>2. w.todo = context[y].todo
    BY <1>1 DEF Work
  <2> HIDE DEF w
  <2>3. QED
    BY <1>3, <2>1, <2>2
<1>7. ASSUME NEW y \in Context, AnswerBootstrap(y)
      PROVE  Goal
  <2> DEFINE w == [context[y] EXCEPT !.step = "installing", !.upto = Len(feed), !.more = TRUE]
  <2>1. /\ context' = [context EXCEPT ![y] = w] /\ w.todo = context[y].todo
        /\ context[y].step # "sizing"
    BY <1>1, <1>7 DEF AnswerBootstrap, Work
  <2> HIDE DEF w
  <2>2. QED
    BY <1>3, <2>1
<1>8. ASSUME NEW y \in Context, ApplyGroup(y)
      PROVE  Goal
  <2> DEFINE w == [context[y] EXCEPT !.at = context[y].at + 1]
  <2>1. /\ context' = [context EXCEPT ![y] = w] /\ w.todo = context[y].todo
        /\ context[y].step # "sizing"
    BY <1>1, <1>8 DEF ApplyGroup, Work
  <2> HIDE DEF w
  <2>2. QED
    BY <1>3, <2>1
<1>9. ASSUME NEW y \in Context, ReadMetadata(y) \/ SendBatch(y)
      PROVE  Goal
  <2>1. /\ [context[y] EXCEPT !.step = "saving", !.at = cursor].todo = context[y].todo
        /\ [context[y] EXCEPT !.step = "waiting"].todo = context[y].todo
    BY <1>1 DEF Work
  <2>2. CASE ReadMetadata(y)
    BY <1>3, <2>1, <2>2 DEF ReadMetadata
  <2>3. CASE SendBatch(y)
    BY <1>3, <2>1, <2>3 DEF SendBatch
  <2>4. QED
    BY <1>9, <2>2, <2>3
<1>10. ASSUME NEW y \in Context, WriteMetadata(y)
       PROVE  Goal
  <2>1. [context[y] EXCEPT !.step = "sending"].todo = context[y].todo
    BY <1>1 DEF Work
  <2>2. Draining.todo = <<>> /\ Resting.todo = <<>>
    BY DEF Draining, Resting
  <2>3. AfterNote(y).todo \in {<<>>, context[y].todo}
    BY <2>1, <2>2 DEF AfterNote
  <2>4. QED
    BY <1>3, <1>10, <2>3 DEF WriteMetadata
<1>11. ASSUME NEW y \in Context, \/ WriteCursor(y) \/ InstallSnapshot(y) \/ GatherNothing(y)
                                \/ FinishDispatch(y) \/ Fail(y) \/ PushFails(y)
       PROVE  Goal
  <2>1. PICK w \in {AfterPull(y), Draining, Resting,
                    [Resting EXCEPT !.step = "noting", !.stage = "drain"],
                    [Resting EXCEPT !.step = "noting"]} : context' = [context EXCEPT ![y] = w]
    BY <1>11 DEF WriteCursor, InstallSnapshot, GatherNothing, FinishDispatch, Fail, PushFails
  <2>2. Resting.todo = <<>> /\ AfterPull(y).todo = <<>> /\ Draining.todo = <<>>
    BY DEF AfterPull, Draining, Resting
  <2>3. /\ [Resting EXCEPT !.step = "noting", !.stage = "drain"].todo = <<>>
        /\ [Resting EXCEPT !.step = "noting"].todo = <<>>
    BY DEF Resting
  <2>4. w.todo = <<>>
    BY <2>1, <2>2, <2>3
  <2>5. QED
    BY <1>3, <2>1, <2>4
<1>12. ASSUME NEW y \in Context, Gather(y) \/ RejectOversized(y) \/ ReceiveOutcomes(y)
       PROVE  Goal
  <2>1. y # x => context'[x] = context[x]
    BY <1>1, <1>12 DEF Gather, RejectOversized, ReceiveOutcomes
  <2>2. QED
    BY <1>12, <2>1
<1>13. QED
  BY <1>2, <1>4, <1>5, <1>6, <1>7, <1>8, <1>9, <1>10, <1>11, <1>12
     DEF SyncNext, Continue, Others, Queue, Discard, Serve, replicaVars, syncVars

LEMMA NumberedStep ==
    ASSUME OutboxInv, [SyncNext]_syncVars
    PROVE  Numbered'
<1> USE DEF Numbered
<1>1. SyncTypeOK /\ Numbered
  BY DEF OutboxInv
<1>2. CASE outbox' = outbox
  BY <1>1, <1>2
<1>3. CASE OutboxShrinks
  BY <1>1, <1>3, FS_Subset DEF OutboxShrinks
<1>4. ASSUME NEW c \in Own, NEW req \in Request, Queue(c, req)
      PROVE  Numbered'
  <2>1. /\ NextSequence \in Nat
        /\ \A d \in DOMAIN outbox : outbox[d].sequence \in Nat /\ outbox[d].sequence < NextSequence
    BY <1>1, NextIsLargest, OutboxTypes
  <2>2. /\ DOMAIN outbox' = DOMAIN outbox \cup {c} /\ c \notin DOMAIN outbox
        /\ outbox'[c].sequence = NextSequence
        /\ \A d \in DOMAIN outbox : outbox'[d].sequence = outbox[d].sequence
    BY <1>4, QueueTypes DEF Queue
  <2>3. IsFiniteSet(DOMAIN outbox')
    BY <1>1, <2>2, FS_AddElement
  <2>4. \A d \in DOMAIN outbox' : outbox'[d].sequence <= NextSequence
    BY <2>1, <2>2
  <2>5. \A d, e \in DOMAIN outbox' : outbox'[d].sequence = outbox'[e].sequence => d = e
    BY <1>1, <2>1, <2>2
  <2>6. QED
    BY <2>1, <2>3, <2>4, <2>5
<1>5. QED
  BY <1>2, <1>3, <1>4, OutboxStep

LEMMA OwnEditsStep ==
    ASSUME IInv, OutboxInv, [SyncNext]_syncVars
    PROVE  OwnEdits'
<1>1. OwnEdits /\ SyncTypeOK /\ DOMAIN outbox \subseteq Own
  BY OutboxTypes DEF OutboxInv
<1>2. ASSUME NEW c \in Own, request[c] # NoRequest
      PROVE  request'[c] = request[c]
  BY <1>1, <1>2, ServerStep, RequestKept, OwnAssumption
<1>3. /\ DOMAIN outbox' \subseteq Own
      /\ \A c \in DOMAIN outbox' : request'[c] # NoRequest
  <2>1. ASSUME NEW c \in Own, NEW req \in Request, Queue(c, req)
        PROVE  DOMAIN outbox' = DOMAIN outbox \cup {c} /\ request'[c] # NoRequest
    <3>1. request'[c] = req
      BY <2>1, OwnAssumption DEF Queue, Issue, IInv, Types, TypeOK
    <3>2. QED
      BY <2>1, <3>1, AnyRequest DEF Queue
  <2>2. \A c \in DOMAIN outbox : c \in Own /\ request'[c] # NoRequest
    BY <1>1, <1>2 DEF OwnEdits
  <2>3. CASE outbox' = outbox
    BY <2>2, <2>3
  <2>4. CASE OutboxShrinks
    BY <2>2, <2>4 DEF OutboxShrinks
  <2>5. QED
    BY <2>1, <2>2, <2>3, <2>4, OutboxStep
<1>4. ASSUME NEW c \in Own, request'[c] # NoRequest
      PROVE  request'[c].kind = "update_base_attendance"
  <2>1. ASSUME NEW d \in Own, NEW req \in Request, Queue(d, req)
        PROVE  request'[c].kind = "update_base_attendance"
    BY <1>1, <1>4, <2>1, OwnAssumption DEF Queue, Issue, IInv, Types, TypeOK, OwnEdits
  <2>2. QED
    BY <1>1, <1>4, <2>1, OwnRequestStep DEF OwnEdits
<1>5. ASSUME NEW x \in Context, NEW j \in DOMAIN context'[x].todo
      PROVE  request'[context'[x].todo[j]] # NoRequest
  <2>1. context[x].todo \in Seq(Own)
    BY <1>1 DEF SyncTypeOK
  <2>2. \A i \in DOMAIN context[x].todo : request'[context[x].todo[i]] # NoRequest
    BY <1>1, <1>2, <2>1 DEF OwnEdits
  <2>3. CASE context'[x].todo = context[x].todo \/ context'[x].todo = <<>>
    BY <1>5, <2>2, <2>3
  <2>4. CASE Gather(x)
    <3>1. PICK todo \in InOrder(Pending(outbox) \ Oversized, outbox) :
               context' = [context EXCEPT ![x].step = "sizing", ![x].todo = todo,
                                          ![x].large = Pending(outbox) \cap Oversized]
      BY <2>4 DEF Gather
    <3>2. context'[x].todo = todo
      BY <1>1, <3>1 DEF SyncTypeOK
    <3>3. todo[j] \in DOMAIN outbox
      BY <1>1, <1>5, <3>2, GatheredIsOrdered DEF OutboxInv, Numbered, Pending
    <3>4. QED
      BY <1>1, <1>2, <3>2, <3>3 DEF OwnEdits
  <2>5. CASE ReceiveOutcomes(x)
    <3>1. context'[x].todo = Rest(context[x].todo)
      BY <1>1, <2>5 DEF ReceiveOutcomes, SyncTypeOK
    <3>2. j \in 1..Len(Rest(context[x].todo))
      BY <1>5, <2>1, <3>1, BatchTypes
    <3>3. j + Len(Batch(context[x].todo)) \in DOMAIN context[x].todo
      BY <2>1, <3>2, BatchTypes
    <3>4. QED
      BY <2>1, <2>2, <3>1, <3>2, <3>3, BatchTypes
  <2>6. CASE RejectOversized(x)
    <3>1. context'[x].todo = context[x].todo
      BY <1>1, <2>6 DEF RejectOversized, SyncTypeOK
    <3>2. QED
      BY <2>3, <3>1
  <2>7. QED
    BY <2>3, <2>4, <2>5, <2>6, TodoStep
<1>6. QED
  BY <1>3, <1>4, <1>5 DEF OwnEdits

-----------------------------------------------------------------------------
(* Positions. *)

LEMMA PlacedStep ==
    ASSUME IInv, OutboxInv, [SyncNext]_syncVars, FeedGrows
    PROVE  Placed'
<1> DEFINE Well(w) == /\ w.step = "applying" => w.at \in Nat
                      /\ w.step \in {"applying", "installing"} => w.upto <= Len(feed)
                      /\ w.step = "saving" => w.at <= Len(feed)
<1> USE DEF NoCursor
<1>1. /\ Len(feed) \in Nat /\ Len(feed)' \in Nat /\ Len(feed) <= Len(feed)'
      /\ canonical \in [Entity -> Nat \cup {Absent}] /\ cursor \in Nat \cup {NoCursor}
      /\ context \in [Context -> Work]
      /\ \A y \in Entity : canonical[y] <= Len(feed)
      /\ cursor <= Len(feed)
      /\ \A x \in Context : Well(context[x])
  BY DEF OutboxInv, SyncTypeOK, Work, FeedGrows, Placed
<1>2. ASSUME \A y \in Entity : canonical'[y] <= Len(feed) /\ canonical'[y] \in Nat \cup {Absent},
             cursor' <= Len(feed), cursor' \in Nat \cup {NoCursor},
             \A x \in Context : Well(context'[x]) /\ context'[x].upto \in Nat /\ context'[x].at \in Int
      PROVE  Placed'
  BY <1>1, <1>2 DEF Placed, Absent, NoCursor
<1>3. \A x \in Context : Well(context[x]) /\ context[x].upto \in Nat /\ context[x].at \in Int
  BY <1>1 DEF Work
<1>4. CASE UNCHANGED <<canonical, cursor, context>>
  BY <1>1, <1>2, <1>3, <1>4
<1>5. ASSUME NEW x \in Context, NEW w, Well(w), w.upto \in Nat /\ w.at \in Int, context' = [context EXCEPT ![x] = w],
             UNCHANGED <<canonical, cursor>>
      PROVE  Placed'
  <2>1. \A y \in Context : Well(context'[y]) /\ context'[y].upto \in Nat /\ context'[y].at \in Int
    <3> HIDE DEF Well
    <3> QED
      BY <1>1, <1>3, <1>5
  <2>2. QED
    BY <1>1, <1>2, <1>5, <2>1
<1>6. Well(Resting) /\ Resting.upto \in Nat /\ Resting.at \in Int
  BY DEF Resting
<1>7. ASSUME NEW x \in Context
      PROVE  Well(AfterPull(x)) /\ AfterPull(x).upto \in Nat /\ AfterPull(x).at \in Int
  BY DEF AfterPull, Resting
<1>8. ASSUME NEW x \in Context, StartLoop(x) \/ StartPanel(x)
      PROVE  Placed'
  <2>1. PICK stage : context' = [context EXCEPT ![x].step = "reading", ![x].stage = stage]
    BY <1>8 DEF StartLoop, StartPanel
  <2> DEFINE w == [context[x] EXCEPT !.step = "reading", !.stage = stage]
  <2>2. Well(w) /\ w.upto \in Nat /\ w.at \in Int
    BY <1>1 DEF Work
  <2>3. context' = [context EXCEPT ![x] = w]
    BY <2>1
  <2> HIDE DEF w
  <2>4. QED
    BY <1>5, <1>8, <2>2, <2>3 DEF StartLoop, StartPanel, tables
<1>9. ASSUME NEW x \in Context, ReadCursor(x)
      PROVE  Placed'
  <2> DEFINE w == [context[x] EXCEPT !.step = "asking", !.at = cursor]
  <2>1. Well(w) /\ w.upto \in Nat /\ w.at \in Int
    BY <1>1 DEF Work
  <2>2. context' = [context EXCEPT ![x] = w] /\ UNCHANGED <<canonical, cursor>>
    BY <1>9 DEF ReadCursor, tables
  <2> HIDE DEF w
  <2>3. QED
    BY <1>5, <2>1, <2>2
<1>10. ASSUME NEW x \in Context, AnswerPull(x)
       PROVE  Placed'
  <2> DEFINE upto == PageEnd(context[x].at)
             w == [context[x] EXCEPT !.step = "applying", !.upto = upto, !.more = (upto > context[x].at)]
  <2>1. context[x].at \in Nat
    BY <1>1, <1>10 DEF AnswerPull, Work
  <2>2. upto \in Nat /\ upto <= Len(feed)
    BY <1>1, <2>1, LimitAssumption DEF PageEnd
  <2>3. context' = [context EXCEPT ![x] = w] /\ UNCHANGED <<canonical, cursor>>
    BY <1>10 DEF AnswerPull, tables
  <2> HIDE DEF upto
  <2>4. Well(w) /\ w.upto \in Nat /\ w.at \in Int
    BY <1>1, <2>1, <2>2 DEF Work
  <2> HIDE DEF w
  <2>5. QED
    BY <1>5, <2>3, <2>4
<1>11. ASSUME NEW x \in Context, AnswerBootstrap(x)
       PROVE  Placed'
  <2> DEFINE w == [context[x] EXCEPT !.step = "installing", !.upto = Len(feed), !.more = TRUE]
  <2>1. Well(w) /\ w.upto \in Nat /\ w.at \in Int
    BY <1>1 DEF Work
  <2>2. context' = [context EXCEPT ![x] = w] /\ UNCHANGED <<canonical, cursor>>
    BY <1>11 DEF AnswerBootstrap, tables
  <2> HIDE DEF w
  <2>3. QED
    BY <1>5, <2>1, <2>2
<1>12. ASSUME NEW x \in Context, ApplyGroup(x)
       PROVE  Placed'
  <2> DEFINE i == context[x].at + 1
             w == [context[x] EXCEPT !.at = i]
  <2>1. i \in Nat /\ i <= Len(feed)
    BY <1>1, <1>12 DEF ApplyGroup, Work
  <2>2. Well(w) /\ w.upto \in Nat /\ w.at \in Int
    BY <1>1, <2>1 DEF Work
  <2>3. context' = [context EXCEPT ![x] = w] /\ cursor' = cursor
    BY <1>12 DEF ApplyGroup
  <2>4. \A y \in Entity : canonical'[y] <= Len(feed) /\ canonical'[y] \in Nat \cup {Absent}
    BY <1>1, <1>12, <2>1 DEF ApplyGroup
  <2> HIDE DEF w, Well
  <2>5. \A y \in Context : Well(context'[y]) /\ context'[y].upto \in Nat /\ context'[y].at \in Int
    BY <1>1, <1>3, <2>2, <2>3
  <2>6. QED
    BY <1>1, <1>2, <2>3, <2>4, <2>5
<1>13. ASSUME NEW x \in Context, WriteCursor(x)
       PROVE  Placed'
  <2>1. context[x].upto \in Nat /\ context[x].upto <= Len(feed)
    BY <1>1, <1>13 DEF WriteCursor, Work
  <2>2. \A y \in Context : Well(context'[y]) /\ context'[y].upto \in Nat /\ context'[y].at \in Int
    <3> HIDE DEF Well
    <3> QED
      BY <1>1, <1>3, <1>7, <1>13 DEF WriteCursor
  <2>3. QED
    BY <1>1, <1>2, <1>13, <2>1, <2>2 DEF WriteCursor
<1>14. ASSUME NEW x \in Context, InstallSnapshot(x)
       PROVE  Placed'
  <2>1. context[x].upto \in Nat /\ context[x].upto <= Len(feed)
    BY <1>1, <1>14 DEF InstallSnapshot, Work
  <2>2. \A y \in Context : Well(context'[y]) /\ context'[y].upto \in Nat /\ context'[y].at \in Int
    <3> HIDE DEF Well
    <3> QED
      BY <1>1, <1>3, <1>7, <1>14 DEF InstallSnapshot
  <2>3. \A y \in Entity : canonical'[y] <= Len(feed) /\ canonical'[y] \in Nat \cup {Absent}
    BY <1>1, <1>14, <2>1 DEF InstallSnapshot, Snapshot, Absent
  <2>4. QED
    BY <1>1, <1>2, <1>14, <2>1, <2>2, <2>3 DEF InstallSnapshot
<1>15. ASSUME NEW x \in Context, Gather(x)
       PROVE  Placed'
  <2>1. PICK todo : context' = [context EXCEPT ![x].step = "sizing", ![x].todo = todo,
                                               ![x].large = Pending(outbox) \cap Oversized]
    BY <1>15 DEF Gather
  <2> DEFINE w == [context[x] EXCEPT !.step = "sizing", !.todo = todo,
                                     !.large = Pending(outbox) \cap Oversized]
  <2>2. Well(w) /\ w.upto \in Nat /\ w.at \in Int
    BY <1>1 DEF Work
  <2>3. context' = [context EXCEPT ![x] = w] /\ UNCHANGED <<canonical, cursor>>
    BY <1>15, <2>1 DEF Gather, tables
  <2> HIDE DEF w
  <2>4. QED
    BY <1>5, <2>2, <2>3
<1>16. ASSUME NEW x \in Context, RejectOversized(x)
       PROVE  Placed'
  <2> DEFINE w == [context[x] EXCEPT !.step = "noting", !.large = {}]
  <2>1. Well(w) /\ w.upto \in Nat /\ w.at \in Int
    BY <1>1 DEF Work
  <2>2. context' = [context EXCEPT ![x] = w] /\ UNCHANGED <<canonical, cursor>>
    BY <1>16 DEF RejectOversized
  <2> HIDE DEF w
  <2>3. QED
    BY <1>5, <2>1, <2>2
<1>17. ASSUME NEW x \in Context, ReadMetadata(x)
       PROVE  Placed'
  <2> DEFINE w == [context[x] EXCEPT !.step = "saving", !.at = cursor]
  <2>1. Well(w) /\ w.upto \in Nat /\ w.at \in Int
    BY <1>1 DEF Work
  <2>2. context' = [context EXCEPT ![x] = w] /\ UNCHANGED <<canonical, cursor>>
    BY <1>17 DEF ReadMetadata, tables
  <2> HIDE DEF w
  <2>3. QED
    BY <1>5, <2>1, <2>2
<1>18. ASSUME NEW x \in Context, WriteMetadata(x)
       PROVE  Placed'
  <2>1. cursor' = context[x].at /\ context[x].at \in Nat \cup {NoCursor} /\ context[x].at <= Len(feed)
    BY <1>1, <1>18 DEF WriteMetadata, Work
  <2>2. Well(AfterNote(x)) /\ AfterNote(x).upto \in Nat /\ AfterNote(x).at \in Int
    <3> DEFINE Fit(v) == Well(v) /\ v.upto \in Nat /\ v.at \in Int
    <3>1. Fit([context[x] EXCEPT !.step = "sending"])
      BY <1>1 DEF Work
    <3>2. Fit(Draining) /\ Fit(Resting)
      BY DEF Draining, Resting
    <3>3. AfterNote(x) \in {[context[x] EXCEPT !.step = "sending"], Draining, Resting}
      BY DEF AfterNote
    <3>4. Fit(AfterNote(x))
      <4> HIDE DEF Fit
      <4> QED
        BY <3>1, <3>2, <3>3
    <3>5. QED
      BY <3>4
  <2>3. \A y \in Context : Well(context'[y]) /\ context'[y].upto \in Nat /\ context'[y].at \in Int
    <3> HIDE DEF Well
    <3> QED
      BY <1>1, <1>3, <1>18, <2>2 DEF WriteMetadata
  <2>4. QED
    BY <1>1, <1>2, <1>18, <2>1, <2>3 DEF WriteMetadata
<1>19. ASSUME NEW x \in Context, SendBatch(x)
       PROVE  Placed'
  <2> DEFINE w == [context[x] EXCEPT !.step = "waiting"]
  <2>1. Well(w) /\ w.upto \in Nat /\ w.at \in Int
    BY <1>1 DEF Work
  <2>2. context' = [context EXCEPT ![x] = w] /\ UNCHANGED <<canonical, cursor>>
    BY <1>19 DEF SendBatch, tables
  <2> HIDE DEF w
  <2>3. QED
    BY <1>5, <2>1, <2>2
<1>20. ASSUME NEW x \in Context, GatherNothing(x) \/ FinishDispatch(x) \/ Fail(x) \/ PushFails(x)
       PROVE  Placed'
  <2>1. PICK w \in {Draining, Resting, [Resting EXCEPT !.step = "noting", !.stage = "drain"],
                    [Resting EXCEPT !.step = "noting"]} : context' = [context EXCEPT ![x] = w]
    BY <1>20 DEF GatherNothing, FinishDispatch, Fail, PushFails
  <2> DEFINE Fit(v) == Well(v) /\ v.upto \in Nat /\ v.at \in Int
  <2>2. Fit(Draining) /\ Fit(Resting)
    BY DEF Resting, Draining
  <2>3. /\ Fit([Resting EXCEPT !.step = "noting", !.stage = "drain"])
        /\ Fit([Resting EXCEPT !.step = "noting"])
    BY DEF Resting
  <2>4. Fit(w)
    <3> HIDE DEF Fit
    <3> QED
      BY <2>1, <2>2, <2>3
  <2>5. UNCHANGED <<canonical, cursor>>
    BY <1>20 DEF GatherNothing, FinishDispatch, Fail, PushFails, tables
  <2>6. QED
    BY <1>5, <2>1, <2>4, <2>5
<1>21. ASSUME NEW x \in Context, ReceiveOutcomes(x)
       PROVE  Placed'
  <2> DEFINE w == [context[x] EXCEPT !.step = "sending", !.todo = Rest(@)]
  <2>1. Well(w) /\ w.upto \in Nat /\ w.at \in Int
    BY <1>1 DEF Work
  <2>2. context' = [context EXCEPT ![x] = w] /\ UNCHANGED <<canonical, cursor>>
    BY <1>21 DEF ReceiveOutcomes
  <2> HIDE DEF w
  <2>3. QED
    BY <1>5, <2>1, <2>2
<1>22. ASSUME NEW x \in Context, Serve(x)
       PROVE  Placed'
  BY <1>4, <1>22 DEF Serve, tables
<1>23. CASE Others \/ (\E c \in Own, req \in Request : Queue(c, req)) \/ (\E c \in Own : Discard(c))
            \/ UNCHANGED syncVars
  BY <1>4, <1>23 DEF Others, Queue, Discard, replicaVars, tables, syncVars
<1>24. QED
  BY <1>8, <1>9, <1>10, <1>11, <1>12, <1>13, <1>14, <1>15, <1>16, <1>17, <1>18, <1>19, <1>20,
     <1>21, <1>22, <1>23 DEF SyncNext, Continue

-----------------------------------------------------------------------------
(* Batches. *)

LEMMA WaitingStep ==
    ASSUME OutboxInv, [SyncNext]_syncVars, NEW x \in Context, context'[x].step = "waiting"
    PROVE  \/ SendBatch(x)
           \/ context[x].step = "waiting" /\ context'[x].todo = context[x].todo
<1> DEFINE Goal == \/ SendBatch(x)
                   \/ context[x].step = "waiting" /\ context'[x].todo = context[x].todo
<1>1. context \in [Context -> Work]
  BY DEF OutboxInv, SyncTypeOK, Work
<1>2. ASSUME NEW y \in Context, NEW w, context' = [context EXCEPT ![y] = w], w.step # "waiting"
      PROVE  Goal
  BY <1>1, <1>2
<1>3. ASSUME NEW y \in Context, SendBatch(y)
      PROVE  Goal
  <2>1. y # x => context'[x] = context[x]
    BY <1>1, <1>3 DEF SendBatch
  <2>2. QED
    BY <1>3, <2>1
<1>4. ASSUME NEW y \in Context, StartLoop(y) \/ StartPanel(y)
      PROVE  Goal
  <2>1. PICK stage : context' = [context EXCEPT ![y].step = "reading", ![y].stage = stage]
    BY <1>4 DEF StartLoop, StartPanel
  <2>2. [context[y] EXCEPT !.step = "reading", !.stage = stage].step # "waiting"
    BY <1>1 DEF Work
  <2>3. QED
    BY <1>2, <2>1, <2>2
<1>5. ASSUME NEW y \in Context, ReadCursor(y) \/ AnswerBootstrap(y)
      PROVE  Goal
  <2>1. /\ [context[y] EXCEPT !.step = "asking", !.at = cursor].step # "waiting"
        /\ [context[y] EXCEPT !.step = "installing", !.upto = Len(feed), !.more = TRUE].step # "waiting"
    BY <1>1 DEF Work
  <2>2. CASE ReadCursor(y)
    BY <1>2, <2>1, <2>2 DEF ReadCursor
  <2>3. CASE AnswerBootstrap(y)
    BY <1>2, <2>1, <2>3 DEF AnswerBootstrap
  <2>4. QED
    BY <1>5, <2>2, <2>3
<1>6. ASSUME NEW y \in Context, AnswerPull(y)
      PROVE  Goal
  <2> DEFINE upto == PageEnd(context[y].at)
             w == [context[y] EXCEPT !.step = "applying", !.upto = upto, !.more = (upto > context[y].at)]
  <2>1. context' = [context EXCEPT ![y] = w]
    BY <1>6 DEF AnswerPull
  <2>2. w.step # "waiting"
    BY <1>1 DEF Work
  <2> HIDE DEF w
  <2>3. QED
    BY <1>2, <2>1, <2>2
<1>7. ASSUME NEW y \in Context, ApplyGroup(y)
      PROVE  Goal
  <2>1. [context[y] EXCEPT !.at = context[y].at + 1].step # "waiting"
    BY <1>1, <1>7 DEF ApplyGroup, Work
  <2>2. QED
    BY <1>2, <1>7, <2>1 DEF ApplyGroup
<1>8. ASSUME NEW y \in Context, \/ WriteCursor(y) \/ InstallSnapshot(y) \/ GatherNothing(y)
                               \/ FinishDispatch(y) \/ Fail(y) \/ PushFails(y)
      PROVE  Goal
  <2>1. Resting.step # "waiting" /\ AfterPull(y).step # "waiting" /\ Draining.step # "waiting"
    BY DEF AfterPull, Draining, Resting
  <2>2. /\ [Resting EXCEPT !.step = "noting", !.stage = "drain"].step # "waiting"
        /\ [Resting EXCEPT !.step = "noting"].step # "waiting"
    BY DEF Resting
  <2>3. QED
    BY <1>2, <1>8, <2>1, <2>2
       DEF WriteCursor, InstallSnapshot, GatherNothing, FinishDispatch, Fail, PushFails
<1>9. ASSUME NEW y \in Context, ReceiveOutcomes(y)
      PROVE  Goal
  <2> DEFINE w == [context[y] EXCEPT !.step = "sending", !.todo = Rest(@)]
  <2>1. context' = [context EXCEPT ![y] = w] /\ w.step # "waiting"
    BY <1>1, <1>9 DEF ReceiveOutcomes, Work
  <2> HIDE DEF w
  <2>2. QED
    BY <1>2, <2>1
<1>10. ASSUME NEW y \in Context, Gather(y)
       PROVE  Goal
  <2>1. PICK todo : context' = [context EXCEPT ![y].step = "sizing", ![y].todo = todo,
                                               ![y].large = Pending(outbox) \cap Oversized]
    BY <1>10 DEF Gather
  <2> DEFINE w == [context[y] EXCEPT !.step = "sizing", !.todo = todo,
                                     !.large = Pending(outbox) \cap Oversized]
  <2>2. context' = [context EXCEPT ![y] = w] /\ w.step # "waiting"
    BY <1>1, <2>1 DEF Work
  <2> HIDE DEF w
  <2>3. QED
    BY <1>2, <2>2
<1>11. ASSUME NEW y \in Context, RejectOversized(y) \/ ReadMetadata(y)
       PROVE  Goal
  <2>1. /\ [context[y] EXCEPT !.step = "noting", !.large = {}].step # "waiting"
        /\ [context[y] EXCEPT !.step = "saving", !.at = cursor].step # "waiting"
    BY <1>1 DEF Work
  <2>2. CASE RejectOversized(y)
    BY <1>2, <2>1, <2>2 DEF RejectOversized
  <2>3. CASE ReadMetadata(y)
    BY <1>2, <2>1, <2>3 DEF ReadMetadata
  <2>4. QED
    BY <1>11, <2>2, <2>3
<1>12. ASSUME NEW y \in Context, WriteMetadata(y)
       PROVE  Goal
  <2>1. [context[y] EXCEPT !.step = "sending"].step # "waiting"
    BY <1>1 DEF Work
  <2>2. AfterNote(y).step # "waiting"
    BY <2>1 DEF AfterNote, Draining, Resting
  <2>3. QED
    BY <1>2, <1>12, <2>2 DEF WriteMetadata
<1>13. CASE context' = context
  BY <1>13
<1>14. QED
  BY <1>3, <1>4, <1>5, <1>6, <1>7, <1>8, <1>9, <1>10, <1>11, <1>12, <1>13
     DEF SyncNext, Continue, Others, Queue, Discard, Serve, replicaVars, syncVars

LEMMA FlightStep ==
    ASSUME OutboxInv, [SyncNext]_syncVars, NEW x \in Context
    PROVE  flight'[x] = flight[x] \/ SendBatch(x) \/ Serve(x) \/ Fail(x) \/ PushFails(x)
<1>1. flight \in [Context -> Seq(Own)]
  BY DEF OutboxInv, SyncTypeOK
<1>2. CASE flight' = flight
  BY <1>2
<1>3. ASSUME NEW y \in Context, SendBatch(y) \/ Serve(y) \/ Fail(y) \/ PushFails(y)
      PROVE  flight'[x] = flight[x] \/ SendBatch(x) \/ Serve(x) \/ Fail(x) \/ PushFails(x)
  <2>1. CASE y = x
    BY <1>3, <2>1
  <2>2. CASE y # x
    BY <1>1, <1>3, <2>2 DEF SendBatch, Serve, Fail, PushFails
  <2>3. QED
    BY <2>1, <2>2
<1>4. QED
  BY <1>2, <1>3 DEF SyncNext, Continue, Others, Queue, Discard, StartLoop, StartPanel, ReadCursor,
     AnswerPull, AnswerBootstrap, ApplyGroup, WriteCursor, InstallSnapshot, GatherNothing, Gather,
     RejectOversized, ReadMetadata, WriteMetadata, FinishDispatch, ReceiveOutcomes, replicaVars, syncVars

(* A delivery of one of this browser's commands ends with an outcome. *)
LEMMA OwnIsAnswered ==
    ASSUME IInv, OwnEdits, NEW c \in Own, Deliver(c)
    PROVE  retained'[c] # "none"
<1>1. c \in Command
  BY OwnAssumption
<1>2. CASE request[c] = NoRequest
  <2>1. request[c].kind = "none"
    BY <1>2 DEF NoRequest
  <2>2. c \notin deciding /\ retained[c] = "none"
    BY <1>1, <1>2, <2>1 DEF IInv, Decided
  <2>3. QED
    BY <2>1, <2>2 DEF Deliver, Replay, UpdateBaseAttendance, SetRecipeAttendance,
       SetRecipeLifecycle, SetEventLifecycle, RefuseEventLifecycle,
       RetainLifecycleRejection, LoseLifecycleRejection, Fresh
<1>3. CASE request[c] # NoRequest
  BY <1>1, <1>3, UpdateIsAnswered DEF OwnEdits
<1>4. QED
  BY <1>2, <1>3

LEMMA AnsweredStep ==
    ASSUME IInv, OutboxInv, [SyncNext]_syncVars, [ServerNext]_serverVars
    PROVE  Answered'
<1> SUFFICES ASSUME NEW x \in Context, context'[x].step = "waiting",
                    NEW i \in DOMAIN Batch(context'[x].todo)
             PROVE  \/ retained'[Batch(context'[x].todo)[i]] # "none"
                    \/ \E j \in DOMAIN flight'[x] : flight'[x][j] = Batch(context'[x].todo)[i]
  BY DEF Answered
<1>1. /\ context \in [Context -> Work] /\ context[x].todo \in Seq(Own)
      /\ flight \in [Context -> Seq(Own)] /\ flight[x] \in Seq(Own)
  BY DEF OutboxInv, SyncTypeOK, Work
<1>2. CASE SendBatch(x)
  BY <1>1, <1>2 DEF SendBatch, Work
<1>3. CASE ~SendBatch(x)
  <2>1. context[x].step = "waiting" /\ context'[x].todo = context[x].todo
    BY <1>3, WaitingStep
  <2> DEFINE c == Batch(context[x].todo)[i]
  <2>2. c \in Own /\ c \in Command
    BY <1>1, <2>1, BatchTypes, OwnAssumption
  <2>3. retained[c] # "none" \/ \E j \in DOMAIN flight[x] : flight[x][j] = c
    BY <2>1 DEF OutboxInv, Answered
  <2> HIDE DEF c
  <2>4. CASE retained[c] # "none"
    BY <2>1, <2>2, <2>4, OutcomeKept DEF c
  <2>5. ASSUME NEW j \in DOMAIN flight[x], flight[x][j] = c
        PROVE  retained'[c] # "none" \/ \E k \in DOMAIN flight'[x] : flight'[x][k] = c
    <3>1. CASE flight'[x] = flight[x]
      BY <2>5, <3>1
    <3>2. CASE Fail(x) \/ PushFails(x)
      <4>1. context'[x].step # "waiting"
        BY <1>1, <3>2 DEF Fail, PushFails, Resting
      <4>2. QED
        BY <4>1
    <3>3. CASE Serve(x) /\ j = 1
      <4>1. Head(flight[x]) = c
        BY <1>1, <2>5, <3>3
      <4>2. QED
        BY <2>2, <3>3, <4>1, OwnIsAnswered DEF Serve, OutboxInv
    <3>4. CASE Serve(x) /\ j # 1
      <4>1. flight'[x] = Tail(flight[x])
        BY <1>1, <3>4 DEF Serve
      <4>2. j - 1 \in DOMAIN Tail(flight[x]) /\ Tail(flight[x])[j - 1] = c
        BY <1>1, <2>5, <3>4
      <4>3. QED
        BY <4>1, <4>2
    <3>5. QED
      BY <1>3, <3>1, <3>2, <3>3, <3>4, FlightStep
  <2>6. QED
    BY <2>1, <2>3, <2>4, <2>5 DEF c
<1>4. QED
  BY <1>2, <1>3

LEMMA EarlierFirstStep ==
    ASSUME IInv, OutboxInv, [SyncNext]_syncVars
    PROVE  EarlierFirst'
<1> SUFFICES ASSUME NEW x \in Context, NEW j \in DOMAIN context'[x].todo, NEW d \in Pending(outbox'),
                    context'[x].todo[j] \in DOMAIN outbox',
                    outbox'[d].sequence < outbox'[context'[x].todo[j]].sequence
             PROVE  \/ \E i \in 1..(j - 1) : context'[x].todo[i] = d
                    \/ context'[x].step = "sizing" /\ d \in context'[x].large
  BY DEF EarlierFirst, Pending
<1> DEFINE todo == context[x].todo
           c == context'[x].todo[j]
<1>1. /\ SyncTypeOK /\ context \in [Context -> Work] /\ todo \in Seq(Own)
      /\ d \in DOMAIN outbox' /\ outbox'[d].state = "pending"
  BY DEF OutboxInv, SyncTypeOK, Work, Pending
<1>2. c \in DOMAIN outbox /\ d \in Pending(outbox) /\ outbox[d].sequence < outbox[c].sequence
  <2>1. CASE outbox' = outbox
    BY <1>1, <2>1 DEF Pending
  <2>2. CASE OutboxShrinks
    BY <1>1, <2>2 DEF OutboxShrinks, Pending
  <2>3. ASSUME NEW b \in Own, NEW req \in Request, Queue(b, req)
        PROVE  c \in DOMAIN outbox /\ d \in Pending(outbox) /\ outbox[d].sequence < outbox[c].sequence
    <3>1. /\ DOMAIN outbox' = DOMAIN outbox \cup {b} /\ b \notin DOMAIN outbox
          /\ outbox'[b].sequence = NextSequence
          /\ \A e \in DOMAIN outbox : outbox'[e] = outbox[e]
      BY <2>3, QueueTypes DEF Queue
    <3>2. /\ NextSequence \in Nat
          /\ \A e \in DOMAIN outbox : outbox[e].sequence \in Nat /\ outbox[e].sequence < NextSequence
      BY <1>1, NextIsLargest, OutboxTypes DEF OutboxInv
    <3>3. context' = context /\ request[b] = NoRequest
      BY <2>3 DEF Queue, Issue
    <3>4. c # b
      BY <3>3 DEF OutboxInv, OwnEdits
    <3>5. c \in DOMAIN outbox /\ d # b
      BY <1>1, <3>1, <3>2, <3>4
    <3>6. QED
      BY <1>1, <3>1, <3>5 DEF Pending
  <2>4. QED
    BY <2>1, <2>2, <2>3, OutboxStep
<1> HIDE DEF todo, c
<1>3. ASSUME NEW k \in DOMAIN todo, todo[k] = c
      PROVE  \/ \E i \in 1..(k - 1) : todo[i] = d
             \/ context[x].step = "sizing" /\ d \in context[x].large
  BY <1>2, <1>3 DEF OutboxInv, EarlierFirst, todo
<1>4. CASE context'[x].todo = todo /\ (context[x].step = "sizing" => context'[x] = context[x])
  BY <1>4, <1>3 DEF c
<1>5. CASE context'[x].todo = <<>>
  BY <1>5
<1>6. CASE Gather(x)
  <2>1. PICK new \in InOrder(Pending(outbox) \ Oversized, outbox) :
             context' = [context EXCEPT ![x].step = "sizing", ![x].todo = new,
                                        ![x].large = Pending(outbox) \cap Oversized]
    BY <1>6 DEF Gather
  <2>2. /\ context'[x].todo = new /\ context'[x].step = "sizing"
        /\ context'[x].large = Pending(outbox) \cap Oversized
    BY <1>1, <2>1 DEF Work
  <2>3. /\ new \in Seq(Own)
        /\ \A b : b \in Pending(outbox) \ Oversized <=> \E i \in DOMAIN new : new[i] = b
        /\ \A i, k \in DOMAIN new : i < k => outbox[new[i]].sequence < outbox[new[k]].sequence
    BY <1>1, GatheredIsOrdered DEF OutboxInv, Numbered
  <2>4. CASE d \in Oversized
    BY <1>2, <2>2, <2>4
  <2> SUFFICES ASSUME d \notin Oversized PROVE \E i \in 1..(j - 1) : context'[x].todo[i] = d
    BY <2>4
  <2>5. PICK i \in DOMAIN new : new[i] = d
    BY <1>2, <2>3
  <2>6. /\ i \in Nat \ {0} /\ j \in Nat \ {0} /\ j \in DOMAIN new
        /\ outbox[d].sequence \in Nat /\ outbox[c].sequence \in Nat
    BY <1>1, <1>2, <2>2, <2>3, OutboxTypes DEF Pending
  <2>7. i < j
    <3>1. ~(i = j)
      BY <1>2, <2>2, <2>5, <2>6 DEF c
    <3>2. ~(j < i)
      BY <1>2, <2>2, <2>3, <2>5, <2>6 DEF c
    <3>3. QED
      BY <2>6, <3>1, <3>2
  <2>8. QED
    BY <2>2, <2>5, <2>6, <2>7
<1>7. CASE ReceiveOutcomes(x)
  <2> DEFINE n == Len(Batch(todo))
  <2>1. context'[x].todo = Rest(todo)
    BY <1>1, <1>7 DEF ReceiveOutcomes, Work, todo
  <2>2. /\ n \in Nat /\ Len(todo) \in Nat /\ Len(Rest(todo)) = Len(todo) - n /\ n <= Len(todo)
        /\ \A k \in 1..Len(Rest(todo)) : Rest(todo)[k] = todo[k + n]
        /\ \A k \in 1..n : Batch(todo)[k] = todo[k]
        /\ Batch(todo) \in Seq(Own) /\ Rest(todo) \in Seq(Own)
    BY <1>1, BatchTypes
  <2>3. j \in 1..Len(Rest(todo)) /\ c = Rest(todo)[j]
    BY <2>1, <2>2 DEF c
  <2> HIDE DEF n
  <2>4. j + n \in DOMAIN todo /\ todo[j + n] = c /\ j \in Nat
    <3>1. Len(Rest(todo)) \in Nat
      BY <2>2
    <3>2. j \in Nat /\ 1 <= j /\ j <= Len(Rest(todo)) /\ todo[j + n] = c
      BY <2>2, <2>3, <3>1
    <3>3. DOMAIN todo = 1..Len(todo)
      BY <1>1
    <3>4. j + n \in 1..Len(todo)
      BY <2>2, <3>1, <3>2
    <3>5. QED
      BY <3>2, <3>3, <3>4
  <2>5. PICK i \in 1..(j + n - 1) : todo[i] = d
    <3>1. \A k \in DOMAIN todo : todo[k] = c => \E i \in 1..(k - 1) : todo[i] = d
      BY <1>3, <1>7 DEF ReceiveOutcomes
    <3>2. j \in Nat /\ n \in Nat
      BY <2>2, <2>4
    <3>3. QED
      BY <2>4, <3>1, <3>2
  <2>6. ~(i <= n)
    <3> SUFFICES ASSUME i <= n PROVE FALSE
      OBVIOUS
    <3>1. i \in 1..n /\ DOMAIN Batch(todo) = 1..n
      BY <2>2, <2>4, <2>5 DEF n
    <3>2. i \in DOMAIN Batch(todo) /\ Batch(todo)[i] = d
      BY <2>2, <2>5, <3>1
    <3>3. QED
      BY <1>1, <1>7, <3>2, OutboxTypes DEF ReceiveOutcomes, Settled, OutboxRow, todo
  <2>7. i - n \in 1..(j - 1) /\ i - n \in 1..Len(Rest(todo)) /\ i - n + n = i
    BY <2>2, <2>3, <2>4, <2>5, <2>6
  <2>8. Rest(todo)[i - n] = d
    BY <2>2, <2>5, <2>7
  <2>9. QED
    BY <2>1, <2>7, <2>8
<1>8. CASE RejectOversized(x)
  <2>1. context'[x].todo = todo
    BY <1>1, <1>8 DEF RejectOversized, Work, todo
  <2>2. d \notin context[x].large
    BY <1>1, <1>8, OutboxTypes DEF RejectOversized, OutboxRow
  <2>3. QED
    BY <1>3, <2>1, <2>2 DEF c
<1>9. QED
  BY <1>4, <1>5, <1>6, <1>7, <1>8, TodoStep DEF todo

(* A failed command was refused before the step, or is by the step. *)
LEMMA FailedStep ==
    ASSUME IInv, OutboxInv, [SyncNext]_syncVars, [ServerNext]_serverVars
    PROVE  FailedWasRefused'
<1> SUFFICES ASSUME NEW c \in Own, c \in DOMAIN outbox', outbox'[c].state = "failed"
             PROVE  retained'[c] = "rejected" \/ c \in Oversized
  BY DEF FailedWasRefused, Failed, Held, Refused
<1>1. SyncTypeOK /\ c \in Command
  BY OwnAssumption DEF OutboxInv
<1>2. CASE c \in DOMAIN outbox /\ outbox[c].state = "failed"
  BY <1>1, <1>2, OutcomeKept DEF OutboxInv, FailedWasRefused, Failed, Held, Refused
<1>3. CASE ~(c \in DOMAIN outbox /\ outbox[c].state = "failed")
  <2>1. outbox' # outbox
    BY <1>3
  <2>2. ASSUME NEW b \in Own, NEW req \in Request, Queue(b, req)
        PROVE  FALSE
    BY <1>3, <2>2, QueueTypes DEF Queue
  <2>3. ASSUME NEW b \in Own, Discard(b)
        PROVE  FALSE
    BY <1>3, <2>3 DEF Discard
  <2>4. ASSUME NEW x \in Context, RejectOversized(x)
        PROVE  c \in Oversized
    BY <1>1, <1>3, <2>4 DEF RejectOversized, SyncTypeOK
  <2>5. ASSUME NEW x \in Context, ReceiveOutcomes(x)
        PROVE  retained'[c] = "rejected"
    BY <1>3, <2>5 DEF ReceiveOutcomes, Settled, serverVars
  <2>6. QED
    BY <2>1, <2>2, <2>3, <2>4, <2>5
       DEF SyncNext, Continue, Others, StartLoop, StartPanel, ReadCursor, AnswerPull,
           AnswerBootstrap, ApplyGroup, WriteCursor, InstallSnapshot, GatherNothing, Gather,
           ReadMetadata, WriteMetadata, SendBatch, FinishDispatch, Serve, Fail, PushFails, tables,
           replicaVars, syncVars
<1>4. QED
  BY <1>2, <1>3

-----------------------------------------------------------------------------
(* What an event shows. *)

(* The row of the first n groups does not change when groups are appended. *)
LEMMA RowFromFeedKept ==
    ASSUME FeedGrows, NEW y, NEW n \in 0..Len(feed)
    PROVE  RowFromFeed(y, n)' = RowFromFeed(y, n)
<1> DEFINE groups == {i \in 1..n : y \in DOMAIN feed[i].records}
<1>1. n \in Nat /\ \A i \in 1..n : feed'[i] = feed[i]
  BY DEF FeedGrows
<1>2. {i \in 1..n : y \in DOMAIN feed'[i].records} = groups
  BY <1>1
<1>3. RowFromFeed(y, n)' = IF groups = {} THEN InitialRow(y)
                           ELSE feed'[CHOOSE i \in groups : \A j \in groups : j <= i].records[y]
  <2> DEFINE after == {i \in 1..n : y \in DOMAIN feed'[i].records}
  <2>1. RowFromFeed(y, n)' = IF after = {} THEN InitialRow(y)
                             ELSE feed'[CHOOSE i \in after : \A j \in after : j <= i].records[y]
    BY DEF RowFromFeed, InitialRow
  <2> HIDE DEF after, groups
  <2>2. after = groups
    BY <1>2 DEF after
  <2>3. QED
    BY <2>1, <2>2
<1>4. groups # {} => (CHOOSE i \in groups : \A j \in groups : j <= i) \in groups
  <2> SUFFICES ASSUME groups # {} PROVE (CHOOSE i \in groups : \A j \in groups : j <= i) \in groups
    OBVIOUS
  <2>1. groups \in SUBSET (0..n)
    BY <1>1
  <2> HIDE DEF groups
  <2>2. \E i \in groups : \A j \in groups : j <= i
    BY <1>1, <2>1, LargestExists
  <2>3. QED
    BY <2>2
<1>5. QED
  BY <1>1, <1>3, <1>4 DEF RowFromFeed

LEMMA EditableKept ==
    ASSUME FeedGrows, NEW e \in Event, canonical' = canonical,
           canonical[e] \in Nat \cup {Absent}, canonical[e] <= Len(feed)
    PROVE  Editable(e, canonical)' <=> Editable(e, canonical)
<1>1. CASE canonical[e] = Absent
  BY <1>1 DEF Editable
<1>2. CASE canonical[e] # Absent
  <2>1. canonical[e] \in 0..Len(feed)
    BY <1>2 DEF FeedGrows
  <2>2. \A n \in 0..Len(feed) : IsArchived(e, n)' <=> IsArchived(e, n)
    BY RowFromFeedKept DEF IsArchived
  <2>3. IsArchived(e, canonical[e])' <=> IsArchived(e, canonical[e])
    BY <2>1, <2>2
  <2>4. QED
    BY <1>2, <2>3 DEF Editable
<1>3. QED
  BY <1>1, <1>2

LEMMA MineTypes ==
    ASSUME OutboxInv, NEW e
    PROVE  /\ Mine(e) \subseteq DOMAIN outbox /\ Mine(e) \subseteq Own
           /\ \A c, d \in Mine(e) : /\ outbox[c].sequence \in Nat
                                    /\ outbox[c].sequence = outbox[d].sequence => c = d
           /\ Mine(e) # {} => /\ Newest(Mine(e), outbox) \in Mine(e)
                              /\ \A d \in Mine(e) : outbox[d].sequence
                                                      <= outbox[Newest(Mine(e), outbox)].sequence
<1>1. Mine(e) \subseteq DOMAIN outbox
  BY DEF Mine, Pending
<1>2. Mine(e) \in SUBSET DOMAIN outbox
  BY <1>1
<1>3. QED
  BY <1>1, <1>2, NewestOfSome, OutboxTypes DEF OutboxInv, Numbered

(* When pending commands leave, the newest stays the newest, if it stays.    *)
LEMMA NewestKept ==
    ASSUME OutboxInv, NEW e, Mine(e)' \subseteq Mine(e), Newest(Mine(e), outbox) \in Mine(e)',
           \A c \in Mine(e)' : outbox'[c].sequence = outbox[c].sequence
    PROVE  Newest(Mine(e)', outbox') = Newest(Mine(e), outbox)
<1> DEFINE c == Newest(Mine(e), outbox)
<1>1. \A d \in Mine(e)' : /\ outbox'[d].sequence \in Nat
                          /\ outbox'[d].sequence <= outbox'[c].sequence
                          /\ outbox'[d].sequence = outbox'[c].sequence => d = c
  BY MineTypes
<1>2. QED
  BY <1>1, NewestIs

(* What the outbox loses makes no event show an older command. *)
LEMMA ShownWhileShrinking ==
    ASSUME OutboxInv, UNCHANGED <<canonical, overlay, request, feed, retained>>, NEW e \in Event,
           Editable(e, canonical)', Mine(e)' # {},
           Mine(e)' \subseteq Mine(e), \A c \in Mine(e)' : outbox'[c].sequence = outbox[c].sequence,
           \/ Newest(Mine(e), outbox) \in Mine(e)'
           \/ Refused(Newest(Mine(e), outbox))
    PROVE  \/ overlay'[e] = Newest(Mine(e)', outbox')
           \/ overlay'[e] \in Own /\ Refused(overlay[e])'
<1>1. Editable(e, canonical) /\ Mine(e) # {}
  BY DEF Editable, IsArchived, RowFromFeed, InitialRow
<1>2. Refused(overlay[e])' <=> Refused(overlay[e])
  BY DEF Refused
<1>3. \/ overlay[e] = Newest(Mine(e), outbox)
      \/ overlay[e] \in Own /\ Refused(overlay[e])
  BY <1>1 DEF OutboxInv, NewestIsShown
<1>4. CASE Newest(Mine(e), outbox) \in Mine(e)'
  BY <1>2, <1>3, <1>4, NewestKept
<1>5. CASE Refused(Newest(Mine(e), outbox))
  BY <1>1, <1>2, <1>3, <1>5, MineTypes
<1>6. QED
  BY <1>4, <1>5

LEMMA ShownAfterRebuild ==
    ASSUME OutboxInv, NEW x \in Context, ApplyGroup(x) \/ InstallSnapshot(x)
    PROVE  NewestIsShown'
<1> SUFFICES ASSUME NEW e \in Event, Editable(e, canonical)', Mine(e)' # {}
             PROVE  overlay'[e] = Newest(Mine(e)', outbox')
  BY DEF NewestIsShown
<1>1. /\ overlay' = Replayed(canonical', outbox)
      /\ outbox' = outbox /\ request' = request /\ feed' = feed
  BY DEF ApplyGroup, InstallSnapshot, RebuildOverlays, serverVars
<1>2. Mine(e)' = {c \in Pending(outbox) : request[c].target = e}
  BY <1>1 DEF Mine, Pending
<1>3. Editable(e, canonical') = Editable(e, canonical)'
  BY <1>1 DEF Editable, IsArchived, RowFromFeed, InitialRow
<1> DEFINE mine == Mine(e)'
<1>4. overlay'[e] = IF Editable(e, canonical') /\ mine # {} THEN Newest(mine, outbox) ELSE NoCommand
  BY <1>1, <1>2 DEF Replayed
<1>5. QED
  BY <1>1, <1>3, <1>4

LEMMA ShownWhileStill ==
    ASSUME IInv, OutboxInv, FeedGrows, [ServerNext]_serverVars, UNCHANGED <<outbox, canonical, overlay>>
    PROVE  NewestIsShown'
<1> SUFFICES ASSUME NEW e \in Event, Editable(e, canonical)', Mine(e)' # {}
             PROVE  \/ overlay'[e] = Newest(Mine(e)', outbox')
                    \/ overlay'[e] \in Own /\ Refused(overlay[e])'
  BY DEF NewestIsShown, Refused
<1>1. /\ SyncTypeOK /\ canonical \in [Entity -> Nat \cup {Absent}]
      /\ \A y \in Entity : canonical[y] <= Len(feed)
  BY DEF OutboxInv, SyncTypeOK, Placed
<1>2. Editable(e, canonical)
  BY <1>1, EditableKept DEF Entity
<1>3. \A c \in Pending(outbox) : request'[c] = request[c]
  BY <1>1, OutboxTypes, RequestKept, OwnAssumption DEF OutboxInv, OwnEdits, Pending
<1>4. Mine(e)' = Mine(e)
  BY <1>3 DEF Mine, Pending
<1>5. \/ overlay[e] = Newest(Mine(e), outbox)
      \/ overlay[e] \in Own /\ Refused(overlay[e])
  BY <1>2, <1>4 DEF OutboxInv, NewestIsShown
<1>6. overlay[e] \in Own /\ Refused(overlay[e]) => Refused(overlay[e])'
  BY OutcomeKept, OwnAssumption DEF Refused
<1>7. QED
  BY <1>4, <1>5, <1>6

LEMMA ShownAfterQueue ==
    ASSUME IInv, OutboxInv, NEW c \in Own, NEW req \in Request, Queue(c, req)
    PROVE  NewestIsShown'
<1> SUFFICES ASSUME NEW e \in Event, Editable(e, canonical)', Mine(e)' # {}
             PROVE  \/ overlay'[e] = Newest(Mine(e)', outbox')
                    \/ overlay'[e] \in Own /\ Refused(overlay[e])'
  BY DEF NewestIsShown, Refused
<1>1. /\ overlay \in [Event -> Own \cup {NoCommand}] /\ DOMAIN outbox \subseteq Own
      /\ request \in [Command -> Request \cup {NoRequest}]
  BY OutboxTypes DEF OutboxInv, SyncTypeOK, TypeOK
<1>2. /\ DOMAIN outbox' = DOMAIN outbox \cup {c} /\ c \notin DOMAIN outbox
      /\ outbox'[c] = [sequence |-> NextSequence, state |-> "pending"]
      /\ \A d \in DOMAIN outbox : outbox'[d] = outbox[d]
      /\ overlay' = [overlay EXCEPT ![req.target] = c]
      /\ UNCHANGED <<canonical, feed, retained>>
  BY QueueTypes DEF Queue, Issue
<1>3. request'[c] = req /\ \A d \in DOMAIN outbox : request'[d] = request[d]
  BY <1>1, <1>2, OwnAssumption DEF Queue, Issue
<1>4. CASE e = req.target
  <2>1. Mine(e)' \subseteq DOMAIN outbox \cup {c} /\ c \in Mine(e)'
    BY <1>2, <1>3, <1>4 DEF Mine, Pending
  <2>2. /\ NextSequence \in Nat
        /\ \A d \in DOMAIN outbox : outbox[d].sequence \in Nat /\ outbox[d].sequence < NextSequence
    BY NextIsLargest, OutboxTypes DEF OutboxInv
  <2>3. \A d \in Mine(e)' : /\ outbox'[d].sequence \in Nat
                            /\ outbox'[d].sequence <= outbox'[c].sequence
                            /\ outbox'[d].sequence = outbox'[c].sequence => d = c
    BY <1>2, <2>1, <2>2
  <2>4. Newest(Mine(e)', outbox') = c
    BY <2>1, <2>3, NewestIs
  <2>5. QED
    BY <1>1, <1>2, <1>4, <2>4
<1>5. CASE e # req.target
  <2>1. Mine(e)' = Mine(e)
    BY <1>2, <1>3, <1>5 DEF Mine, Pending
  <2>2. Editable(e, canonical) /\ overlay'[e] = overlay[e]
    BY <1>1, <1>2, <1>5 DEF Editable, IsArchived, RowFromFeed, InitialRow
  <2>3. \A d \in Mine(e) : outbox'[d] = outbox[d]
    BY <1>2, MineTypes
  <2>4. Newest(Mine(e)', outbox') = Newest(Mine(e), outbox)
    BY <2>1, <2>3, NewestKept, MineTypes
  <2>5. \/ overlay[e] = Newest(Mine(e), outbox)
        \/ overlay[e] \in Own /\ Refused(overlay[e])
    BY <2>1, <2>2 DEF OutboxInv, NewestIsShown
  <2>6. QED
    BY <1>2, <2>2, <2>4, <2>5 DEF Refused
<1>6. QED
  BY <1>4, <1>5

LEMMA ShownAfterDiscard ==
    ASSUME OutboxInv, NEW c \in Own, Discard(c)
    PROVE  NewestIsShown'
<1> SUFFICES ASSUME NEW e \in Event, Editable(e, canonical)', Mine(e)' # {}
             PROVE  \/ overlay'[e] = Newest(Mine(e)', outbox')
                    \/ overlay'[e] \in Own /\ Refused(overlay[e])'
  BY DEF NewestIsShown, Refused
<1>1. UNCHANGED <<canonical, overlay, request, feed, retained>>
  BY DEF Discard, serverVars
<1>2. outbox[c].state # "pending" /\ outbox' = [d \in DOMAIN outbox \ {c} |-> outbox[d]]
  BY DEF Discard
<1>3. Mine(e)' = Mine(e) /\ \A d \in Mine(e) : outbox'[d] = outbox[d]
  BY <1>1, <1>2 DEF Mine, Pending
<1>4. Newest(Mine(e), outbox) \in Mine(e)'
  BY <1>3, MineTypes
<1>5. QED
  BY <1>1, <1>3, <1>4, ShownWhileShrinking

LEMMA ShownAfterRejection ==
    ASSUME OutboxInv, NEW x \in Context, RejectOversized(x)
    PROVE  NewestIsShown'
<1> SUFFICES ASSUME NEW e \in Event, Editable(e, canonical)', Mine(e)' # {}
             PROVE  \/ overlay'[e] = Newest(Mine(e)', outbox')
                    \/ overlay'[e] \in Own /\ Refused(overlay[e])'
  BY DEF NewestIsShown, Refused
<1> DEFINE large == context[x].large
<1>1. UNCHANGED <<canonical, overlay, request, feed, retained>>
  BY DEF RejectOversized, serverVars
<1>2. (\A c \in DOMAIN outbox : outbox[c] \in OutboxRow) /\ large \subseteq Oversized
  BY OutboxTypes DEF OutboxInv, SyncTypeOK
<1>3. outbox' = [c \in DOMAIN outbox |-> IF c \in large
                                        THEN [outbox[c] EXCEPT !.state = "failed"] ELSE outbox[c]]
  BY DEF RejectOversized
<1> HIDE DEF large
<1>4. Mine(e)' = Mine(e) \ large /\ \A c \in Mine(e)' : outbox'[c] = outbox[c]
  BY <1>1, <1>2, <1>3 DEF Mine, Pending, OutboxRow
<1>5. Newest(Mine(e), outbox) \in Mine(e)' \/ Refused(Newest(Mine(e), outbox))
  BY <1>2, <1>4, MineTypes DEF Refused
<1>6. QED
  BY <1>1, <1>4, <1>5, ShownWhileShrinking

(* The commands of a batch are the oldest of those pending: when the newest  *)
(* on an event is settled, the event has none left.                          *)
LEMMA ShownAfterOutcomes ==
    ASSUME OutboxInv, NEW x \in Context, ReceiveOutcomes(x)
    PROVE  NewestIsShown'
<1> SUFFICES ASSUME NEW e \in Event, Editable(e, canonical)', Mine(e)' # {}
             PROVE  \/ overlay'[e] = Newest(Mine(e)', outbox')
                    \/ overlay'[e] \in Own /\ Refused(overlay[e])'
  BY DEF NewestIsShown, Refused
<1> DEFINE todo == context[x].todo
           named == {Batch(todo)[i] : i \in DOMAIN Batch(todo)}
           kept == {c \in DOMAIN outbox : c \in named => retained[c] = "rejected"}
           last == Newest(Mine(e), outbox)
<1>1. UNCHANGED <<canonical, overlay, request, feed, retained>>
  BY DEF ReceiveOutcomes, serverVars
<1>2. \A c \in DOMAIN outbox : outbox[c] \in OutboxRow
  BY OutboxTypes DEF OutboxInv
<1>3. outbox' = [c \in kept |-> IF c \in named THEN [outbox[c] EXCEPT !.state = "failed"] ELSE outbox[c]]
  BY DEF ReceiveOutcomes, Settled
<1>4. Mine(e)' = Mine(e) \ named /\ \A c \in Mine(e)' : outbox'[c] = outbox[c]
  <2> HIDE DEF named
  <2> QED
    BY <1>1, <1>2, <1>3 DEF Mine, Pending, OutboxRow
<1>5. last \in Mine(e)'
  <2> SUFFICES ASSUME last \in named PROVE FALSE
    BY <1>4, MineTypes
  <2>1. todo \in Seq(Own)
    BY DEF OutboxInv, SyncTypeOK
  <2>2. PICK j \in DOMAIN Batch(todo) : Batch(todo)[j] = last
    OBVIOUS
  <2>3. /\ DOMAIN Batch(todo) = 1..Len(Batch(todo)) /\ Len(Batch(todo)) \in Nat
        /\ \A i \in DOMAIN Batch(todo) : i \in DOMAIN todo /\ Batch(todo)[i] = todo[i]
    BY <2>1, BatchTypes
  <2>4. PICK d \in Mine(e)' : TRUE
    OBVIOUS
  <2>5. d \in Mine(e) /\ d \notin named
    BY <1>4
  <2> HIDE DEF last, named
  <2>6. /\ last \in DOMAIN outbox /\ d \in Pending(outbox)
        /\ outbox[d].sequence < outbox[last].sequence
    <3>1. /\ last \in Mine(e) /\ last \in DOMAIN outbox
          /\ outbox[d].sequence \in Nat /\ outbox[last].sequence \in Nat
          /\ outbox[d].sequence <= outbox[last].sequence
          /\ outbox[d].sequence = outbox[last].sequence => d = last
      BY <2>5, MineTypes DEF last
    <3>2. d # last
      BY <2>2, <2>5 DEF named
    <3>3. d \in Pending(outbox)
      BY <2>5 DEF Mine
    <3>4. QED
      BY <3>1, <3>2, <3>3
  <2>7. PICK i \in 1..(j - 1) : todo[i] = d
    BY <2>2, <2>3, <2>6 DEF OutboxInv, EarlierFirst, ReceiveOutcomes
  <2>8. i \in DOMAIN Batch(todo)
    BY <2>2, <2>3, <2>7
  <2>9. QED
    BY <2>3, <2>5, <2>7, <2>8 DEF named
<1>6. QED
  BY <1>1, <1>4, <1>5, ShownWhileShrinking

LEMMA ShownStep ==
    ASSUME IInv, OutboxInv, [SyncNext]_syncVars, FeedGrows, [ServerNext]_serverVars
    PROVE  NewestIsShown'
<1>1. CASE UNCHANGED <<outbox, canonical, overlay>>
  BY <1>1, ShownWhileStill
<1>2. ASSUME NEW c \in Own, NEW req \in Request, Queue(c, req)
      PROVE  NewestIsShown'
  BY <1>2, ShownAfterQueue
<1>3. ASSUME NEW c \in Own, Discard(c)
      PROVE  NewestIsShown'
  BY <1>3, ShownAfterDiscard
<1>4. ASSUME NEW x \in Context, ApplyGroup(x) \/ InstallSnapshot(x) \/ RejectOversized(x)
                                \/ ReceiveOutcomes(x)
      PROVE  NewestIsShown'
  BY <1>4, ShownAfterRebuild, ShownAfterRejection, ShownAfterOutcomes
<1>5. QED
  BY <1>1, <1>2, <1>3, <1>4
     DEF SyncNext, Continue, Others, StartLoop, StartPanel, ReadCursor, AnswerPull, AnswerBootstrap,
         WriteCursor, GatherNothing, Gather, ReadMetadata, WriteMetadata, SendBatch, FinishDispatch,
         Serve, Fail, PushFails, tables, replicaVars, syncVars

-----------------------------------------------------------------------------
(* The invariant. *)

LEMMA OutboxInit ==
    ASSUME SyncInit
    PROVE  IInv /\ OutboxInv
<1> USE DEF SyncInit
<1>1. IInv
  BY InitialInv
<1>2. DOMAIN outbox = {} /\ outbox \in [{} -> OutboxRow] /\ {} \in SUBSET Own
  OBVIOUS
<1>3. Len(feed) = 0
  BY DEF ServerInit
<1>4. SyncTypeOK
  <2>1. TypeOK
    BY <1>1 DEF IInv, Types
  <2>2. context \in [Context -> Work]
    BY RestingIsWork
  <2>3. \E S \in SUBSET Own : outbox \in [S -> OutboxRow]
    BY <1>2
  <2>4. /\ canonical \in [Entity -> Nat \cup {Absent}]
        /\ overlay \in [Event -> Own \cup {NoCommand}]
        /\ flight \in [Context -> Seq(Own)]
    <3>1. <<>> \in Seq(Own)
      OBVIOUS
    <3>2. QED
      BY <3>1
  <2>5. QED
    BY <2>1, <2>2, <2>3, <2>4 DEF SyncTypeOK, Work
<1>5. \A x \in Context : context[x].step = "resting" /\ context[x].todo = <<>>
  BY DEF Resting
<1>6. OwnEdits
  BY <1>2, <1>5, OwnAssumption DEF OwnEdits, ServerInit
<1>7. Numbered
  BY <1>2, FS_EmptySet DEF Numbered
<1>8. Placed
  BY <1>3, <1>5 DEF Placed, Absent, NoCursor
<1>9. Answered /\ EarlierFirst
  BY <1>5 DEF Answered, EarlierFirst
<1>10. FailedWasRefused /\ NewestIsShown
  BY <1>2 DEF FailedWasRefused, Failed, Held, NewestIsShown, Mine, Pending
<1>11. QED
  BY <1>1, <1>4, <1>6, <1>7, <1>8, <1>9, <1>10 DEF OutboxInv

LEMMA OutboxInduction == SyncSpec => [](IInv /\ OutboxInv)
<1>1. SyncInit => IInv /\ OutboxInv
  BY OutboxInit
<1>2. IInv /\ OutboxInv /\ [SyncNext]_syncVars => IInv' /\ OutboxInv'
  <2> SUFFICES ASSUME IInv, OutboxInv, [SyncNext]_syncVars PROVE IInv' /\ OutboxInv'
    OBVIOUS
  <2>1. [ServerNext]_serverVars
    BY ServerStep DEF OutboxInv
  <2>2. IInv' /\ FeedGrows
    BY <2>1, InductiveStep, FeedIsAppended
  <2>3. OutboxInv'
    BY <2>1, <2>2, TypeStep, OwnEditsStep, NumberedStep, PlacedStep, AnsweredStep,
       EarlierFirstStep, FailedStep, ShownStep DEF OutboxInv
  <2>4. QED
    BY <2>2, <2>3
<1>3. QED
  BY <1>1, <1>2, PTL DEF SyncSpec

-----------------------------------------------------------------------------
(* The order of arrival. *)

(* An earlier and a later command of the outbox were so before the step, or  *)
(* the later one has just been queued.                                       *)
LEMMA OrderStep ==
    ASSUME OutboxInv, [SyncNext]_syncVars, NEW c \in DOMAIN outbox', NEW d \in DOMAIN outbox',
           outbox'[c].sequence < outbox'[d].sequence
    PROVE  \/ /\ c \in DOMAIN outbox /\ d \in DOMAIN outbox
              /\ outbox[c].sequence < outbox[d].sequence
           \/ \E req \in Request : d \in Own /\ Queue(d, req)
<1>1. SyncTypeOK /\ Numbered
  BY DEF OutboxInv
<1>2. CASE outbox' = outbox \/ OutboxShrinks
  BY <1>2 DEF OutboxShrinks
<1>3. ASSUME NEW b \in Own, NEW req \in Request, Queue(b, req), d # b
      PROVE  /\ c \in DOMAIN outbox /\ d \in DOMAIN outbox
             /\ outbox[c].sequence < outbox[d].sequence
  <2>1. /\ DOMAIN outbox' = DOMAIN outbox \cup {b}
        /\ outbox'[b].sequence = NextSequence
        /\ \A e \in DOMAIN outbox : e # b => outbox'[e] = outbox[e]
    BY <1>3 DEF Queue
  <2>2. /\ NextSequence \in Nat
        /\ \A e \in DOMAIN outbox : outbox[e].sequence \in Nat /\ outbox[e].sequence < NextSequence
    BY <1>1, NextIsLargest, OutboxTypes
  <2>3. c # b
    BY <1>3, <2>1, <2>2
  <2>4. QED
    BY <1>3, <2>1, <2>3
<1>4. QED
  BY <1>2, <1>3, OutboxStep

(* One of this browser's commands gets an outcome only by a push. *)
LEMMA OutcomeStep ==
    ASSUME IInv, OutboxInv, [SyncNext]_syncVars, NEW d \in Own, retained'[d] # retained[d]
    PROVE  \E x \in Context : Serve(x) /\ Head(flight[x]) = d
<1>1. retained \in [Command -> Outcome \cup {"none"}] /\ d \in Command
  BY OwnAssumption DEF IInv, Types, TypeOK
<1>2. ASSUME NEW c \in Command, c # d, Deliver(c)
      PROVE  FALSE
  BY <1>1, <1>2 DEF Deliver, Replay, UpdateBaseAttendance, SetRecipeAttendance,
     SetRecipeLifecycle, SetEventLifecycle, RefuseEventLifecycle, RetainLifecycleRejection,
     LoseLifecycleRejection, Reject, Conclude
<1>3. ~Others
  BY <1>2 DEF Others, Issue, Tick
<1>4. ASSUME NEW x \in Context, Serve(x)
      PROVE  Head(flight[x]) = d
  <2>1. Head(flight[x]) \in Command
    BY <1>4, OwnAssumption DEF Serve, OutboxInv, SyncTypeOK
  <2>2. QED
    BY <1>2, <1>4, <2>1 DEF Serve
<1>5. QED
  BY <1>3, <1>4 DEF SyncNext, Continue, Queue, Issue, Discard, StartLoop, StartPanel, ReadCursor,
     AnswerPull, AnswerBootstrap, ApplyGroup, WriteCursor, InstallSnapshot, GatherNothing, Gather,
     RejectOversized, ReadMetadata, WriteMetadata, SendBatch, FinishDispatch, ReceiveOutcomes, Fail,
     PushFails, serverVars, syncVars

(* The commands of a batch go out after those before them. *)
LEMMA SendPrecedes ==
    ASSUME OutboxInv, NEW x \in Context, SendBatch(x), NEW k \in DOMAIN flight'[x],
           NEW d \in DOMAIN outbox, flight'[x][k] \in DOMAIN outbox,
           outbox[d].sequence < outbox[flight'[x][k]].sequence
    PROVE  \/ retained[d] # "none" \/ d \in Oversized
           \/ \E i \in 1..(k - 1) : flight'[x][i] = d
<1> DEFINE todo == context[x].todo
<1>1. todo \in Seq(Own) /\ flight'[x] = Batch(todo)
  BY DEF OutboxInv, SyncTypeOK, SendBatch
<1>2. /\ DOMAIN Batch(todo) = 1..Len(Batch(todo)) /\ Len(Batch(todo)) \in Nat
      /\ \A i \in DOMAIN Batch(todo) : i \in DOMAIN todo /\ Batch(todo)[i] = todo[i]
  BY <1>1, BatchIsPrefix
<1>3. k \in DOMAIN Batch(todo) /\ k \in DOMAIN todo /\ flight'[x][k] = todo[k] /\ k \in Nat
  BY <1>1, <1>2
<1>4. outbox[d] \in OutboxRow /\ d \in Own
  BY OutboxTypes DEF OutboxInv
<1>5. CASE outbox[d].state = "failed"
  BY <1>4, <1>5 DEF OutboxInv, FailedWasRefused, Failed, Held, Refused
<1>6. CASE outbox[d].state = "pending"
  <2>1. d \in Pending(outbox)
    BY <1>6 DEF Pending
  <2>2. PICK i \in 1..(k - 1) : todo[i] = d
    BY <1>3, <2>1 DEF OutboxInv, EarlierFirst, SendBatch
  <2>3. i \in DOMAIN Batch(todo)
    BY <1>2, <1>3, <2>2
  <2>4. QED
    BY <1>1, <1>2, <2>2, <2>3
<1>7. QED
  BY <1>4, <1>5, <1>6 DEF OutboxRow

LEMMA PrecededStep ==
    ASSUME IInv, OutboxInv, Preceded, [SyncNext]_syncVars, [ServerNext]_serverVars
    PROVE  Preceded'
<1> SUFFICES ASSUME NEW x \in Context, NEW k \in DOMAIN flight'[x]
             PROVE  /\ request'[flight'[x][k]] # NoRequest
                    /\ \A d \in DOMAIN outbox' :
                          flight'[x][k] \in DOMAIN outbox'
                          /\ outbox'[d].sequence < outbox'[flight'[x][k]].sequence
                          => \/ retained'[d] # "none" \/ d \in Oversized
                             \/ \E i \in 1..(k - 1) : flight'[x][i] = d
  BY DEF Preceded
<1> DEFINE c == flight'[x][k]
<1>1. flight \in [Context -> Seq(Own)] /\ flight[x] \in Seq(Own) /\ context[x].todo \in Seq(Own)
  BY DEF OutboxInv, SyncTypeOK
<1>2. ASSUME Serve(x)
      PROVE  /\ flight'[x] = Tail(flight[x]) /\ flight[x] # <<>>
             /\ k \in Nat \ {0} /\ k + 1 \in DOMAIN flight[x] /\ c = flight[x][k + 1]
             /\ \A i \in 2..k : flight'[x][i - 1] = flight[x][i]
  BY <1>1, <1>2 DEF Serve
<1>3. ASSUME Fail(x) \/ PushFails(x)
      PROVE  flight'[x] = flight[x]
  BY <1>1, <1>3 DEF Fail, PushFails
<1>4. c \in Own /\ request[c] # NoRequest
  <2>1. CASE flight'[x] = flight[x]
    BY <1>1, <2>1 DEF Preceded
  <2>2. CASE Serve(x)
    BY <1>1, <1>2, <2>2 DEF Preceded
  <2>3. CASE SendBatch(x)
    <3>1. flight'[x] = Batch(context[x].todo)
      BY <1>1, <2>3 DEF SendBatch
    <3>2. k \in DOMAIN context[x].todo /\ c = context[x].todo[k]
      BY <1>1, <3>1, BatchIsPrefix
    <3>3. QED
      BY <1>1, <3>2 DEF OutboxInv, OwnEdits
  <2>4. QED
    BY <1>3, <2>1, <2>2, <2>3, FlightStep
<1>5. request'[c] = request[c] /\ c \in Command
  BY <1>4, RequestKept, OwnAssumption
<1>6. ASSUME NEW d \in DOMAIN outbox', c \in DOMAIN outbox',
             outbox'[d].sequence < outbox'[c].sequence
      PROVE  \/ retained'[d] # "none" \/ d \in Oversized
             \/ \E i \in 1..(k - 1) : flight'[x][i] = d
  <2>1. /\ d \in DOMAIN outbox /\ c \in DOMAIN outbox
        /\ outbox[d].sequence < outbox[c].sequence
    BY <1>4, <1>6, OrderStep DEF Queue, Issue
  <2>2. d \in Own /\ d \in Command
    BY <2>1, OutboxTypes, OwnAssumption DEF OutboxInv
  <2>3. retained[d] # "none" => retained'[d] # "none"
    BY <2>2, OutcomeKept
  <2>4. CASE flight'[x] = flight[x]
    BY <2>1, <2>3, <2>4 DEF Preceded
  <2>5. CASE Serve(x)
    <3>1. \/ retained[d] # "none" \/ d \in Oversized
          \/ \E i \in 1..k : flight[x][i] = d
      <4>1. PICK j \in DOMAIN flight[x] : j = k + 1 /\ flight[x][j] = c
        BY <1>2, <2>5
      <4>2. \/ retained[d] # "none" \/ d \in Oversized
            \/ \E i \in 1..(j - 1) : flight[x][i] = d
        <5> HIDE DEF c
        <5>1. QED
          BY <2>1, <4>1 DEF Preceded
      <4>3. j - 1 = k
        BY <1>2, <2>5, <4>1
      <4>4. QED
        BY <4>2, <4>3
    <3>2. ASSUME NEW i \in 1..k, flight[x][i] = d
          PROVE  retained'[d] # "none" \/ \E j \in 1..(k - 1) : flight'[x][j] = d
      <4>1. CASE i = 1
        <5>1. Deliver(d)
          BY <1>1, <2>5, <3>2, <4>1 DEF Serve
        <5>2. QED
          BY <2>2, <5>1, OwnIsAnswered DEF OutboxInv
      <4>2. CASE i # 1
        <5>1. i \in 2..k /\ i - 1 \in 1..(k - 1)
          BY <1>2, <2>5, <4>2
        <5>2. QED
          BY <1>2, <2>5, <3>2, <5>1
      <4>3. QED
        BY <4>1, <4>2
    <3>3. QED
      BY <2>3, <3>1, <3>2
  <2>6. CASE SendBatch(x)
    BY <2>1, <2>3, <2>6, SendPrecedes
  <2>7. QED
    BY <1>3, <2>4, <2>5, <2>6, FlightStep
<1>7. QED
  BY <1>4, <1>5, <1>6

LEMMA InOrderStep ==
    ASSUME IInv, OutboxInv, SentInv, [SyncNext]_syncVars, [ServerNext]_serverVars
    PROVE  ServedInOrder'
<1> SUFFICES ASSUME NEW c \in DOMAIN outbox', NEW d \in DOMAIN outbox',
                    outbox'[c].sequence < outbox'[d].sequence, retained'[d] # "none"
             PROVE  retained'[c] # "none" \/ c \in Oversized
  BY DEF ServedInOrder
<1>1. CASE \E req \in Request : d \in Own /\ Queue(d, req)
  <2>1. request[d] = NoRequest /\ retained'[d] = retained[d] /\ d \in Command
    BY <1>1, OwnAssumption DEF Queue, Issue
  <2>2. QED
    BY <2>1 DEF IInv, Decided
<1>2. CASE /\ c \in DOMAIN outbox /\ d \in DOMAIN outbox
           /\ outbox[c].sequence < outbox[d].sequence
  <2>1. c \in Own /\ d \in Own /\ c \in Command
    BY <1>2, OutboxTypes, OwnAssumption DEF OutboxInv
  <2>2. retained[c] # "none" => retained'[c] # "none"
    BY <2>1, OutcomeKept
  <2>3. CASE retained'[d] = retained[d]
    BY <1>2, <2>2, <2>3 DEF SentInv, ServedInOrder
  <2>4. CASE retained'[d] # retained[d]
    <3>1. PICK x \in Context : Serve(x) /\ Head(flight[x]) = d
      BY <2>1, <2>4, OutcomeStep
    <3>2. 1 \in DOMAIN flight[x] /\ flight[x][1] = d
      BY <3>1 DEF Serve, OutboxInv, SyncTypeOK
    <3>3. retained[c] # "none" \/ c \in Oversized \/ \E i \in 1..(1 - 1) : flight[x][i] = c
      BY <1>2, <3>2 DEF SentInv, Preceded
    <3>4. QED
      BY <2>2, <3>3
  <2>5. QED
    BY <2>3, <2>4
<1>3. QED
  BY <1>1, <1>2, OrderStep

LEMMA SentInduction == SyncSpec => []SentInv
<1>1. SyncInit => SentInv
  BY DEF SyncInit, SentInv, Preceded, ServedInOrder
<1>2. IInv /\ OutboxInv /\ SentInv /\ [SyncNext]_syncVars => SentInv'
  <2> SUFFICES ASSUME IInv, OutboxInv, SentInv, [SyncNext]_syncVars PROVE SentInv'
    OBVIOUS
  <2>1. [ServerNext]_serverVars
    BY ServerStep DEF OutboxInv
  <2>2. QED
    BY <2>1, PrecededStep, InOrderStep DEF SentInv
<1>3. QED
  BY <1>1, <1>2, OutboxInduction, PTL DEF SyncSpec

-----------------------------------------------------------------------------
(* Who holds the cursor. *)

LEMMA CoversKept ==
    ASSUME FeedGrows, canonical' = canonical, NEW n \in Int, n <= Len(feed), Covers(n)
    PROVE  Covers(n)'
  BY DEF Covers, FeedGrows

LEMMA QuietHold ==
    ASSUME OutboxInv, HoldInv, FeedGrows, UNCHANGED <<canonical, cursor, context>>
    PROVE  HoldInv'
<1>1. /\ cursor \in Int
      /\ cursor <= Len(feed)
      /\ Len(feed) \in Nat
      /\ Len(feed)' \in Nat
      /\ Len(feed) <= Len(feed)'
  BY DEF OutboxInv, SyncTypeOK, Placed, NoCursor, FeedGrows
<1>2. Covers(cursor)'
  BY <1>1, CoversKept DEF HoldInv
<1>3. ASSUME NEW x \in Context
      PROVE  Pulling(context[x])'
  <2>1. CASE context[x].step = "applying"
    <3> DEFINE n == context[x].at
    <3>1. n \in Nat /\ cursor <= n /\ n <= Len(feed) /\ Covers(n)
      BY <2>1 DEF HoldInv, Pulling, OutboxInv, Placed
    <3>2. Covers(n)'
      BY <1>1, <3>1, CoversKept
    <3>3. QED
      BY <1>1, <2>1, <3>1, <3>2 DEF Pulling
  <2>2. CASE context[x].step # "applying"
    BY <2>2 DEF HoldInv, Pulling
  <2>3. QED
    BY <2>1, <2>2
<1>4. QED
  BY <1>2, <1>3 DEF HoldInv

(* A step that stores and claims nothing disturbs no other context. *)
LEMMA MoveHolds ==
    ASSUME OutboxInv, HoldInv, NEW x \in Context, NEW w, UNCHANGED <<feed, canonical, cursor>>,
           context' = [context EXCEPT ![x] = w], Pulling(w)'
    PROVE  HoldInv'
<1>1. context \in [Context -> Work]
  BY DEF OutboxInv, SyncTypeOK, Work
<1>2. Covers(cursor)'
  BY DEF HoldInv, Covers
<1>3. ASSUME NEW y \in Context, y # x
      PROVE  Pulling(context[y])'
  <2>1. context'[y] = context[y]
    BY <1>1, <1>3
  <2>2. \A n : Covers(n) => Covers(n)'
    BY DEF Covers
  <2>3. QED
    BY <2>1, <2>2 DEF HoldInv, Pulling
<1>4. Pulling(context[x])'
  BY <1>1 DEF Pulling
<1>5. QED
  BY <1>2, <1>3, <1>4 DEF HoldInv

(* What the one that holds the cursor stores and claims is its own affair. *)
LEMMA HolderMoves ==
    ASSUME OutboxInv, CursorHeldOnce, NEW x \in Context, HoldsCursor(x), NEW w,
           context' = [context EXCEPT ![x] = w], Covers(cursor)', Pulling(w)'
    PROVE  HoldInv'
<1>1. context \in [Context -> Work]
  BY DEF OutboxInv, SyncTypeOK, Work
<1>2. \A y \in Context : y # x => ~HoldsCursor(y) /\ context'[y] = context[y]
  BY <1>1 DEF CursorHeldOnce
<1>3. context'[x] = w
  BY <1>1
<1>4. \A y \in Context : Pulling(context[y])'
  BY <1>2, <1>3 DEF Pulling, HoldsCursor
<1>5. QED
  BY <1>4 DEF HoldInv

(* The steps that neither store nor claim anything. *)
LEMMA WorkHolds ==
    ASSUME OutboxInv, HoldInv, NEW x \in Context,
           \/ StartLoop(x) \/ StartPanel(x) \/ ReadCursor(x) \/ AnswerPull(x) \/ AnswerBootstrap(x)
           \/ GatherNothing(x) \/ Gather(x) \/ RejectOversized(x) \/ ReadMetadata(x)
           \/ SendBatch(x) \/ FinishDispatch(x) \/ ReceiveOutcomes(x) \/ Fail(x) \/ PushFails(x)
    PROVE  HoldInv'
<1>1. context \in [Context -> Work] /\ cursor \in Nat \cup {NoCursor}
  BY DEF OutboxInv, SyncTypeOK, Work
<1>2. UNCHANGED <<feed, canonical, cursor>>
  BY DEF StartLoop, StartPanel, ReadCursor, AnswerPull, AnswerBootstrap, GatherNothing, Gather,
     RejectOversized, ReadMetadata, SendBatch, FinishDispatch, ReceiveOutcomes, Fail, PushFails,
     tables, serverVars
<1>3. ASSUME NEW w, context' = [context EXCEPT ![x] = w],
             w.step \notin {"asking", "applying", "saving"}
      PROVE  HoldInv'
  <2>1. Pulling(w)'
    BY <1>3 DEF Pulling
  <2>2. QED
    BY <1>2, <1>3, <2>1, MoveHolds
<1>4. CASE StartLoop(x) \/ StartPanel(x)
  <2>1. PICK stage : context' = [context EXCEPT ![x].step = "reading", ![x].stage = stage]
    BY <1>4 DEF StartLoop, StartPanel
  <2> DEFINE w == [context[x] EXCEPT !.step = "reading", !.stage = stage]
  <2>2. context' = [context EXCEPT ![x] = w] /\ w.step = "reading"
    BY <1>1, <2>1 DEF Work
  <2> HIDE DEF w
  <2>3. QED
    BY <1>3, <2>2
<1>5. CASE ReadCursor(x) \/ ReadMetadata(x)
  <2>1. PICK step \in {"asking", "saving"} :
             context' = [context EXCEPT ![x].step = step, ![x].at = cursor]
    BY <1>5 DEF ReadCursor, ReadMetadata
  <2> PICK w : w = [context[x] EXCEPT !.step = step, !.at = cursor]
    OBVIOUS
  <2>2. context' = [context EXCEPT ![x] = w]
    BY <2>1
  <2>3. w.step = step /\ w.at = cursor
    BY <1>1 DEF Work
  <2>4. QED
    BY <1>2, <2>1, <2>2, <2>3, MoveHolds DEF Pulling
<1>6. CASE AnswerPull(x)
  <2> DEFINE upto == PageEnd(context[x].at)
  <2> PICK w : w = [context[x] EXCEPT !.step = "applying", !.upto = upto,
                                      !.more = (upto > context[x].at)]
    OBVIOUS
  <2>1. context' = [context EXCEPT ![x] = w] /\ context[x].at = cursor /\ context[x].at # NoCursor
    BY <1>6 DEF AnswerPull, HoldInv, Pulling
  <2>2. w.step = "applying" /\ w.at = cursor
    BY <1>1, <2>1 DEF Work
  <2>3. cursor <= cursor /\ cursor <= Len(feed) /\ Covers(cursor)
    BY <1>1, <2>1 DEF OutboxInv, Placed, HoldInv
  <2>4. Pulling(w)'
    BY <1>2, <2>2, <2>3 DEF Pulling, Covers
  <2>5. QED
    BY <1>2, <2>1, <2>4, MoveHolds
<1>7. CASE AnswerBootstrap(x)
  <2> DEFINE w == [context[x] EXCEPT !.step = "installing", !.upto = Len(feed), !.more = TRUE]
  <2>1. context' = [context EXCEPT ![x] = w] /\ w.step = "installing"
    BY <1>1, <1>7 DEF AnswerBootstrap, Work
  <2> HIDE DEF w
  <2>2. QED
    BY <1>3, <2>1
<1>8. CASE Gather(x)
  <2>1. PICK todo : context' = [context EXCEPT ![x].step = "sizing", ![x].todo = todo,
                                               ![x].large = Pending(outbox) \cap Oversized]
    BY <1>8 DEF Gather
  <2> DEFINE w == [context[x] EXCEPT !.step = "sizing", !.todo = todo,
                                     !.large = Pending(outbox) \cap Oversized]
  <2>2. context' = [context EXCEPT ![x] = w] /\ w.step = "sizing"
    BY <1>1, <2>1 DEF Work
  <2> HIDE DEF w
  <2>3. QED
    BY <1>3, <2>2
<1>9. CASE RejectOversized(x) \/ SendBatch(x)
  <2>1. /\ [context[x] EXCEPT !.step = "noting", !.large = {}].step = "noting"
        /\ [context[x] EXCEPT !.step = "waiting"].step = "waiting"
    BY <1>1 DEF Work
  <2>2. CASE RejectOversized(x)
    BY <1>3, <2>1, <2>2 DEF RejectOversized
  <2>3. CASE SendBatch(x)
    BY <1>3, <2>1, <2>3 DEF SendBatch
  <2>4. QED
    BY <1>9, <2>2, <2>3
<1>10. CASE ReceiveOutcomes(x)
  <2> DEFINE w == [context[x] EXCEPT !.step = "sending", !.todo = Rest(@)]
  <2>1. context' = [context EXCEPT ![x] = w] /\ w.step = "sending"
    BY <1>1, <1>10 DEF ReceiveOutcomes, Work
  <2> HIDE DEF w
  <2>2. QED
    BY <1>3, <2>1
<1>11. CASE GatherNothing(x) \/ FinishDispatch(x) \/ Fail(x) \/ PushFails(x)
  <2>1. PICK w \in {Draining, Resting, [Resting EXCEPT !.step = "noting", !.stage = "drain"],
                    [Resting EXCEPT !.step = "noting"]} : context' = [context EXCEPT ![x] = w]
    BY <1>11 DEF GatherNothing, FinishDispatch, Fail, PushFails
  <2>2. /\ Draining.step = "reading" /\ Resting.step = "resting"
        /\ [Resting EXCEPT !.step = "noting", !.stage = "drain"].step = "noting"
        /\ [Resting EXCEPT !.step = "noting"].step = "noting"
    BY DEF Resting, Draining
  <2>3. w.step \notin {"asking", "applying", "saving"}
    BY <2>1, <2>2
  <2>4. QED
    BY <1>3, <2>1, <2>3
<1>12. QED
  BY <1>4, <1>5, <1>6, <1>7, <1>8, <1>9, <1>10, <1>11

(* A group is applied after all those before it. *)
LEMMA ApplyHolds ==
    ASSUME IInv, OutboxInv, HoldInv, CursorHeldOnce, NEW x \in Context, ApplyGroup(x)
    PROVE  HoldInv'
<1> PICK i : i = context[x].at + 1
  OBVIOUS
<1> PICK w : w = [context[x] EXCEPT !.at = i]
  OBVIOUS
<1>1. /\ context \in [Context -> Work] /\ canonical \in [Entity -> Nat \cup {Absent}]
      /\ cursor \in Nat \cup {NoCursor}
  BY DEF OutboxInv, SyncTypeOK, Work
<1>2. /\ context[x].at \in Nat /\ i \in Nat /\ i <= Len(feed) /\ Len(feed) \in Nat
      /\ cursor < i /\ cursor \in Int /\ Covers(context[x].at)
  BY <1>1 DEF ApplyGroup, OutboxInv, Placed, Work, HoldInv, Pulling, NoCursor, IInv, Types
<1>3. /\ UNCHANGED <<feed, cursor>> /\ context' = [context EXCEPT ![x] = w] /\ context[x].step = "applying"
      /\ canonical' = [y \in Entity |-> IF y \in DOMAIN feed[i].records THEN i ELSE canonical[y]]
  BY DEF ApplyGroup, serverVars
<1>4. w.step = "applying" /\ w.at = i
  BY <1>1, <1>3 DEF Work
<1>5. \A y \in Entity, k \in 1..i : y \in DOMAIN feed[k].records =>
         canonical'[y] >= k \/ (canonical'[y] = Absent /\ y \in Recipe)
  <2> SUFFICES ASSUME NEW y \in Entity, NEW k \in 1..i, y \in DOMAIN feed[k].records
               PROVE  canonical'[y] >= k \/ (canonical'[y] = Absent /\ y \in Recipe)
    OBVIOUS
  <2>1. k \in Nat /\ k <= i
    BY <1>2
  <2>2. CASE y \in DOMAIN feed[i].records
    BY <1>2, <1>3, <2>1, <2>2
  <2>3. CASE y \notin DOMAIN feed[i].records
    <3>1. canonical'[y] = canonical[y] /\ k # i
      BY <1>3, <2>3
    <3>2. k \in 1..(context[x].at)
      BY <1>2, <2>1, <3>1
    <3>3. QED
      BY <1>2, <3>1, <3>2 DEF Covers
  <2>4. QED
    BY <2>2, <2>3
<1>6. ASSUME NEW n \in Int, n <= i
      PROVE  Covers(n)'
  BY <1>2, <1>3, <1>5, <1>6 DEF Covers
<1>7. Covers(cursor)' /\ Covers(i)'
  BY <1>2, <1>3, <1>6
<1>8. Pulling(w)'
  BY <1>2, <1>3, <1>4, <1>7 DEF Pulling
<1>9. QED
  BY <1>3, <1>7, <1>8, HolderMoves DEF HoldsCursor

(* The cursor claims what has been applied, what the snapshot holds, or what *)
(* it claimed before.                                                        *)
LEMMA ClaimHolds ==
    ASSUME OutboxInv, HoldInv, CursorHeldOnce, NEW x \in Context,
           WriteCursor(x) \/ InstallSnapshot(x) \/ WriteMetadata(x)
    PROVE  HoldInv'
<1>1. HoldsCursor(x) /\ UNCHANGED feed
  BY DEF WriteCursor, InstallSnapshot, WriteMetadata, HoldsCursor, serverVars
<1>2. context[x].upto \in Nat
  BY DEF OutboxInv, SyncTypeOK
<1>3. Covers(cursor)'
  <2>1. CASE WriteCursor(x)
    <3>1. Covers(context[x].upto) /\ canonical' = canonical /\ cursor' = context[x].upto
      BY <2>1 DEF WriteCursor, HoldInv, Pulling
    <3>2. QED
      BY <1>1, <3>1 DEF Covers
  <2>2. CASE InstallSnapshot(x)
    <3>1. canonical' = Snapshot(context[x].upto) /\ cursor' = context[x].upto
      BY <2>2 DEF InstallSnapshot
    <3>2. \A y \in Entity : canonical'[y] = cursor' \/ (canonical'[y] = Absent /\ y \in Recipe)
      BY <3>1 DEF Snapshot
    <3>3. QED
      BY <1>2, <3>1, <3>2 DEF Covers
  <2>3. CASE WriteMetadata(x)
    <3>1. cursor' = cursor /\ canonical' = canonical
      BY <2>3 DEF WriteMetadata, HoldInv, Pulling
    <3>2. QED
      BY <1>1, <3>1 DEF HoldInv, Covers
  <2>4. QED
    BY <2>1, <2>2, <2>3
<1>4. PICK w : context' = [context EXCEPT ![x] = w] /\ w.step \notin {"asking", "applying", "saving"}
  <2>1. AfterPull(x).step \notin {"asking", "applying", "saving"}
    BY DEF AfterPull, Resting
  <2>2. [context[x] EXCEPT !.step = "sending"].step = "sending"
    BY DEF OutboxInv, SyncTypeOK
  <2>3. AfterNote(x).step \notin {"asking", "applying", "saving"}
    BY <2>2 DEF AfterNote, Draining, Resting
  <2>4. QED
    BY <2>1, <2>3 DEF WriteCursor, InstallSnapshot, WriteMetadata
<1>5. Pulling(w)'
  BY <1>4 DEF Pulling
<1>6. QED
  BY <1>1, <1>3, <1>4, <1>5, HolderMoves

LEMMA HoldStep ==
    ASSUME IInv, OutboxInv, HoldInv, CursorHeldOnce, [SyncNext]_syncVars
    PROVE  HoldInv'
<1>1. FeedGrows
  BY ServerStep, FeedIsAppended DEF OutboxInv
<1>2. CASE UNCHANGED <<canonical, cursor, context>>
  BY <1>1, <1>2, QuietHold
<1>3. ASSUME NEW x \in Context, StartLoop(x) \/ StartPanel(x) \/ Continue(x) \/ Fail(x) \/ PushFails(x)
      PROVE  HoldInv'
  BY <1>2, <1>3, WorkHolds, ApplyHolds, ClaimHolds DEF Continue, Serve, tables
<1>4. QED
  BY <1>2, <1>3 DEF SyncNext, Others, Queue, Discard, replicaVars, syncVars, tables

-----------------------------------------------------------------------------
(* Every variable keeps its type: contexts that interleave at every await    *)
(* never leave the tables of the browser ill-formed.                         *)
THEOREM ReplicaTypes == SyncSpec => []SyncTypeOK
<1>1. OutboxInv => SyncTypeOK
  BY DEF OutboxInv
<1>2. QED
  BY <1>1, OutboxInduction, PTL

(* Whatever the replica does, the server under it behaves as CommandService  *)
(* says, so that all that is proved of the server holds of the whole.        *)
THEOREM ServerImplemented == SyncSpec => ServerSpec
<1>1. SyncInit => ServerInit
  BY DEF SyncInit
<1>2. OutboxInv /\ [SyncNext]_syncVars => [ServerNext]_serverVars
  BY ServerStep DEF OutboxInv
<1>3. QED
  BY <1>1, <1>2, OutboxInduction, PTL DEF SyncSpec, ServerSpec

(* A command marked failed was never applied: work offered for recovery is   *)
(* work the server refused, or that was too large to be sent.                *)
THEOREM FailedRefused == SyncSpec => []FailedWasRefused
<1>1. OutboxInv => FailedWasRefused
  BY DEF OutboxInv
<1>2. QED
  BY <1>1, OutboxInduction, PTL

(* Whichever groups and snapshots arrive meanwhile, an event shows the last  *)
(* of the pending edits made to it, or an edit that failed since.            *)
THEOREM PendingShown == SyncSpec => []PendingEditsAreShown
<1>1. OutboxInv => PendingEditsAreShown
  <2> SUFFICES ASSUME OutboxInv, NEW e \in Event, Replayed(canonical, outbox)[e] # NoCommand,
                      overlay[e] # Replayed(canonical, outbox)[e]
               PROVE  overlay[e] \in Own /\ Refused(overlay[e])
    BY DEF PendingEditsAreShown
  <2>1. Replayed(canonical, outbox)[e] = IF Editable(e, canonical) /\ Mine(e) # {}
                                         THEN Newest(Mine(e), outbox) ELSE NoCommand
    BY DEF Replayed, Mine
  <2>2. QED
    BY <2>1 DEF OutboxInv, NewestIsShown
<1>2. QED
  BY <1>1, OutboxInduction, PTL

(* A command leaves the outbox only after the server applied it, or when it  *)
(* had failed and the user discards it: no crash, lost response or second    *)
(* tab loses an intent.                                                      *)
THEOREM IntentsKept == SyncSpec => NoIntentIsLost
<1> DEFINE Kept == \A c \in Own : Held(c) /\ ~Held(c)' => retained[c] \in Applied \/ Failed(c)
<1>1. IInv /\ OutboxInv /\ [SyncNext]_syncVars => [Kept]_syncVars
  <2> SUFFICES ASSUME IInv, OutboxInv, SyncNext, NEW c \in Own, Held(c), ~Held(c)'
               PROVE  retained[c] \in Applied \/ Failed(c)
    BY DEF syncVars
  <2>1. c \in DOMAIN outbox /\ c \notin DOMAIN outbox'
    BY DEF Held
  <2>2. ASSUME NEW d \in Own, Discard(d)
        PROVE  Failed(c)
    BY <2>1, <2>2 DEF Discard, Failed, Held
  <2>3. ASSUME NEW x \in Context, ReceiveOutcomes(x)
        PROVE  retained[c] \in Applied
    <3> DEFINE batch == Batch(context[x].todo)
    <3>1. PICK i \in DOMAIN batch : batch[i] = c
      BY <2>1, <2>3 DEF ReceiveOutcomes, Settled
    <3>2. retained[c] # "rejected"
      BY <2>1, <2>3 DEF ReceiveOutcomes, Settled
    <3>3. flight[x] = <<>> /\ context[x].step = "waiting"
      BY <2>3 DEF ReceiveOutcomes
    <3>4. retained[c] # "none"
      BY <3>1, <3>3 DEF OutboxInv, Answered
    <3>5. retained[c] \in Outcome \cup {"none"}
      BY OwnAssumption DEF IInv, Types, TypeOK
    <3>6. QED
      BY <3>2, <3>4, <3>5 DEF Outcome, Applied
  <2>4. ASSUME NEW d \in Own, NEW req \in Request, Queue(d, req)
        PROVE  FALSE
    BY <2>1, <2>4 DEF Queue
  <2>5. ASSUME NEW x \in Context, RejectOversized(x)
        PROVE  FALSE
    BY <2>1, <2>5 DEF RejectOversized
  <2>6. outbox' # outbox
    BY <2>1
  <2>7. QED
    BY <2>2, <2>3, <2>4, <2>5, <2>6
       DEF SyncNext, Continue, Others, StartLoop, StartPanel, ReadCursor, AnswerPull,
           AnswerBootstrap, ApplyGroup, WriteCursor, InstallSnapshot, GatherNothing, Gather,
           ReadMetadata, WriteMetadata, SendBatch, FinishDispatch, Serve, Fail, PushFails, tables,
           replicaVars
<1>2. QED
  BY <1>1, OutboxInduction, PTL DEF SyncSpec, NoIntentIsLost

(* No command overtakes an earlier one of the same browser, in any request   *)
(* of any tab, retried or not: what a later edit builds on has been decided  *)
(* when it is.                                                               *)
THEOREM ServedInTurn == SyncSpec => []ServedInOrder
<1>1. SentInv => ServedInOrder
  BY DEF SentInv
<1>2. QED
  BY <1>1, SentInduction, PTL

(* No lock, no tab and no component is trusted: whatever pulls and pushes    *)
(* run at once and wherever they fail, the cursor claims a group that the    *)
(* replica does not hold only after one of them stored something between     *)
(* another's reading of the cursor and its writing.                          *)
THEOREM CursorsCovered == SyncSpec => SerialCursorCovers
<1>1. SyncInit => HoldInv
  BY DEF SyncInit, HoldInv, Covers, Pulling, Resting, NoCursor
<1>2. IInv /\ OutboxInv /\ HoldInv /\ CursorHeldOnce /\ [SyncNext]_syncVars => HoldInv'
  BY HoldStep
<1>3. HoldInv => CursorCoversCanonical
  BY DEF HoldInv, Covers, CursorCoversCanonical
<1>4. QED
  BY <1>1, <1>2, <1>3, OutboxInduction, PTL DEF SyncSpec, SerialCursorCovers
=============================================================================
