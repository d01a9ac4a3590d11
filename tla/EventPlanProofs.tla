--------------------------- MODULE EventPlanProofs ---------------------------
(***************************************************************************)
(* Theorems of EventPlan, for any plans to start from, clients, texts, keys *)
(* and clocks.                                                             *)
(*                                                                         *)
(* The inductive invariant says that the plan is one that commands leave (one *)
(* active day for a date, the server's days numbered), which write each clock  *)
(* remembers and that the plan has its value, and that the feed tells the     *)
(* plan.                                                                   *)
(***************************************************************************)
EXTENDS EventPlan, FiniteSetTheorems, SequenceTheorems, WellFoundedInduction, TLAPS

-----------------------------------------------------------------------------
(* The inductive invariant. *)

(* In the clocks ck and the requests rq, field f has the stamp of the latest of *)
(* the commands cs; without one, no stamp or the one it began with.          *)
Remembers(ck, rq, f, cs) ==
    /\ cs # {} => f \in DOMAIN ck
    /\ f \in DOMAIN ck =>
          \/ cs = {} /\ ck[f] = <<0, 0>>
          \/ /\ ck[f][2] \in cs
             /\ ck[f] = StampOf(ck[f][2], rq[ck[f][2]])
             /\ \A d \in cs : d # ck[f][2] => Later(ck[f], StampOf(d, rq[d]))

(* The fields that a request contends for.  The associations of a tag have      *)
(* clocks too, which are not looked at.                                      *)
AimsAt(q, f) ==
    \/ q.kind = "create" /\ f \in {<<Ev, "start_date">>, <<Ev, "end_date">>}
    \/ q.kind = "update" /\ f \in UpdateFields(q)
    \/ q.kind \in FieldKinds /\ f = <<RowOf(q), FieldOf(q.kind)>>
    \/ q.kind \in {"schedule", "place", "move"} /\ f = <<S(q.recipe), "placement">>
    \/ q.kind \in {"add_exception", "update_exception"} /\ f = <<E(q.exception), "name">>
    \/ q.kind = "update_exception" /\ f = <<E(q.exception), "tags">>
Writes(f) == {c \in Applied : AimsAt(request[c], f)}
OfTag(f) == f[1][1] = "tag"

(* What field f of a plan says, and what a request that aims at it asks for. *)
TagsIn(rows, x) == {t \in Tag : T(x, t) \in DOMAIN rows /\ ~rows[T(x, t)].retired}
Reading(e, rows, f) ==
    IF f[1] = Ev THEN CASE f[2] = "name" -> e.name
                        [] f[2] = "start_date" -> e.start
                        [] OTHER -> e.end
    ELSE IF f[2] = "placement" THEN <<rows[f[1]].day, rows[f[1]].role>>
    ELSE IF f[2] = "tags" THEN TagsIn(rows, f[1][2])
    ELSE rows[f[1]][f[2]]
Asking(q, f) ==
    IF f[1] = Ev THEN CASE f[2] = "name" -> q.name
                        [] f[2] = "start_date" -> q.start
                        [] OTHER -> q.end
    ELSE IF f[2] = "placement" THEN <<q.day, q.role>>
    ELSE IF f[2] = "tags" THEN q.tags
    ELSE IF q.kind \in FieldKinds /\ f = <<RowOf(q), FieldOf(q.kind)>> THEN Written(q)
    ELSE q.name

TableOf(kind) ==
    CASE kind \in {"create_day", "day_note", "day_visibility", "day_lifecycle"} -> "day"
      [] kind \in {"create_role", "role_name", "role_position", "role_lifecycle"} -> "role"
      [] kind \in {"recipe_note", "recipe_lifecycle"} -> "recipe"
      [] OTHER -> "exception"
IsRequest(q) ==
    /\ q.time \in Nat
    /\ q.kind \in FieldKinds => RowOf(q)[1] = TableOf(q.kind)

(* f is a field of the event or of a row that is there. *)
Present(e, rows, f) ==
    /\ f = <<f[1], f[2]>>
    /\ \/ f[1] = Ev /\ f[2] \in {"name", "start_date", "end_date"} /\ e # NoEvent
       \/ f[1] \in DOMAIN rows /\ f[2] \in DOMAIN rows[f[1]]
       \/ f[1] \in DOMAIN rows /\ f[1][1] = "recipe" /\ f[2] = "placement"
       \/ f[1] \in DOMAIN rows /\ f[1][1] = "exception" /\ f[2] = "tags"

Logged ==
    /\ DOMAIN request = Command
    /\ \A c \in Applied : IsRequest(request[c])
    /\ \A f \in DOMAIN clock : Present(event, row, f)

ClocksRemember == \A f : ~OfTag(f) => Remembers(clock, request, f, Writes(f))

FieldsHold ==
    \A f \in DOMAIN clock :
       ~OfTag(f) /\ clock[f][2] \in Writes(f) =>
          Reading(event, row, f) = Asking(request[clock[f][2]], f)

IInv ==
    /\ TypeOK /\ IsPlan(event, row) /\ Logged
    /\ ClocksRemember /\ FieldsHold /\ FeedCarriesPlan

-----------------------------------------------------------------------------
(* Overlays and stamps. *)

LEMMA OverlaidIs ==
    ASSUME NEW f, NEW g
    PROVE  /\ DOMAIN Overlaid(f, g) = DOMAIN f \cup DOMAIN g
           /\ \A x \in DOMAIN g : Overlaid(f, g)[x] = g[x]
           /\ \A x \in DOMAIN f : x \notin DOMAIN g => Overlaid(f, g)[x] = f[x]
  BY DEF Overlaid

LEMMA OnlyIs ==
    ASSUME NEW x, NEW r
    PROVE  DOMAIN Only(x, r) = {x} /\ Only(x, r)[x] = r
  BY DEF Only

(* Later is a strict total order on stamps. *)
LEMMA LaterIsStrict ==
    ASSUME NEW s \in Stamp, NEW t \in Stamp
    PROVE  /\ ~Later(s, s)
           /\ ~(Later(s, t) /\ Later(t, s))
           /\ s # t => Later(s, t) \/ Later(t, s)
           /\ \A u \in Stamp : Later(s, t) /\ Later(t, u) => Later(s, u)
  BY DEF Stamp, Later

LEMMA StampTypes ==
    ASSUME NEW c \in Command, NEW q, q.time \in Nat
    PROVE  StampOf(c, q) \in Stamp /\ StampOf(c, q)[2] = c
  BY CommandAssumption DEF StampOf, Stamp

-----------------------------------------------------------------------------
(* What a step does to the log. *)

(* What the latest command of some is, when a clock remembers it. *)
LEMMA LatestIs ==
    ASSUME NEW f, NEW cs \in SUBSET Command, \A c \in cs : request[c].time \in Nat,
           Remembers(clock, request, f, cs), cs # {}
    PROVE  Latest(cs) = clock[f][2] /\ clock[f][2] \in cs
<1> DEFINE w == clock[f][2]
           Best(c) == \A d \in cs \ {c} : Later(StampOf(c, request[c]), StampOf(d, request[d]))
<1>1. w \in cs /\ Best(w)
  BY DEF Remembers
<1>2. ASSUME NEW c \in cs, Best(c)
      PROVE  c = w
  <2>1. StampOf(c, request[c]) \in Stamp /\ StampOf(w, request[w]) \in Stamp
    BY <1>1, StampTypes
  <2>2. QED
    BY <1>1, <1>2, <2>1, LaterIsStrict
<1>3. Latest(cs) = CHOOSE c \in cs : Best(c)
  BY DEF Latest
<1> HIDE DEF Best
<1>4. QED
  BY <1>1, <1>2, <1>3

(* An applied command c adds its request and the clocks of the fields it won. *)
Logs(c, q, won) ==
    /\ c \in Command \ Applied
    /\ Applied' = Applied \cup {c}
    /\ request'[c] = q
    /\ \A d \in Applied : request'[d] = request[d]
    /\ DOMAIN clock' = DOMAIN clock \cup won
    /\ \A f \in won : clock'[f] = StampOf(c, q)
    /\ \A f \in DOMAIN clock : f \notin won => clock'[f] = clock[f]

LEMMA ConcludeLogs ==
    ASSUME IInv, NEW c \in Command, Fresh(c), NEW q, NEW won, NEW records,
           NEW outcome \in {"accepted", "partially_superseded"},
           Conclude(c, q, outcome, won, records)
    PROVE  /\ Logs(c, q, won)
           /\ shown' = Overlaid(shown, records) /\ aborted' = aborted
           /\ retained' \in [Command -> Outcome \cup {"none"}]
           /\ DOMAIN request' = Command
<1>1. /\ retained' = [retained EXCEPT ![c] = outcome]
      /\ request' = [request EXCEPT ![c] = q]
      /\ clock' = Overlaid(clock, [f \in won |-> StampOf(c, q)])
      /\ shown' = Overlaid(shown, records) /\ aborted' = aborted
  BY DEF Conclude
<1>2. retained \in [Command -> Outcome \cup {"none"}] /\ DOMAIN request = Command
  BY DEF IInv, TypeOK, Logged
<1>3. c \notin Applied /\ Applied' = Applied \cup {c}
  BY <1>1, <1>2 DEF Fresh, Applied
<1>4. /\ request'[c] = q /\ DOMAIN request' = Command
      /\ \A d \in Applied : request'[d] = request[d]
  BY <1>1, <1>2, <1>3
<1>5. retained' \in [Command -> Outcome \cup {"none"}]
  BY <1>1, <1>2 DEF Outcome
<1>6. /\ DOMAIN clock' = DOMAIN clock \cup won
      /\ \A f \in won : clock'[f] = StampOf(c, q)
      /\ \A f \in DOMAIN clock : f \notin won => clock'[f] = clock[f]
  <2> DEFINE stamps == [f \in won |-> StampOf(c, q)]
  <2>1. /\ DOMAIN stamps = won /\ \A f \in won : stamps[f] = StampOf(c, q)
        /\ clock' = Overlaid(clock, stamps)
    BY <1>1
  <2> HIDE DEF stamps
  <2>2. /\ DOMAIN Overlaid(clock, stamps) = DOMAIN clock \cup DOMAIN stamps
        /\ \A f \in DOMAIN stamps : Overlaid(clock, stamps)[f] = stamps[f]
        /\ \A f \in DOMAIN clock : f \notin DOMAIN stamps =>
              Overlaid(clock, stamps)[f] = clock[f]
    BY OverlaidIs
  <2>3. QED
    BY <2>1, <2>2
<1>7. QED
  BY <1>1, <1>3, <1>4, <1>5, <1>6 DEF Logs

LEMMA KeepsRemembering ==
    ASSUME NEW c, NEW q, NEW won, Logs(c, q, won), NEW f, f \notin won,
           NEW cs \in SUBSET Applied, Remembers(clock, request, f, cs)
    PROVE  Remembers(clock', request', f, cs)
  BY DEF Logs, Remembers

LEMMA RemembersWrite ==
    ASSUME \A d \in Applied : request[d].time \in Nat,
           NEW c, NEW q, NEW won, Logs(c, q, won), q.time \in Nat,
           NEW f, f \in won <=> Wins(f, StampOf(c, q)),
           NEW cs \in SUBSET Applied, Remembers(clock, request, f, cs)
    PROVE  Remembers(clock', request', f, cs \cup {c})
<1> DEFINE s == StampOf(c, q)
<1>1. s \in Stamp /\ s[2] = c /\ c \notin cs
  BY StampTypes DEF Logs
<1>2. \A d \in cs : StampOf(d, request[d]) \in Stamp /\ request'[d] = request[d]
  BY StampTypes DEF Logs, Applied
<1>3. StampOf(c, request'[c]) = s
  BY DEF Logs
<1>4. f \in DOMAIN clock => clock[f] \in Stamp
  BY <1>2 DEF Remembers, Stamp
<1>5. CASE Wins(f, s)
  <2>1. f \in DOMAIN clock' /\ clock'[f] = s
    BY <1>5 DEF Logs
  <2>2. \A d \in cs : Later(s, StampOf(d, request[d]))
    BY <1>1, <1>2, <1>4, <1>5, LaterIsStrict DEF Wins, Remembers
  <2>3. QED
    BY <1>1, <1>2, <1>3, <2>1, <2>2 DEF Remembers
<1>6. CASE ~Wins(f, s)
  <2>1. f \in DOMAIN clock /\ f \in DOMAIN clock' /\ clock'[f] = clock[f]
    BY <1>6 DEF Wins, Logs
  <2>2. clock[f] # <<0, 0>>
    <3>1. Later(s, <<0, 0>>)
      BY <1>1, IdentityAssumption, CommandAssumption DEF Later, Stamp, Logs
    <3>2. QED
      BY <1>6, <2>1, <3>1 DEF Wins
  <2>3. /\ clock[f][2] \in cs
        /\ clock[f] = StampOf(clock[f][2], request[clock[f][2]])
        /\ \A d \in cs : d # clock[f][2] => Later(clock[f], StampOf(d, request[d]))
    BY <2>1, <2>2 DEF Remembers
  <2>4. Later(clock[f], s)
    <3>1. clock[f] # s
      BY <1>1, <1>2, <2>3, StampTypes DEF StampOf
    <3>2. QED
      BY <1>1, <1>4, <1>6, <2>1, <3>1, LaterIsStrict DEF Wins
  <2>5. QED
    BY <1>1, <1>2, <1>3, <2>1, <2>3, <2>4 DEF Remembers
<1>7. QED
  BY <1>5, <1>6

LEMMA WritersAre ==
    ASSUME NEW c, NEW q, NEW won, Logs(c, q, won), NEW f
    PROVE  /\ Writes(f) \subseteq Applied
           /\ AimsAt(q, f) => Writes(f)' = Writes(f) \cup {c}
           /\ ~AimsAt(q, f) => Writes(f)' = Writes(f)
<1>1. /\ Applied' = Applied \cup {c} /\ c \notin Applied /\ request'[c] = q
      /\ \A d \in Applied : request'[d] = request[d]
  BY DEF Logs
<1>2. Writes(f)' = {d \in Applied' : AimsAt(request'[d], f)}
  BY DEF Writes
<1>3. QED
  BY <1>1, <1>2 DEF Writes

LEMMA ClocksStep ==
    ASSUME Logged, ClocksRemember, NEW c, NEW q, q.time \in Nat, NEW won, Logs(c, q, won),
           \A f : ~OfTag(f) => (f \in won <=> AimsAt(q, f) /\ Wins(f, StampOf(c, q)))
    PROVE  ClocksRemember'
<1>0. \A d \in Applied : request[d].time \in Nat
  BY DEF Logged, IsRequest
<1>1. ASSUME NEW f, ~OfTag(f)
      PROVE  Remembers(clock', request', f, Writes(f)')
  <2>1. Remembers(clock, request, f, Writes(f))
    BY <1>1 DEF ClocksRemember
  <2>2. CASE AimsAt(q, f)
    <3>1. Remembers(clock', request', f, Writes(f) \cup {c})
      BY <1>0, <1>1, <2>1, <2>2, WritersAre, RemembersWrite
    <3>2. QED
      BY <2>2, <3>1, WritersAre
  <2>3. CASE ~AimsAt(q, f)
    <3>1. Remembers(clock', request', f, Writes(f))
      BY <1>1, <2>1, <2>3, WritersAre, KeepsRemembering
    <3>2. QED
      BY <2>3, <3>1, WritersAre
  <2>4. QED
    BY <2>2, <2>3
<1>2. QED
  BY <1>1 DEF ClocksRemember, OfTag

-----------------------------------------------------------------------------
(* Plans. *)

Tables == {"day", "role", "recipe", "exception", "tag"}

LEMMA RowIs ==
    ASSUME NEW k, NEW r, IsRow(k, r)
    PROVE  /\ k[1] \in Tables /\ k # Ev
           /\ k[1] = "day" => /\ k = <<"day", k[2]>> /\ k[2] \in Day \cup (Date \X Nat)
                              /\ r \in DayRow
           /\ k[1] = "role" => k = <<"role", k[2]>> /\ k[2] \in Role /\ r \in RoleRow
           /\ k[1] = "recipe" => k = <<"recipe", k[2]>> /\ k[2] \in Recipe /\ r \in RecipeRow
           /\ k[1] = "exception" => /\ k = <<"exception", k[2]>> /\ k[2] \in Exception
                                    /\ r \in ExceptionRow
           /\ k[1] = "tag" => /\ k = <<"tag", k[2], k[3]>> /\ k[2] \in Exception
                              /\ k[3] \in Tag /\ r \in TagRow
  BY DEF IsRow, D, R, S, E, T, Ev, Tables

LEMMA IsRowOf ==
    /\ \A d, r : d \in Day \cup (Date \X Nat) /\ r \in DayRow => IsRow(D(d), r)
    /\ \A ro, r : ro \in Role /\ r \in RoleRow => IsRow(R(ro), r)
    /\ \A s, r : s \in Recipe /\ r \in RecipeRow => IsRow(S(s), r)
    /\ \A x, r : x \in Exception /\ r \in ExceptionRow => IsRow(E(x), r)
    /\ \A x, t, r : x \in Exception /\ t \in Tag /\ r \in TagRow => IsRow(T(x, t), r)
  BY DEF IsRow, D, R, S, E, T

LEMMA KeyIs ==
    /\ \A d : D(d)[1] = "day" /\ D(d)[2] = d
    /\ \A ro : R(ro)[1] = "role" /\ R(ro)[2] = ro
    /\ \A s : S(s)[1] = "recipe" /\ S(s)[2] = s
    /\ \A x : E(x)[1] = "exception" /\ E(x)[2] = x
    /\ \A x, t : T(x, t)[1] = "tag" /\ T(x, t)[2] = x /\ T(x, t)[3] = t
    /\ Ev[1] = "event"
  BY DEF D, R, S, E, T, Ev

LEMMA PlanIs ==
    ASSUME NEW e, NEW rows, IsPlan(e, rows)
    PROVE  /\ e \in Event /\ (e.lifecycle = "none" <=> e = NoEvent)
           /\ e = NoEvent => DOMAIN rows = {}
           /\ e # NoEvent => e.start \in Date /\ e.end \in Date
           /\ \A k \in DOMAIN rows : IsRow(k, rows[k])
           /\ \A k \in DOMAIN rows : k[1] = "tag" => E(k[2]) \in DOMAIN rows
           /\ IsFiniteSet(DaysIn(rows))
           /\ \A k, l \in DaysIn(rows) :
                 rows[k].date = rows[l].date /\ ~rows[k].retired /\ ~rows[l].retired => k = l
           /\ \A k \in DaysIn(rows) :
                 k[2] \in Date \X Nat =>
                    rows[k].date = k[2][1] /\ k[2][2] < Cardinality(DaysOn(rows, k[2][1]))
  BY DEF IsPlan

LEMMA RowsAlike ==
    ASSUME NEW k, NEW r, NEW s, IsRow(k, r), IsRow(k, s)
    PROVE  DOMAIN r = DOMAIN s
<1>1. k[1] \in Tables
  BY RowIs
<1>2. CASE k[1] = "day"
  BY <1>2, RowIs DEF DayRow
<1>3. CASE k[1] = "role"
  BY <1>3, RowIs DEF RoleRow
<1>4. CASE k[1] = "recipe"
  BY <1>4, RowIs DEF RecipeRow
<1>5. CASE k[1] = "exception"
  BY <1>5, RowIs DEF ExceptionRow
<1>6. CASE k[1] = "tag"
  BY <1>6, RowIs DEF TagRow
<1>7. QED
  BY <1>1, <1>2, <1>3, <1>4, <1>5, <1>6 DEF Tables

LEMMA IInvIs ==
    ASSUME IInv
    PROVE  /\ retained \in [Command -> Outcome \cup {"none"}]
           /\ \A f \in DOMAIN clock : clock[f] \in Stamp
           /\ event \in Event /\ tags \subseteq Tag
           /\ \A k \in DOMAIN row : IsRow(k, row[k])
           /\ IsPlan(event, row) /\ FeedCarriesPlan
           /\ DOMAIN request = Command
           /\ \A c \in Applied : IsRequest(request[c])
           /\ \A f \in DOMAIN clock : Present(event, row, f)
  BY DEF IInv, TypeOK, Logged

(* What an applied command does to the fields with clocks: those it wins say what *)
(* it asks for, and the others what they said.                               *)
Honours(c, q, won) ==
    /\ \A f : ~OfTag(f) => (f \in won <=> AimsAt(q, f) /\ Wins(f, StampOf(c, q)))
    /\ \A f \in won : Present(event', row', f)
    /\ \A f \in won : ~OfTag(f) => Reading(event', row', f) = Asking(q, f)
    /\ \A f \in DOMAIN clock :
          ~OfTag(f) /\ f \notin won /\ Writes(f) # {} =>
             Reading(event', row', f) = Reading(event, row, f)

(* What it publishes: the event and every row that it changes, but for the place *)
(* of a recipe.                                                              *)
SameButPlace(r, s) ==
    DOMAIN r = DOMAIN s /\ \A x \in DOMAIN s \ {"day", "role"} : r[x] = s[x]
Tells(records) ==
    /\ IF Ev \in DOMAIN records THEN records[Ev] = event' ELSE event' = event
    /\ \A k \in DOMAIN row' :
          IF k \in DOMAIN records THEN records[k] = row'[k]
          ELSE k \in DOMAIN row /\ SameButPlace(row'[k], row[k])

LEMMA TellsPlan ==
    ASSUME FeedCarriesPlan, NEW records, Tells(records), shown' = Overlaid(shown, records)
    PROVE  FeedCarriesPlan'
<1>1. /\ DOMAIN shown' = DOMAIN shown \cup DOMAIN records
      /\ \A x \in DOMAIN records : shown'[x] = records[x]
      /\ \A x \in DOMAIN shown : x \notin DOMAIN records => shown'[x] = shown[x]
  BY DEF Overlaid
<1>2. Ev \in DOMAIN shown' => shown'[Ev] = event'
  BY <1>1 DEF FeedCarriesPlan, Tells
<1>3. ASSUME NEW k \in DOMAIN row'
      PROVE  /\ k \in DOMAIN shown'
             /\ \A x \in DOMAIN row'[k] \ {"day", "role"} : shown'[k][x] = row'[k][x]
  <2>1. CASE k \in DOMAIN records
    BY <1>1, <2>1 DEF Tells
  <2>2. CASE k \notin DOMAIN records
    <3>1. k \in DOMAIN row /\ SameButPlace(row'[k], row[k])
      BY <2>2 DEF Tells
    <3>2. /\ k \in DOMAIN shown
          /\ \A x \in DOMAIN row[k] \ {"day", "role"} : shown[k][x] = row[k][x]
      BY <3>1 DEF FeedCarriesPlan, Told
    <3>3. QED
      BY <1>1, <2>2, <3>1, <3>2 DEF SameButPlace
  <2>3. QED
    BY <2>1, <2>2
<1>4. QED
  BY <1>2, <1>3 DEF FeedCarriesPlan, Told

LEMMA FieldsStep ==
    ASSUME IInv, NEW c \in Command, NEW q, q.time \in Nat, NEW won, Logs(c, q, won),
           Honours(c, q, won)
    PROVE  FieldsHold'
<1>1. /\ c \in Command \ Applied /\ request'[c] = q
      /\ \A d \in Applied : request'[d] = request[d]
      /\ DOMAIN clock' = DOMAIN clock \cup won
      /\ \A f \in won : clock'[f] = StampOf(c, q)
      /\ \A f \in DOMAIN clock : f \notin won => clock'[f] = clock[f]
  BY DEF Logs
<1>2. ASSUME NEW f \in DOMAIN clock', ~OfTag(f), clock'[f][2] \in Writes(f)'
      PROVE  Reading(event', row', f) = Asking(request'[clock'[f][2]], f)
  <2>1. CASE f \in won
    <3>1. clock'[f][2] = c
      BY <1>1, <2>1, StampTypes
    <3>2. Reading(event', row', f) = Asking(q, f)
      BY <1>2, <2>1 DEF Honours
    <3>3. QED
      BY <1>1, <3>1, <3>2
  <2>2. CASE f \notin won
    <3>1. f \in DOMAIN clock /\ clock'[f] = clock[f]
      BY <1>1, <2>2
    <3>2. Remembers(clock, request, f, Writes(f))
      BY <1>2 DEF IInv, ClocksRemember
    <3>3. clock[f][2] \in Writes(f)
      <4>1. CASE Writes(f) = {}
        <5>1. clock[f] = <<0, 0>>
          BY <3>1, <3>2, <4>1 DEF Remembers
        <5>2. clock'[f][2] \in Command
          BY <1>2 DEF Writes, Applied
        <5>3. QED
          BY <3>1, <5>1, <5>2, IdentityAssumption
      <4>2. CASE Writes(f) # {}
        BY <3>1, <3>2, <4>2 DEF Remembers
      <4>3. QED
        BY <4>1, <4>2
    <3>4. Reading(event, row, f) = Asking(request[clock[f][2]], f)
      BY <1>2, <3>1, <3>3 DEF IInv, FieldsHold
    <3>5. Reading(event', row', f) = Reading(event, row, f)
      BY <1>2, <2>2, <3>1, <3>3 DEF Honours
    <3>6. clock[f][2] \in Applied
      BY <3>3 DEF Writes
    <3>7. QED
      BY <1>1, <3>1, <3>4, <3>5, <3>6
  <2>3. QED
    BY <2>1, <2>2
<1>3. QED
  BY <1>2 DEF FieldsHold, OfTag

LEMMA CommitStep ==
    ASSUME IInv, NEW c \in Command, Fresh(c), NEW q, IsRequest(q), NEW won, NEW records,
           NEW outcome \in {"accepted", "partially_superseded"},
           Conclude(c, q, outcome, won, records), tags' \subseteq Tag,
           IsPlan(event', row'), DOMAIN row \subseteq DOMAIN row',
           event # NoEvent => event' # NoEvent, Honours(c, q, won), Tells(records)
    PROVE  IInv'
<1>1. /\ Logs(c, q, won) /\ shown' = Overlaid(shown, records)
      /\ retained' \in [Command -> Outcome \cup {"none"}] /\ DOMAIN request' = Command
  BY ConcludeLogs
<1>2. /\ Applied' = Applied \cup {c} /\ request'[c] = q
      /\ \A d \in Applied : request'[d] = request[d]
      /\ DOMAIN clock' = DOMAIN clock \cup won
      /\ \A f \in won : clock'[f] = StampOf(c, q)
      /\ \A f \in DOMAIN clock : f \notin won => clock'[f] = clock[f]
  BY <1>1 DEF Logs
<1>3. q.time \in Nat
  BY DEF IsRequest
<1>4. StampOf(c, q) \in Stamp
  BY <1>3, StampTypes
<1>5. TypeOK'
  <2>1. \A f \in DOMAIN clock' : clock'[f] \in Stamp
    BY <1>2, <1>4, IInvIs
  <2>2. event' \in Event /\ \A k \in DOMAIN row' : IsRow(k, row'[k])
    BY PlanIs
  <2>3. QED
    BY <1>1, <2>1, <2>2 DEF TypeOK, IsRow
<1>6. Logged'
  <2>1. \A d \in Applied' : IsRequest(request'[d])
    BY <1>2, IInvIs
  <2>2. ASSUME NEW f \in DOMAIN clock'
        PROVE  Present(event', row', f)
    <3>1. CASE f \in won
      BY <3>1 DEF Honours
    <3>2. CASE f \notin won
      <4>1. Present(event, row, f)
        BY <1>2, <3>2, IInvIs
      <4>2. \A k \in DOMAIN row : k \in DOMAIN row' /\ DOMAIN row'[k] = DOMAIN row[k]
        <5>1. \A k \in DOMAIN row : IsRow(k, row[k])
          BY IInvIs
        <5>2. \A k \in DOMAIN row' : IsRow(k, row'[k])
          BY PlanIs
        <5>3. QED
          BY <5>1, <5>2, RowsAlike
      <4>3. QED
        BY <4>1, <4>2 DEF Present
    <3>3. QED
      BY <3>1, <3>2
  <2>3. QED
    BY <1>1, <2>1, <2>2 DEF Logged, IsRequest, Present, RowOf, TableOf
<1>7. ClocksRemember'
  <2>1. Logged /\ ClocksRemember
    BY DEF IInv
  <2>2. QED
    BY <1>1, <1>3, <2>1, ClocksStep DEF Honours
<1>8. FieldsHold'
  BY <1>1, <1>3, FieldsStep
<1>9. FeedCarriesPlan'
  BY <1>1, TellsPlan, IInvIs
<1>10. IsPlan(event, row)'
  OBVIOUS
<1>11. QED
  BY <1>5, <1>6, <1>7, <1>8, <1>9, <1>10 DEF IInv

(* A step that leaves the plan, the requests and the clocks. *)
LEMMA QuietStep ==
    ASSUME IInv, UNCHANGED <<request, clock, shown, event, row>>, Applied' = Applied,
           retained' \in [Command -> Outcome \cup {"none"}], tags' \subseteq Tag
    PROVE  IInv'
<1>1. TypeOK'
  BY DEF IInv, TypeOK
<1>2. Logged'
  BY DEF IInv, Logged
<1>3. \A f : Writes(f)' = Writes(f)
  BY DEF Writes
<1>4. ClocksRemember' /\ FieldsHold'
  BY <1>3 DEF IInv, ClocksRemember, FieldsHold
<1>5. FeedCarriesPlan'
  BY DEF IInv, FeedCarriesPlan, Told
<1>6. IsPlan(event, row)'
  BY DEF IInv
<1>7. QED
  BY <1>1, <1>2, <1>4, <1>5, <1>6 DEF IInv

LEMMA RefusedStep ==
    ASSUME IInv, NEW c \in Command, Fresh(c), Reject(c) \/ Abort(c),
           UNCHANGED <<event, row, tags>>
    PROVE  IInv'
<1>1. retained \in [Command -> Outcome \cup {"none"}] /\ tags \subseteq Tag
  BY IInvIs
<1>2. CASE Reject(c)
  <2>1. /\ retained' = [retained EXCEPT ![c] = "rejected"]
        /\ UNCHANGED <<request, clock, shown>>
    BY <1>2 DEF Reject
  <2>2. Applied' = Applied
    BY <1>1, <2>1 DEF Applied, Fresh
  <2>3. retained' \in [Command -> Outcome \cup {"none"}]
    BY <1>1, <2>1 DEF Outcome
  <2>4. QED
    BY <1>1, <2>1, <2>2, <2>3, QuietStep
<1>3. CASE Abort(c)
  <2>1. UNCHANGED <<retained, request, clock, shown>>
    BY <1>3 DEF Abort
  <2>2. Applied' = Applied
    BY <2>1 DEF Applied
  <2>3. QED
    BY <1>1, <2>1, <2>2, QuietStep
<1>4. QED
  BY <1>2, <1>3

-----------------------------------------------------------------------------
(* The commands on one field of one row. *)

(* The days stay where they are, and no two active ones share a date. *)
LEMMA SamePlan ==
    ASSUME NEW e, NEW rows, IsPlan(e, rows), NEW e1 \in Event, NEW rows1,
           e = NoEvent <=> e1 = NoEvent, e1.lifecycle = "none" <=> e1 = NoEvent,
           e1 # NoEvent => e1.start \in Date /\ e1.end \in Date,
           DOMAIN rows1 = DOMAIN rows,
           \A k \in DOMAIN rows : IsRow(k, rows1[k]),
           \A k \in DaysIn(rows) : rows1[k].date = rows[k].date,
           \A k, l \in DaysIn(rows) :
              rows1[k].date = rows1[l].date /\ ~rows1[k].retired /\ ~rows1[l].retired => k = l
    PROVE  IsPlan(e1, rows1)
<1>1. DaysIn(rows1) = DaysIn(rows)
  BY DEF DaysIn
<1>2. \A date : DaysOn(rows1, date) = DaysOn(rows, date)
  BY <1>1 DEF DaysOn
<1>3. \A k \in DaysIn(rows) : k \in DOMAIN rows
  BY DEF DaysIn
<1>4. QED
  BY <1>1, <1>2, <1>3, PlanIs DEF IsPlan

LEMMA RecordsAre ==
    ASSUME NEW rows, NEW ks
    PROVE  DOMAIN Records(rows, ks) = ks /\ \A k \in ks : Records(rows, ks)[k] = rows[k]
  BY DEF Records

(* The rows change in field x of row k, if at all. *)
OneField(rows, rows1, k, x) ==
    /\ k \in DOMAIN rows /\ k[1] # "tag" /\ x \notin {"day", "role"}
    /\ DOMAIN rows1 = DOMAIN rows /\ \A l \in DOMAIN rows : l # k => rows1[l] = rows[l]
    /\ \A y \in DOMAIN rows[k] : y # x => rows1[k][y] = rows[k][y]

LEMMA OneFieldReads ==
    ASSUME NEW e, NEW rows, NEW rows1, NEW k, NEW x, OneField(rows, rows1, k, x),
           \A l \in DOMAIN rows : IsRow(l, rows[l]),
           NEW f, Present(e, rows, f), f # <<k, x>>
    PROVE  Reading(e, rows1, f) = Reading(e, rows, f)
<1>0. /\ k \in DOMAIN rows /\ k[1] # "tag" /\ x \notin {"day", "role"}
      /\ DOMAIN rows1 = DOMAIN rows /\ \A l \in DOMAIN rows : l # k => rows1[l] = rows[l]
      /\ \A y \in DOMAIN rows[k] : y # x => rows1[k][y] = rows[k][y]
  BY DEF OneField
<1>1. CASE f[1] = Ev
  BY <1>1 DEF Reading
<1>2. CASE f[1] # Ev /\ f[2] = "placement"
  <2>1. f[1] \in DOMAIN rows /\ f[1][1] = "recipe"
    <3>1. f[1] \in DOMAIN rows /\ (f[1][1] = "recipe" \/ "placement" \in DOMAIN rows[f[1]])
      BY <1>2 DEF Present
    <3>2. "placement" \notin DOMAIN rows[f[1]]
      BY <3>1, RowIs DEF Tables, DayRow, RoleRow, RecipeRow, ExceptionRow, TagRow
    <3>3. QED
      BY <3>1, <3>2
  <2>2. {"day", "role"} \subseteq DOMAIN rows[f[1]]
    BY <2>1, RowIs DEF RecipeRow
  <2>3. rows1[f[1]].day = rows[f[1]].day /\ rows1[f[1]].role = rows[f[1]].role
    BY <1>0, <2>1, <2>2
  <2>4. QED
    BY <1>2, <2>3 DEF Reading
<1>3. CASE f[1] # Ev /\ f[2] = "tags"
  <2>1. TagsIn(rows1, f[1][2]) = TagsIn(rows, f[1][2])
    BY <1>0, KeyIs DEF TagsIn
  <2>2. QED
    BY <1>3, <2>1 DEF Reading
<1>4. CASE f[1] # Ev /\ f[2] \notin {"placement", "tags"}
  <2>1. f = <<f[1], f[2]>> /\ f[1] \in DOMAIN rows /\ f[2] \in DOMAIN rows[f[1]]
    BY <1>4 DEF Present
  <2>2. rows1[f[1]][f[2]] = rows[f[1]][f[2]]
    BY <1>0, <2>1
  <2>3. QED
    BY <1>4, <2>2 DEF Reading
<1>5. QED
  BY <1>1, <1>2, <1>3, <1>4

LEMMA FieldIs ==
    ASSUME NEW q, q.kind \in FieldKinds \ {"create_day", "create_role", "add_exception"}
    PROVE  /\ RowOf(q) = q.at /\ Written(q) = q.value
           /\ \A f : AimsAt(q, f) <=> f = <<q.at, FieldOf(q.kind)>>
           /\ FieldOf(q.kind) \in {"note", "visible", "name", "key", "retired"}
           /\ TableOf(q.kind) # "tag"
  BY DEF FieldKinds, RowOf, Written, AimsAt, FieldOf, TableOf

LEMMA SetFieldStep ==
    ASSUME IInv, NEW c \in Command, Fresh(c), NEW q, IsRequest(q),
           q.kind \in FieldKinds \ {"create_day", "create_role", "add_exception"},
           q.at \in DOMAIN row, NEW x, x = FieldOf(q.kind), x \in DOMAIN row[q.at],
           IsRow(q.at, [row[q.at] EXCEPT ![x] = q.value]),
           x = "retired" /\ q.at[1] = "day" /\ ~q.value /\ Wins(<<q.at, x>>, StampOf(c, q))
              => ~Occupied(row[q.at].date, q.at),
           SetField(c, q, x), UNCHANGED <<event, tags>>
    PROVE  IInv'
<1> DEFINE f == <<q.at, x>>
           r == [row[q.at] EXCEPT ![x] = q.value]
           won == IF Wins(f, StampOf(c, q)) THEN {f} ELSE {}
           outcome == IF Wins(f, StampOf(c, q)) THEN "accepted" ELSE "partially_superseded"
<1>1. /\ row' = IF Wins(f, StampOf(c, q)) THEN [row EXCEPT ![q.at][x] = q.value] ELSE row
      /\ Conclude(c, q, outcome, won, Records(row', {q.at}))
  BY DEF SetField
<1>2. /\ \A k \in DOMAIN row : IsRow(k, row[k])
      /\ IsPlan(event, row) /\ event \in Event /\ tags \subseteq Tag
      /\ \A g \in DOMAIN clock : Present(event, row, g)
  BY IInvIs
<1>3. /\ DOMAIN row' = DOMAIN row
      /\ \A k \in DOMAIN row : k # q.at => row'[k] = row[k]
      /\ row'[q.at] = IF Wins(f, StampOf(c, q)) THEN r ELSE row[q.at]
  BY <1>1
<1>4. /\ DOMAIN r = DOMAIN row[q.at] /\ r[x] = q.value
      /\ \A y \in DOMAIN row[q.at] : y # x => r[y] = row[q.at][y]
  OBVIOUS
<1>5. /\ RowOf(q) = q.at /\ Written(q) = q.value /\ \A g : AimsAt(q, g) <=> g = f
      /\ x \in {"note", "visible", "name", "key", "retired"} /\ q.at[1] # "tag"
  BY FieldIs DEF IsRequest
<1>6. q.at # Ev
  BY <1>2, RowIs
<1>7. \A k \in DOMAIN row : IsRow(k, row'[k])
  BY <1>2, <1>3
<1> HIDE DEF r
<1>8. IsPlan(event', row')
  <2>1. \A k \in DaysIn(row) : k \in DOMAIN row /\ {"date", "retired"} \subseteq DOMAIN row[k]
    BY <1>2, RowIs DEF DaysIn, DayRow
  <2>2. \A k \in DaysIn(row) : row'[k].date = row[k].date
    <3>1. q.at \in DaysIn(row) => r.date = row[q.at].date
      BY <1>4, <1>5, <2>1
    <3>2. QED
      BY <1>3, <2>1, <3>1
  <2>3. ASSUME NEW k \in DaysIn(row), NEW l \in DaysIn(row), row'[k].date = row'[l].date,
               ~row'[k].retired, ~row'[l].retired
        PROVE  k = l
    <3>1. row[k].date = row[l].date
      BY <2>2, <2>3
    <3>2. CASE x = "retired" /\ Wins(f, StampOf(c, q)) /\ (k = q.at \/ l = q.at)
      <4>1. row'[q.at].retired = q.value /\ q.at \in DaysIn(row)
        BY <1>3, <1>4, <2>1, <3>2
      <4>2. ~Occupied(row[q.at].date, q.at)
        BY <2>3, <3>2, <4>1 DEF DaysIn
      <4>3. \A d \in DaysIn(row) : d # q.at /\ row[d].date = row[q.at].date => row[d].retired
        BY <4>2 DEF Occupied, DaysOf, DaysOn
      <4>4. QED
        BY <1>3, <2>1, <2>3, <3>1, <3>2, <4>3
    <3>3. CASE ~(x = "retired" /\ Wins(f, StampOf(c, q)) /\ (k = q.at \/ l = q.at))
      <4>1. row'[k].retired = row[k].retired /\ row'[l].retired = row[l].retired
        BY <1>3, <1>4, <2>1, <3>3
      <4>2. QED
        BY <1>2, <2>3, <3>1, <4>1, PlanIs
    <3>4. QED
      BY <3>2, <3>3
  <2>4. /\ event.lifecycle = "none" <=> event = NoEvent
        /\ event # NoEvent => event.start \in Date /\ event.end \in Date
    BY <1>2, PlanIs
  <2>5. IsPlan(event, row')
    BY <1>2, <1>3, <1>7, <2>2, <2>3, <2>4, SamePlan
  <2>6. QED
    BY <2>5
<1>9. Honours(c, q, won)
  <2>1. \A g : g \in won <=> AimsAt(q, g) /\ Wins(g, StampOf(c, q))
    BY <1>5
  <2>2. \A g \in won : Present(event', row', g) /\ Reading(event', row', g) = Asking(q, g)
    <3>1. CASE ~Wins(f, StampOf(c, q))
      BY <3>1
    <3>2. CASE Wins(f, StampOf(c, q))
      <4>1. row'[q.at][x] = q.value /\ x \in DOMAIN row'[q.at] /\ q.at \in DOMAIN row'
        BY <1>3, <1>4, <3>2
      <4>2. Reading(event', row', f) = q.value
        BY <1>5, <1>6, <4>1 DEF Reading
      <4>3. Asking(q, f) = q.value
        BY <1>5, <1>6 DEF Asking
      <4>4. Present(event', row', f)
        BY <4>1 DEF Present
      <4>5. QED
        BY <4>2, <4>3, <4>4
    <3>3. QED
      BY <3>1, <3>2
  <2>3. ASSUME NEW g \in DOMAIN clock, g \notin won
        PROVE  Reading(event', row', g) = Reading(event, row, g)
    <3>1. CASE ~Wins(f, StampOf(c, q))
      BY <1>1, <3>1
    <3>2. CASE Wins(f, StampOf(c, q))
      <4>1. g # f /\ Present(event, row, g)
        BY <1>2, <2>3, <3>2
      <4>2. \A y \in DOMAIN row[q.at] : y # x => row'[q.at][y] = row[q.at][y]
        BY <1>3, <1>4
      <4>3. Reading(event, row', g) = Reading(event, row, g)
        <5>1. OneField(row, row', q.at, x)
          BY <1>3, <1>5, <4>2 DEF OneField
        <5>2. QED
          BY <1>2, <4>1, <5>1, OneFieldReads
      <4>4. QED
        BY <4>3
    <3>3. QED
      BY <3>1, <3>2
  <2> HIDE DEF won
  <2>4. QED
    BY <2>1, <2>2, <2>3 DEF Honours
<1>10. Tells(Records(row', {q.at}))
  <2>1. /\ DOMAIN Records(row', {q.at}) = {q.at}
        /\ Records(row', {q.at})[q.at] = row'[q.at]
    BY RecordsAre
  <2>2. QED
    BY <1>3, <1>6, <2>1 DEF Tells, SameButPlace
<1>11. outcome \in {"accepted", "partially_superseded"}
  OBVIOUS
<1> HIDE DEF won, outcome
<1>12. QED
  BY <1>1, <1>2, <1>3, <1>8, <1>9, <1>10, <1>11, CommitStep

LEMMA DecideStep ==
    ASSUME IInv, NEW c \in Command, Fresh(c), NEW q, IsRequest(q),
           q.kind \in FieldKinds \ {"create_day", "create_role", "add_exception"},
           q.at \in DOMAIN row, NEW x, x = FieldOf(q.kind), x \in DOMAIN row[q.at],
           IsRow(q.at, [row[q.at] EXCEPT ![x] = q.value]),
           NEW refused, Decide(c, q, refused, x), UNCHANGED tags,
           x = "retired" /\ q.at[1] = "day" /\ ~q.value /\ Wins(<<q.at, x>>, StampOf(c, q))
              /\ ~TooFarAhead(q) /\ ~refused
              => ~Occupied(row[q.at].date, q.at)
    PROVE  IInv'
<1>1. CASE (TooFarAhead(q) \/ refused) /\ Reject(c) /\ UNCHANGED row
  BY <1>1, RefusedStep DEF Decide
<1>2. CASE ~TooFarAhead(q) /\ ~refused /\ SetField(c, q, x)
  <2>1. UNCHANGED <<event, tags>>
    BY DEF Decide
  <2>2. QED
    BY <1>2, <2>1, SetFieldStep
<1>3. QED
  BY <1>1, <1>2 DEF Decide

(* The rows of a table, and what a field of theirs may become. *)
LEMMA TableIs ==
    ASSUME IInv, NEW table, NEW k \in Rows(table)
    PROVE  /\ k \in DOMAIN row /\ k[1] = table /\ IsRow(k, row[k])
           /\ table = "day" =>
                 /\ {"note", "visible", "retired"} \subseteq DOMAIN row[k]
                 /\ \A v \in Text \cup {None} : IsRow(k, [row[k] EXCEPT !["note"] = v])
                 /\ \A v \in BOOLEAN : /\ IsRow(k, [row[k] EXCEPT !["visible"] = v])
                                       /\ IsRow(k, [row[k] EXCEPT !["retired"] = v])
           /\ table = "role" =>
                 /\ {"name", "key", "retired"} \subseteq DOMAIN row[k]
                 /\ \A v \in Text \cup {None} : IsRow(k, [row[k] EXCEPT !["name"] = v])
                 /\ \A v \in Key : IsRow(k, [row[k] EXCEPT !["key"] = v])
                 /\ \A v \in BOOLEAN : IsRow(k, [row[k] EXCEPT !["retired"] = v])
           /\ table = "recipe" =>
                 /\ {"note", "retired"} \subseteq DOMAIN row[k]
                 /\ \A v \in Text \cup {None} : IsRow(k, [row[k] EXCEPT !["note"] = v])
                 /\ \A v \in BOOLEAN : IsRow(k, [row[k] EXCEPT !["retired"] = v])
           /\ table = "exception" =>
                 /\ "retired" \in DOMAIN row[k]
                 /\ \A v \in BOOLEAN : IsRow(k, [row[k] EXCEPT !["retired"] = v])
<1>1. k \in DOMAIN row /\ k[1] = table /\ IsRow(k, row[k])
  BY IInvIs DEF Rows
<1>2. CASE table = "day"
  <2>1. k = D(k[2]) /\ k[2] \in Day \cup (Date \X Nat) /\ row[k] \in DayRow
    BY <1>1, <1>2, RowIs DEF D
  <2>2. /\ {"note", "visible", "retired"} \subseteq DOMAIN row[k]
        /\ \A v \in Text \cup {None} : [row[k] EXCEPT !["note"] = v] \in DayRow
        /\ \A v \in BOOLEAN : /\ [row[k] EXCEPT !["visible"] = v] \in DayRow
                              /\ [row[k] EXCEPT !["retired"] = v] \in DayRow
    BY <2>1 DEF DayRow
  <2>3. QED
    BY <1>1, <1>2, <2>1, <2>2 DEF IsRow
<1>3. CASE table = "role"
  <2>1. k = R(k[2]) /\ k[2] \in Role /\ row[k] \in RoleRow
    BY <1>1, <1>3, RowIs DEF R
  <2>2. /\ {"name", "key", "retired"} \subseteq DOMAIN row[k]
        /\ \A v \in Text \cup {None} : [row[k] EXCEPT !["name"] = v] \in RoleRow
        /\ \A v \in Key : [row[k] EXCEPT !["key"] = v] \in RoleRow
        /\ \A v \in BOOLEAN : [row[k] EXCEPT !["retired"] = v] \in RoleRow
    BY <2>1 DEF RoleRow
  <2>3. QED
    BY <1>1, <1>3, <2>1, <2>2 DEF IsRow
<1>4. CASE table = "recipe"
  <2>1. k = S(k[2]) /\ k[2] \in Recipe /\ row[k] \in RecipeRow
    BY <1>1, <1>4, RowIs DEF S
  <2>2. /\ {"note", "retired"} \subseteq DOMAIN row[k]
        /\ \A v \in Text \cup {None} : [row[k] EXCEPT !["note"] = v] \in RecipeRow
        /\ \A v \in BOOLEAN : [row[k] EXCEPT !["retired"] = v] \in RecipeRow
    BY <2>1 DEF RecipeRow
  <2>3. QED
    BY <1>1, <1>4, <2>1, <2>2 DEF IsRow
<1>5. CASE table = "exception"
  <2>1. k = E(k[2]) /\ k[2] \in Exception /\ row[k] \in ExceptionRow
    BY <1>1, <1>5, RowIs DEF E
  <2>2. /\ "retired" \in DOMAIN row[k]
        /\ \A v \in BOOLEAN : [row[k] EXCEPT !["retired"] = v] \in ExceptionRow
    BY <2>1 DEF ExceptionRow
  <2>3. QED
    BY <1>1, <1>5, <2>1, <2>2 DEF IsRow
<1>6. QED
  BY <1>1, <1>2, <1>3, <1>4, <1>5

FieldStep(c, q) ==
    \/ q \in DayNoteRequests /\ SetDayNote(c, q)
    \/ q \in DayVisibilityRequests /\ SetDayVisibility(c, q)
    \/ q \in DayLifecycleRequests /\ SetDayLifecycle(c, q)
    \/ q \in RoleNameRequests /\ SetRoleName(c, q)
    \/ q \in RolePositionRequests /\ SetRolePosition(c, q)
    \/ q \in RoleLifecycleRequests /\ SetRoleLifecycle(c, q)
    \/ q \in RecipeNoteRequests /\ SetRecipeNote(c, q)
    \/ q \in RecipeLifecycleRequests /\ SetRecipeLifecycle(c, q)
    \/ q \in ExceptionLifecycleRequests /\ SetExceptionLifecycle(c, q)

LEMMA FieldStepInv ==
    ASSUME IInv, NEW c \in Command, Fresh(c), NEW q, FieldStep(c, q), UNCHANGED tags
    PROVE  IInv'
<1>1. CASE q \in DayNoteRequests /\ SetDayNote(c, q)
  <2>1. q.kind = "day_note" /\ q.time \in Nat /\ q.at \in Rows("day")
        /\ q.value \in Text \cup {None}
    BY <1>1, WallTimesAssumption DEF DayNoteRequests
  <2>2. RowOf(q) = q.at /\ FieldOf(q.kind) = "note" /\ TableOf(q.kind) = "day"
    BY <2>1 DEF RowOf, FieldOf, TableOf
  <2>3. /\ q.at \in DOMAIN row /\ q.at[1] = "day" /\ "note" \in DOMAIN row[q.at]
        /\ IsRow(q.at, [row[q.at] EXCEPT !["note"] = q.value])
    BY <2>1, TableIs
  <2>4. IsRequest(q) /\ q.kind \in FieldKinds \ {"create_day", "create_role", "add_exception"}
    BY <2>1, <2>2, <2>3 DEF IsRequest, FieldKinds
  <2>5. Decide(c, q, Frozen(q.at), "note")
    BY <1>1 DEF SetDayNote
  <2>6. QED
    BY <2>2, <2>3, <2>4, <2>5, DecideStep
<1>2. CASE q \in DayVisibilityRequests /\ SetDayVisibility(c, q)
  <2>1. q.kind = "day_visibility" /\ q.time \in Nat /\ q.at \in Rows("day")
        /\ q.value \in BOOLEAN
    BY <1>2, WallTimesAssumption DEF DayVisibilityRequests
  <2>2. RowOf(q) = q.at /\ FieldOf(q.kind) = "visible" /\ TableOf(q.kind) = "day"
    BY <2>1 DEF RowOf, FieldOf, TableOf
  <2>3. /\ q.at \in DOMAIN row /\ q.at[1] = "day" /\ "visible" \in DOMAIN row[q.at]
        /\ IsRow(q.at, [row[q.at] EXCEPT !["visible"] = q.value])
    BY <2>1, TableIs
  <2>4. IsRequest(q) /\ q.kind \in FieldKinds \ {"create_day", "create_role", "add_exception"}
    BY <2>1, <2>2, <2>3 DEF IsRequest, FieldKinds
  <2>5. Decide(c, q, Frozen(q.at), "visible")
    BY <1>2 DEF SetDayVisibility
  <2>6. QED
    BY <2>2, <2>3, <2>4, <2>5, DecideStep
<1>3. CASE q \in DayLifecycleRequests /\ SetDayLifecycle(c, q)
  <2>1. q.kind = "day_lifecycle" /\ q.time \in Nat /\ q.at \in Rows("day")
        /\ q.value \in BOOLEAN
    BY <1>3, WallTimesAssumption DEF DayLifecycleRequests
  <2>2. RowOf(q) = q.at /\ FieldOf(q.kind) = "retired" /\ TableOf(q.kind) = "day"
    BY <2>1 DEF RowOf, FieldOf, TableOf
  <2>3. /\ q.at \in DOMAIN row /\ q.at[1] = "day" /\ "retired" \in DOMAIN row[q.at]
        /\ IsRow(q.at, [row[q.at] EXCEPT !["retired"] = q.value])
    BY <2>1, TableIs
  <2>4. IsRequest(q) /\ q.kind \in FieldKinds \ {"create_day", "create_role", "add_exception"}
    BY <2>1, <2>2, <2>3 DEF IsRequest, FieldKinds
  <2>5. CASE RestoreRaises(c, q) /\ Abort(c) /\ UNCHANGED planVars
    BY <2>5, RefusedStep DEF planVars
  <2>6. CASE ~RestoreRaises(c, q) /\ Decide(c, q, ~EventActive \/ ~Has(q.at), "retired")
    <3> DEFINE refused == ~EventActive \/ ~Has(q.at)
    <3>1. /\ Decide(c, q, refused, "retired")
          /\ ~TooFarAhead(q) /\ ~refused /\ ~q.value /\ Wins(<<q.at, "retired">>, StampOf(c, q))
                => ~Occupied(row[q.at].date, q.at)
      BY <2>6 DEF RestoreRaises
    <3> HIDE DEF refused
    <3>2. QED
      BY <2>2, <2>3, <2>4, <3>1, DecideStep
  <2>7. QED
    BY <1>3, <2>5, <2>6 DEF SetDayLifecycle
<1>4. CASE q \in RoleNameRequests /\ SetRoleName(c, q)
  <2>1. q.kind = "role_name" /\ q.time \in Nat /\ q.at \in Rows("role")
        /\ q.value \in Text \cup {None}
    BY <1>4, WallTimesAssumption DEF RoleNameRequests
  <2>2. RowOf(q) = q.at /\ FieldOf(q.kind) = "name" /\ TableOf(q.kind) = "role"
    BY <2>1 DEF RowOf, FieldOf, TableOf
  <2>3. /\ q.at \in DOMAIN row /\ q.at[1] = "role" /\ "name" \in DOMAIN row[q.at]
        /\ IsRow(q.at, [row[q.at] EXCEPT !["name"] = q.value])
    BY <2>1, TableIs
  <2>4. IsRequest(q) /\ q.kind \in FieldKinds \ {"create_day", "create_role", "add_exception"}
    BY <2>1, <2>2, <2>3 DEF IsRequest, FieldKinds
  <2>5. PICK refused : Decide(c, q, refused, "name")
    BY <1>4 DEF SetRoleName
  <2>6. QED
    BY <2>2, <2>3, <2>4, <2>5, DecideStep
<1>5. CASE q \in RolePositionRequests /\ SetRolePosition(c, q)
  <2>1. q.kind = "role_position" /\ q.time \in Nat /\ q.at \in Rows("role") /\ q.value \in Key
    BY <1>5, WallTimesAssumption, PlanAssumption DEF RolePositionRequests
  <2>2. RowOf(q) = q.at /\ FieldOf(q.kind) = "key" /\ TableOf(q.kind) = "role"
    BY <2>1 DEF RowOf, FieldOf, TableOf
  <2>3. /\ q.at \in DOMAIN row /\ q.at[1] = "role" /\ "key" \in DOMAIN row[q.at]
        /\ IsRow(q.at, [row[q.at] EXCEPT !["key"] = q.value])
    BY <2>1, TableIs
  <2>4. IsRequest(q) /\ q.kind \in FieldKinds \ {"create_day", "create_role", "add_exception"}
    BY <2>1, <2>2, <2>3 DEF IsRequest, FieldKinds
  <2>5. Decide(c, q, Frozen(q.at), "key")
    BY <1>5 DEF SetRolePosition
  <2>6. QED
    BY <2>2, <2>3, <2>4, <2>5, DecideStep
<1>6. CASE q \in RoleLifecycleRequests /\ SetRoleLifecycle(c, q)
  <2>1. q.kind = "role_lifecycle" /\ q.time \in Nat /\ q.at \in Rows("role")
        /\ q.value \in BOOLEAN
    BY <1>6, WallTimesAssumption DEF RoleLifecycleRequests
  <2>2. RowOf(q) = q.at /\ FieldOf(q.kind) = "retired" /\ TableOf(q.kind) = "role"
    BY <2>1 DEF RowOf, FieldOf, TableOf
  <2>3. /\ q.at \in DOMAIN row /\ q.at[1] = "role" /\ "retired" \in DOMAIN row[q.at]
        /\ IsRow(q.at, [row[q.at] EXCEPT !["retired"] = q.value])
    BY <2>1, TableIs
  <2>4. IsRequest(q) /\ q.kind \in FieldKinds \ {"create_day", "create_role", "add_exception"}
    BY <2>1, <2>2, <2>3 DEF IsRequest, FieldKinds
  <2>5. Decide(c, q, ~EventActive \/ ~Has(q.at), "retired")
    BY <1>6 DEF SetRoleLifecycle
  <2>6. QED
    BY <2>2, <2>3, <2>4, <2>5, DecideStep
<1>7. CASE q \in RecipeNoteRequests /\ SetRecipeNote(c, q)
  <2>1. q.kind = "recipe_note" /\ q.time \in Nat /\ q.at \in Rows("recipe")
        /\ q.value \in Text \cup {None}
    BY <1>7, WallTimesAssumption DEF RecipeNoteRequests
  <2>2. RowOf(q) = q.at /\ FieldOf(q.kind) = "note" /\ TableOf(q.kind) = "recipe"
    BY <2>1 DEF RowOf, FieldOf, TableOf
  <2>3. /\ q.at \in DOMAIN row /\ q.at[1] = "recipe" /\ "note" \in DOMAIN row[q.at]
        /\ IsRow(q.at, [row[q.at] EXCEPT !["note"] = q.value])
    BY <2>1, TableIs
  <2>4. IsRequest(q) /\ q.kind \in FieldKinds \ {"create_day", "create_role", "add_exception"}
    BY <2>1, <2>2, <2>3 DEF IsRequest, FieldKinds
  <2>5. Decide(c, q, Frozen(q.at), "note")
    BY <1>7 DEF SetRecipeNote
  <2>6. QED
    BY <2>2, <2>3, <2>4, <2>5, DecideStep
<1>8. CASE q \in RecipeLifecycleRequests /\ SetRecipeLifecycle(c, q)
  <2>1. q.kind = "recipe_lifecycle" /\ q.time \in Nat /\ q.at \in Rows("recipe")
        /\ q.value \in BOOLEAN
    BY <1>8, WallTimesAssumption DEF RecipeLifecycleRequests
  <2>2. RowOf(q) = q.at /\ FieldOf(q.kind) = "retired" /\ TableOf(q.kind) = "recipe"
    BY <2>1 DEF RowOf, FieldOf, TableOf
  <2>3. /\ q.at \in DOMAIN row /\ q.at[1] = "recipe" /\ "retired" \in DOMAIN row[q.at]
        /\ IsRow(q.at, [row[q.at] EXCEPT !["retired"] = q.value])
    BY <2>1, TableIs
  <2>4. IsRequest(q) /\ q.kind \in FieldKinds \ {"create_day", "create_role", "add_exception"}
    BY <2>1, <2>2, <2>3 DEF IsRequest, FieldKinds
  <2>5. Decide(c, q, ~EventActive \/ ~Has(q.at), "retired")
    BY <1>8 DEF SetRecipeLifecycle
  <2>6. QED
    BY <2>2, <2>3, <2>4, <2>5, DecideStep
<1>9. CASE q \in ExceptionLifecycleRequests /\ SetExceptionLifecycle(c, q)
  <2>1. q.kind = "exception_lifecycle" /\ q.time \in Nat /\ q.at \in Rows("exception")
        /\ q.value \in BOOLEAN
    BY <1>9, WallTimesAssumption DEF ExceptionLifecycleRequests
  <2>2. RowOf(q) = q.at /\ FieldOf(q.kind) = "retired" /\ TableOf(q.kind) = "exception"
    BY <2>1 DEF RowOf, FieldOf, TableOf
  <2>3. /\ q.at \in DOMAIN row /\ q.at[1] = "exception" /\ "retired" \in DOMAIN row[q.at]
        /\ IsRow(q.at, [row[q.at] EXCEPT !["retired"] = q.value])
    BY <2>1, TableIs
  <2>4. IsRequest(q) /\ q.kind \in FieldKinds \ {"create_day", "create_role", "add_exception"}
    BY <2>1, <2>2, <2>3 DEF IsRequest, FieldKinds
  <2>5. Decide(c, q, ~EventActive \/ ~Has(q.at), "retired")
    BY <1>9 DEF SetExceptionLifecycle
  <2>6. QED
    BY <2>2, <2>3, <2>4, <2>5, DecideStep
<1>10. QED
  BY <1>1, <1>2, <1>3, <1>4, <1>5, <1>6, <1>7, <1>8, <1>9 DEF FieldStep

-----------------------------------------------------------------------------
(* The commands that add rows. *)

(* The days among the rows new fit those of rows: on their dates no other day is  *)
(* active, and those of the server have the next number.                     *)
DaysFit(rows, new) ==
    /\ IsFiniteSet(DaysIn(new))
    /\ \A k \in DaysIn(new) : \A l \in DaysIn(rows) :
          rows[l].date = new[k].date => rows[l].retired
    /\ \A k, l \in DaysIn(new) : new[k].date = new[l].date => k = l
    /\ \A k \in DaysIn(new) :
          k[2] \in Date \X Nat =>
             /\ new[k].date = k[2][1]
             /\ k[2][2] = Cardinality(DaysOn(rows, k[2][1]))

LEMMA AddPlan ==
    ASSUME NEW e, NEW rows, IsPlan(e, rows), NEW new, DOMAIN new \cap DOMAIN rows = {},
           \A k \in DOMAIN new : IsRow(k, new[k]), DaysFit(rows, new),
           NEW all, DOMAIN all = DOMAIN rows \cup DOMAIN new,
           \A k \in DOMAIN rows : all[k] = rows[k], \A k \in DOMAIN new : all[k] = new[k],
           \A k \in DOMAIN new : k[1] = "tag" => E(k[2]) \in DOMAIN all,
           NEW e1 \in Event, e1.lifecycle # "none", e1.start \in Date, e1.end \in Date
    PROVE  IsPlan(e1, all)
<1>1. /\ \A k \in DOMAIN rows : IsRow(k, rows[k])
      /\ \A k \in DOMAIN rows : k[1] = "tag" => E(k[2]) \in DOMAIN rows
      /\ IsFiniteSet(DaysIn(rows))
      /\ \A k, l \in DaysIn(rows) :
            rows[k].date = rows[l].date /\ ~rows[k].retired /\ ~rows[l].retired => k = l
      /\ \A k \in DaysIn(rows) :
            k[2] \in Date \X Nat =>
               rows[k].date = k[2][1] /\ k[2][2] < Cardinality(DaysOn(rows, k[2][1]))
  BY PlanIs
<1>2. /\ DaysIn(all) = DaysIn(rows) \cup DaysIn(new)
      /\ \A k \in DaysIn(rows) : k \in DOMAIN rows /\ all[k] = rows[k]
      /\ \A k \in DaysIn(new) : k \in DOMAIN new /\ all[k] = new[k] /\ k \notin DaysIn(rows)
  BY DEF DaysIn
<1>3. IsFiniteSet(DaysIn(all))
  <2>1. IsFiniteSet(DaysIn(rows)) /\ IsFiniteSet(DaysIn(new))
    BY <1>1 DEF DaysFit
  <2>2. IsFiniteSet(DaysIn(rows) \cup DaysIn(new))
    BY <2>1, FS_Union
  <2>3. QED
    BY <1>2, <2>2
<1>4. \A date : /\ IsFiniteSet(DaysOn(all, date)) /\ IsFiniteSet(DaysOn(rows, date))
                /\ DaysOn(rows, date) \subseteq DaysOn(all, date)
  <2>1. \A date : DaysOn(all, date) \subseteq DaysIn(all)
                  /\ DaysOn(rows, date) \subseteq DaysIn(rows)
                  /\ DaysOn(rows, date) \subseteq DaysOn(all, date)
    BY <1>2 DEF DaysOn
  <2>2. QED
    BY <1>1, <1>3, <2>1, FS_Subset
<1>5. \A date : /\ Cardinality(DaysOn(all, date)) \in Nat
                /\ Cardinality(DaysOn(rows, date)) \in Nat
                /\ Cardinality(DaysOn(rows, date)) <= Cardinality(DaysOn(all, date))
  BY <1>4, FS_Subset, FS_CardinalityType
<1>6. ASSUME NEW k \in DaysIn(all), k[2] \in Date \X Nat
      PROVE  all[k].date = k[2][1] /\ k[2][2] < Cardinality(DaysOn(all, k[2][1]))
  <2>1. k[2][2] \in Nat
    BY <1>6
  <2>2. CASE k \in DaysIn(rows)
    BY <1>1, <1>2, <1>5, <1>6, <2>1, <2>2
  <2>3. CASE k \in DaysIn(new)
    <3> DEFINE date == k[2][1]
    <3>1. all[k].date = date /\ k[2][2] = Cardinality(DaysOn(rows, date))
      BY <1>2, <1>6, <2>3 DEF DaysFit
    <3>2. k \in DaysOn(all, date) /\ k \notin DaysOn(rows, date)
      BY <1>2, <2>3, <3>1 DEF DaysOn
    <3> HIDE DEF date
    <3>3. Cardinality(DaysOn(rows, date) \cup {k}) = Cardinality(DaysOn(rows, date)) + 1
      BY <1>4, <3>2, FS_AddElement
    <3>4. DaysOn(rows, date) \cup {k} \subseteq DaysOn(all, date)
      BY <1>4, <3>2
    <3>5. Cardinality(DaysOn(rows, date) \cup {k}) <= Cardinality(DaysOn(all, date))
      BY <1>4, <3>4, FS_Subset
    <3>6. k[2][2] < Cardinality(DaysOn(all, date))
      BY <1>5, <3>1, <3>3, <3>5
    <3>7. QED
      BY <3>1, <3>6 DEF date
  <2>4. QED
    BY <1>2, <2>2, <2>3
<1>7. ASSUME NEW k \in DaysIn(all), NEW l \in DaysIn(all), all[k].date = all[l].date,
             ~all[k].retired, ~all[l].retired
      PROVE  k = l
  BY <1>1, <1>2, <1>7 DEF DaysFit
<1>8. /\ \A k \in DOMAIN all : IsRow(k, all[k])
      /\ \A k \in DOMAIN all : k[1] = "tag" => E(k[2]) \in DOMAIN all
  BY <1>1
<1>9. e1 # NoEvent
  BY DEF NoEvent
<1>10. QED
  BY <1>3, <1>6, <1>7, <1>8, <1>9 DEF IsPlan

(* Rows are added, and no tag to an exception that is there. *)
Adds(rows, all) ==
    /\ DOMAIN rows \subseteq DOMAIN all /\ \A k \in DOMAIN rows : all[k] = rows[k]
    /\ \A k \in DOMAIN all \ DOMAIN rows : k[1] = "tag" => E(k[2]) \notin DOMAIN rows

LEMMA AddedReads ==
    ASSUME NEW e, NEW rows, NEW all, \A k \in DOMAIN rows : IsRow(k, rows[k]),
           Adds(rows, all), NEW f, Present(e, rows, f)
    PROVE  Reading(e, all, f) = Reading(e, rows, f)
<1>1. CASE f[1] = Ev
  BY <1>1 DEF Reading
<1>2. CASE f[1] # Ev /\ f[2] # "tags"
  <2>1. f[1] \in DOMAIN rows
    BY <1>2 DEF Present
  <2>2. all[f[1]] = rows[f[1]]
    BY <2>1 DEF Adds
  <2>3. QED
    BY <1>2, <2>2 DEF Reading
<1>3. CASE f[1] # Ev /\ f[2] = "tags"
  <2>1. f[1] \in DOMAIN rows /\ f[1][1] = "exception"
    <3>1. f[1] \in DOMAIN rows /\ (f[1][1] = "exception" \/ "tags" \in DOMAIN rows[f[1]])
      BY <1>3 DEF Present
    <3>2. "tags" \notin DOMAIN rows[f[1]]
      BY <3>1, RowIs DEF Tables, DayRow, RoleRow, RecipeRow, ExceptionRow, TagRow
    <3>3. QED
      BY <3>1, <3>2
  <2> DEFINE x == f[1][2]
  <2>2. E(x) \in DOMAIN rows
    BY <2>1, RowIs DEF E
  <2>3. ASSUME NEW t \in Tag
        PROVE  /\ T(x, t) \in DOMAIN all <=> T(x, t) \in DOMAIN rows
               /\ T(x, t) \in DOMAIN rows => all[T(x, t)] = rows[T(x, t)]
    BY <2>2, KeyIs DEF Adds
  <2>4. TagsIn(all, x) = TagsIn(rows, x)
    BY <2>3 DEF TagsIn
  <2>5. QED
    BY <1>3, <2>4 DEF Reading
<1>4. QED
  BY <1>1, <1>2, <1>3

LEMMA AddStep ==
    ASSUME IInv, NEW c \in Command, Fresh(c), NEW q, IsRequest(q), NEW won, NEW new,
           Conclude(c, q, "accepted", won, new), row' = Overlaid(row, new),
           UNCHANGED <<event, tags>>, event.lifecycle # "none",
           DOMAIN new \cap DOMAIN row = {}, \A k \in DOMAIN new : IsRow(k, new[k]),
           DaysFit(row, new),
           \A k \in DOMAIN new : k[1] = "tag" => E(k[2]) \in DOMAIN new,
           \A f : ~OfTag(f) => (f \in won <=> AimsAt(q, f)),
           \A f \in won : f[1] # Ev /\ Present(event, new, f),
           \A f \in won : ~OfTag(f) => Reading(event, row', f) = Asking(q, f)
    PROVE  IInv'
<1>1. /\ \A k \in DOMAIN row : IsRow(k, row[k])
      /\ IsPlan(event, row) /\ event \in Event /\ tags \subseteq Tag
      /\ \A g \in DOMAIN clock : Present(event, row, g)
  BY IInvIs
<1>2. /\ DOMAIN row' = DOMAIN row \cup DOMAIN new
      /\ \A k \in DOMAIN new : row'[k] = new[k]
      /\ \A k \in DOMAIN row : row'[k] = row[k]
  BY DEF Overlaid
<1>3. event # NoEvent
  BY DEF NoEvent
<1>4. event.start \in Date /\ event.end \in Date
  BY <1>1, <1>3, PlanIs
<1>5. IsPlan(event, row')
  BY <1>1, <1>2, <1>4, AddPlan
<1>6. Adds(row, row')
  <2>1. \A k \in DOMAIN new : k[1] = "tag" => E(k[2]) \notin DOMAIN row
    OBVIOUS
  <2>2. QED
    BY <1>2, <2>1 DEF Adds
<1>7. \A f \in won : f[1] \in DOMAIN new
  BY DEF Present
<1>8. \A f \in won : f \notin DOMAIN clock /\ Present(event, row', f)
  <2>1. ASSUME NEW f \in won
        PROVE  f \notin DOMAIN clock
    <3>1. ~Present(event, row, f)
      BY <1>7 DEF Present
    <3>2. QED
      BY <1>1, <3>1
  <2>2. ASSUME NEW f \in won
        PROVE  Present(event, row', f)
    <3>1. Present(event, new, f) /\ f[1] # Ev
      OBVIOUS
    <3>2. QED
      BY <1>2, <3>1 DEF Present
  <2>3. QED
    BY <2>1, <2>2
<1>9. Honours(c, q, won)
  <2>1. \A f : ~OfTag(f) => (f \in won <=> AimsAt(q, f) /\ Wins(f, StampOf(c, q)))
    BY <1>8 DEF Wins
  <2>2. ASSUME NEW f \in DOMAIN clock
        PROVE  Reading(event, row', f) = Reading(event, row, f)
    BY <1>1, <1>6, AddedReads
  <2>3. QED
    BY <1>8, <2>1, <2>2 DEF Honours
<1>10. Tells(new)
  <2>1. Ev \notin DOMAIN new
    BY RowIs
  <2>2. QED
    BY <1>2, <2>1 DEF Tells, SameButPlace
<1>11. QED
  <2>1. IsPlan(event', row') /\ tags' \subseteq Tag /\ DOMAIN row \subseteq DOMAIN row'
    BY <1>1, <1>2, <1>5
  <2>2. event # NoEvent => event' # NoEvent
    OBVIOUS
  <2>3. QED
    BY <1>9, <1>10, <2>1, <2>2, CommitStep

LEMMA InsertStep ==
    ASSUME IInv, NEW c \in Command, Fresh(c), NEW q, IsRequest(q), NEW k, k \notin DOMAIN row,
           NEW r, IsRow(k, r), k[1] # "tag", NEW x, x # "tags", Insert(c, q, k, r, {x}),
           EventActive, UNCHANGED <<event, tags>>,
           k[1] = "day" =>
              k[2] \notin Date \X Nat
              /\ \A l \in DaysIn(row) : row[l].date = r.date => row[l].retired,
           \A f : AimsAt(q, f) <=> f = <<k, x>>,
           Present(event, Only(k, r), <<k, x>>),
           Reading(event, Only(k, r), <<k, x>>) = Asking(q, <<k, x>>)
    PROVE  IInv'
<1> DEFINE won == {<<k, f>> : f \in {x}}
           new == Only(k, r)
<1>1. /\ row' = Overlaid(row, new) /\ Conclude(c, q, "accepted", won, new)
  BY DEF Insert
<1>2. DOMAIN new = {k} /\ new[k] = r
  BY DEF Only
<1>3. \A f : f \in won <=> f = <<k, x>>
  OBVIOUS
<1>4. k # Ev
  BY RowIs
<1>5. row'[k] = r
  BY <1>1, <1>2 DEF Overlaid
<1> HIDE DEF new, won
<1>6. DaysFit(row, new)
  <2>1. DaysIn(new) \subseteq {k} /\ (k \in DaysIn(new) => k[1] = "day")
    BY <1>2 DEF DaysIn
  <2>2. IsFiniteSet(DaysIn(new))
    BY <2>1, FS_Singleton, FS_Subset
  <2>3. QED
    BY <1>2, <2>1, <2>2 DEF DaysFit
<1>7. Reading(event, row', <<k, x>>) = Asking(q, <<k, x>>)
  <2>1. Reading(event, row', <<k, x>>) = Reading(event, Only(k, r), <<k, x>>)
    BY <1>2, <1>4, <1>5 DEF Reading, new
  <2>2. QED
    BY <2>1
<1>8. \A f \in won : f[1] # Ev /\ Present(event, new, f)
  BY <1>3, <1>4 DEF new
<1>9. /\ \A l \in DOMAIN new : IsRow(l, new[l]) /\ l[1] # "tag"
      /\ DOMAIN new \cap DOMAIN row = {}
  BY <1>2
<1>10. event.lifecycle # "none"
  BY DEF EventActive
<1>11. /\ \A f : ~OfTag(f) => (f \in won <=> AimsAt(q, f))
       /\ \A f \in won : ~OfTag(f) => Reading(event, row', f) = Asking(q, f)
  BY <1>3, <1>7
<1>12. QED
  BY <1>1, <1>6, <1>8, <1>9, <1>10, <1>11, AddStep

LEMMA CreateDayInv ==
    ASSUME IInv, NEW c \in Command, Fresh(c), NEW q \in CreateDayRequests, CreateDay(c, q),
           UNCHANGED tags
    PROVE  IInv'
<1>1. CASE CreateDayRefused(q) /\ Reject(c) /\ UNCHANGED row
  BY <1>1, RefusedStep DEF CreateDay
<1>2. CASE ~CreateDayRefused(q) /\ Insert(c, q, D(q.day), NewDay(q.date), {"visible"})
  <2>1. q.kind = "create_day" /\ q.time \in Nat /\ q.day \in Day /\ q.date \in Date
    BY WallTimesAssumption DEF CreateDayRequests
  <2>2. /\ RowOf(q) = D(q.day) /\ FieldOf(q.kind) = "visible" /\ TableOf(q.kind) = "day"
        /\ Written(q) = TRUE /\ q.kind \in FieldKinds
    BY <2>1 DEF RowOf, FieldOf, TableOf, Written, FieldKinds
  <2>3. IsRequest(q)
    BY <2>1, <2>2, KeyIs DEF IsRequest
  <2>4. /\ EventActive /\ D(q.day) \notin DOMAIN row
        /\ \A l \in DaysIn(row) : row[l].date = q.date => row[l].retired
    BY <1>2 DEF CreateDayRefused, Has, DaysOf, DaysOn
  <2>5. IsRow(D(q.day), NewDay(q.date)) /\ NewDay(q.date).date = q.date
        /\ NewDay(q.date).visible = TRUE /\ "visible" \in DOMAIN NewDay(q.date)
    <3>1. NewDay(q.date) \in DayRow
      BY <2>1 DEF NewDay, DayRow
    <3>2. QED
      BY <2>1, <3>1, IsRowOf DEF NewDay
  <2>6. D(q.day)[1] = "day" /\ D(q.day)[2] \notin Date \X Nat
    BY <2>1, KeyIs, IdentityAssumption DEF Date
  <2>7. \A f : AimsAt(q, f) <=> f = <<D(q.day), "visible">>
    BY <2>1, <2>2 DEF AimsAt
  <2>8. /\ DOMAIN Only(D(q.day), NewDay(q.date)) = {D(q.day)}
        /\ Only(D(q.day), NewDay(q.date))[D(q.day)] = NewDay(q.date)
    BY OnlyIs
  <2>9. Present(event, Only(D(q.day), NewDay(q.date)), <<D(q.day), "visible">>)
    BY <2>5, <2>8 DEF Present
  <2>10. D(q.day) # Ev
    BY DEF D, Ev
  <2>11. Reading(event, Only(D(q.day), NewDay(q.date)), <<D(q.day), "visible">>) = TRUE
    BY <2>5, <2>8, <2>10 DEF Reading
  <2>12. Asking(q, <<D(q.day), "visible">>) = TRUE
    BY <2>2, <2>10 DEF Asking
  <2>13. UNCHANGED <<event, tags>>
    BY DEF CreateDay
  <2>14. QED
    BY <1>2, <2>3, <2>4, <2>5, <2>6, <2>7, <2>9, <2>11, <2>12, <2>13, InsertStep
<1>3. QED
  BY <1>1, <1>2 DEF CreateDay

LEMMA CreateRoleInv ==
    ASSUME IInv, NEW c \in Command, Fresh(c), NEW q \in CreateRoleRequests, CreateRole(c, q),
           UNCHANGED tags
    PROVE  IInv'
<1>1. CASE CreateRoleRefused(q) /\ Reject(c) /\ UNCHANGED row
  BY <1>1, RefusedStep DEF CreateRole
<1>2. CASE ~CreateRoleRefused(q) /\ Insert(c, q, R(q.role), NewRole(q), {"key"})
  <2>1. q.kind = "create_role" /\ q.time \in Nat /\ q.role \in Role /\ q.name \in Text
    BY WallTimesAssumption DEF CreateRoleRequests
  <2>2. /\ RowOf(q) = R(q.role) /\ FieldOf(q.kind) = "key" /\ TableOf(q.kind) = "role"
        /\ Written(q) = NewRole(q).key /\ q.kind \in FieldKinds
    BY <2>1 DEF RowOf, FieldOf, TableOf, Written, FieldKinds
  <2>3. IsRequest(q)
    BY <2>1, <2>2, KeyIs DEF IsRequest
  <2>4. EventActive /\ R(q.role) \notin DOMAIN row
    BY <1>2 DEF CreateRoleRefused, Has
  <2>5. IsRow(R(q.role), NewRole(q)) /\ "key" \in DOMAIN NewRole(q)
    <3>1. <<Digits - 1>> \in [1 .. 1 -> 0 .. Digits - 1]
      BY KeyAssumption
    <3>2. <<Digits - 1>> \in Key
      <4>1. 1 \in 1 .. KeyLength
        BY KeyAssumption
      <4>2. QED
        BY <3>1, <4>1 DEF Key
    <3>3. NewRole(q) \in RoleRow
      BY <2>1, <3>2 DEF NewRole, RoleRow
    <3>4. QED
      BY <2>1, <3>3, IsRowOf DEF NewRole
  <2>6. R(q.role)[1] = "role"
    BY KeyIs
  <2>7. \A f : AimsAt(q, f) <=> f = <<R(q.role), "key">>
    BY <2>1, <2>2 DEF AimsAt
  <2>8. /\ DOMAIN Only(R(q.role), NewRole(q)) = {R(q.role)}
        /\ Only(R(q.role), NewRole(q))[R(q.role)] = NewRole(q)
    BY OnlyIs
  <2>9. Present(event, Only(R(q.role), NewRole(q)), <<R(q.role), "key">>)
    BY <2>5, <2>8 DEF Present
  <2>10. R(q.role) # Ev
    BY DEF R, Ev
  <2>11. Reading(event, Only(R(q.role), NewRole(q)), <<R(q.role), "key">>) = NewRole(q).key
    BY <2>8, <2>10 DEF Reading
  <2>12. Asking(q, <<R(q.role), "key">>) = NewRole(q).key
    BY <2>2, <2>10 DEF Asking
  <2>13. UNCHANGED <<event, tags>>
    BY DEF CreateRole
  <2>14. QED
    BY <1>2, <2>3, <2>4, <2>5, <2>6, <2>7, <2>9, <2>11, <2>12, <2>13, InsertStep
<1>3. QED
  BY <1>1, <1>2 DEF CreateRole

LEMMA ScheduleInv ==
    ASSUME IInv, NEW c \in Command, Fresh(c), NEW q \in ScheduleRequests, Schedule(c, q),
           UNCHANGED tags
    PROVE  IInv'
<1> DEFINE r == [day |-> q.day, role |-> q.role, key |-> q.key, note |-> None,
                 retired |-> FALSE]
           k == S(q.recipe)
<1>1. CASE ScheduleRefused(q) /\ Reject(c) /\ UNCHANGED row
  BY <1>1, RefusedStep DEF Schedule
<1>2. CASE ~ScheduleRefused(q) /\ Insert(c, q, k, r, {"placement"})
  <2>1. /\ q.kind = "schedule" /\ q.time \in Nat /\ q.recipe \in Recipe
        /\ q.day \in DayIds /\ q.role \in RoleIds /\ q.key \in Key
    BY WallTimesAssumption, PlanAssumption DEF ScheduleRequests
  <2>2. IsRequest(q)
    BY <2>1 DEF IsRequest, FieldKinds
  <2>3. EventActive /\ k \notin DOMAIN row
    BY <1>2 DEF ScheduleRefused, Has
  <2>4. IsRow(k, r)
    <3>1. q.day \in Day \cup (Date \X Nat) /\ q.role \in Role
      <4>1. \A l \in DOMAIN row : IsRow(l, row[l])
        BY IInvIs
      <4>2. QED
        BY <2>1, <4>1, RowIs DEF DayIds, RoleIds, Rows
    <3>2. r \in RecipeRow
      BY <2>1, <3>1 DEF RecipeRow
    <3>3. QED
      BY <2>1, <3>2, IsRowOf
  <2>5. k[1] = "recipe" /\ k # Ev
    BY DEF S, Ev
  <2>6. \A f : AimsAt(q, f) <=> f = <<k, "placement">>
    BY <2>1 DEF AimsAt, FieldKinds
  <2>7. DOMAIN Only(k, r) = {k} /\ Only(k, r)[k] = r
    BY OnlyIs
  <2>8. Present(event, Only(k, r), <<k, "placement">>)
    BY <2>5, <2>7 DEF Present
  <2>9. Reading(event, Only(k, r), <<k, "placement">>) = <<q.day, q.role>>
    BY <2>5, <2>7 DEF Reading
  <2>10. Asking(q, <<k, "placement">>) = <<q.day, q.role>>
    BY <2>5 DEF Asking
  <2>11. UNCHANGED <<event, tags>>
    BY DEF Schedule
  <2> HIDE DEF k, r
  <2>12. QED
    BY <1>2, <2>2, <2>3, <2>4, <2>5, <2>6, <2>8, <2>9, <2>10, <2>11, InsertStep
<1>3. QED
  BY <1>1, <1>2 DEF Schedule

-----------------------------------------------------------------------------
(* Dietary exceptions. *)

LEMMA AddExceptionInv ==
    ASSUME IInv, NEW c \in Command, Fresh(c), NEW q \in AddExceptionRequests,
           AddException(c, q), UNCHANGED tags
    PROVE  IInv'
<1> DEFINE x == q.exception
           k == E(x)
           r == [name |-> q.name, retired |-> FALSE]
           new == Overlaid(Only(k, r), Tagged(x, q.tags))
           won == {<<k, "name">>, <<k, "retired">>} \cup {<<T(x, t), "retired">> : t \in q.tags}
<1>1. CASE AddExceptionRefused(q) /\ Reject(c) /\ UNCHANGED row
  BY <1>1, RefusedStep DEF AddException
<1>2. CASE /\ ~AddExceptionRefused(q) /\ row' = Overlaid(row, new)
           /\ Conclude(c, q, "accepted", won, new)
  <2>1. /\ q.kind = "add_exception" /\ q.time \in Nat /\ x \in Exception
        /\ q.name \in Text /\ q.tags \subseteq Tag
    BY WallTimesAssumption DEF AddExceptionRequests
  <2>2. EventActive /\ k \notin DOMAIN row
    BY <1>2 DEF AddExceptionRefused, Has
  <2>3. /\ RowOf(q) = k /\ FieldOf(q.kind) = "retired" /\ TableOf(q.kind) = "exception"
        /\ Written(q) = FALSE /\ q.kind \in FieldKinds
    BY <2>1 DEF RowOf, FieldOf, TableOf, Written, FieldKinds
  <2>4. IsRequest(q)
    BY <2>1, <2>3, KeyIs DEF IsRequest
  <2>5. /\ DOMAIN new = {k} \cup {T(x, t) : t \in q.tags} /\ new[k] = r
        /\ \A t \in q.tags : new[T(x, t)] = [retired |-> FALSE]
    <3>1. DOMAIN Only(k, r) = {k} /\ Only(k, r)[k] = r
      BY OnlyIs
    <3>2. /\ DOMAIN Tagged(x, q.tags) = {T(x, t) : t \in q.tags}
          /\ \A t \in q.tags : Tagged(x, q.tags)[T(x, t)] = [retired |-> FALSE]
      BY DEF Tagged
    <3>3. \A t : T(x, t) # k
      BY DEF T, E
    <3> HIDE DEF r
    <3>4. QED
      BY <3>1, <3>2, <3>3 DEF Overlaid
  <2>6. \A l \in DOMAIN new : IsRow(l, new[l])
    <3>1. r \in ExceptionRow /\ [retired |-> FALSE] \in TagRow
      BY <2>1 DEF ExceptionRow, TagRow
    <3>2. IsRow(k, r) /\ \A t \in q.tags : IsRow(T(x, t), [retired |-> FALSE])
      BY <2>1, <3>1, IsRowOf
    <3> HIDE DEF r, new
    <3>3. QED
      BY <2>5, <3>2
  <2>7. k # Ev /\ k[1] = "exception" /\ \A t : T(x, t)[1] = "tag" /\ T(x, t)[2] = x
                                              /\ T(x, t) # Ev
    BY DEF E, T, Ev
  <2>8. DOMAIN new \cap DOMAIN row = {}
    <3>1. \A l \in DOMAIN row : l[1] = "tag" => E(l[2]) \in DOMAIN row
      BY IInvIs, PlanIs
    <3>2. QED
      BY <2>2, <2>5, <2>7, <3>1
  <2>9. DaysFit(row, new)
    <3>1. DaysIn(new) = {}
      BY <2>5, <2>7 DEF DaysIn
    <3>2. QED
      BY <3>1, FS_EmptySet DEF DaysFit
  <2>10. \A l \in DOMAIN new : l[1] = "tag" => E(l[2]) \in DOMAIN new
    BY <2>5, <2>7
  <2>11. \A f : ~OfTag(f) => (f \in won <=> AimsAt(q, f))
    <3>1. \A f : AimsAt(q, f) <=> f \in {<<k, "name">>, <<k, "retired">>}
      BY <2>1, <2>3 DEF AimsAt
    <3>2. \A t \in q.tags : OfTag(<<T(x, t), "retired">>)
      BY <2>7 DEF OfTag
    <3>3. QED
      BY <3>1, <3>2
  <2>12. \A f \in won : f[1] # Ev /\ Present(event, new, f)
    <3>1. "name" \in DOMAIN new[k] /\ "retired" \in DOMAIN new[k]
      BY <2>5
    <3>2. \A t \in q.tags : "retired" \in DOMAIN new[T(x, t)]
      <4>1. "retired" \in DOMAIN [retired |-> FALSE]
        OBVIOUS
      <4>2. QED
        BY <2>5, <4>1, Zenon
    <3> HIDE DEF new
    <3>3. \A f \in {<<k, "name">>, <<k, "retired">>} : f[1] # Ev /\ Present(event, new, f)
      BY <2>5, <2>7, <3>1 DEF Present
    <3>4. \A t \in q.tags : Present(event, new, <<T(x, t), "retired">>)
      BY <2>5, <2>7, <3>2 DEF Present
    <3>5. QED
      BY <2>7, <3>3, <3>4
  <2>13. \A f \in won : ~OfTag(f) => Reading(event, row', f) = Asking(q, f)
    <3>1. row'[k] = r
      BY <1>2, <2>5 DEF Overlaid
    <3>2. Reading(event, row', <<k, "name">>) = q.name
          /\ Reading(event, row', <<k, "retired">>) = FALSE
      <4>1. r["name"] = q.name /\ r["retired"] = FALSE
        OBVIOUS
      <4> HIDE DEF r
      <4>2. Reading(event, row', <<k, "name">>) = r["name"]
            /\ Reading(event, row', <<k, "retired">>) = r["retired"]
        BY <2>7, <3>1 DEF Reading
      <4>3. QED
        BY <4>1, <4>2
    <3>3. Asking(q, <<k, "name">>) = q.name /\ Asking(q, <<k, "retired">>) = FALSE
      BY <2>3, <2>7 DEF Asking
    <3>4. \A t \in q.tags : OfTag(<<T(x, t), "retired">>)
      BY <2>7 DEF OfTag
    <3>5. QED
      BY <3>2, <3>3, <3>4
  <2>14. UNCHANGED <<event, tags>> /\ event.lifecycle # "none"
    BY <2>2 DEF AddException, EventActive
  <2> HIDE DEF new, won
  <2>15. QED
    BY <1>2, <2>4, <2>6, <2>8, <2>9, <2>10, <2>11, <2>12, <2>13, <2>14, AddStep
<1>3. QED
  BY <1>1, <1>2 DEF AddException

(* The days are untouched. *)
LEMMA SameDaysPlan ==
    ASSUME NEW e, NEW rows, IsPlan(e, rows), e # NoEvent, NEW rows1,
           DaysIn(rows1) = DaysIn(rows), \A k \in DaysIn(rows) : rows1[k] = rows[k],
           \A k \in DOMAIN rows1 : IsRow(k, rows1[k]),
           \A k \in DOMAIN rows1 : k[1] = "tag" => E(k[2]) \in DOMAIN rows1
    PROVE  IsPlan(e, rows1)
<1>1. \A date : DaysOn(rows1, date) = DaysOn(rows, date)
  BY DEF DaysOn
<1>2. QED
  BY <1>1, PlanIs DEF IsPlan

(* The rows after exception x has been edited by request q, which won. *)
Edited(rows, rows1, q) ==
    LET k == E(q.exception)
    IN  /\ DOMAIN rows1 = DOMAIN rows \cup {T(q.exception, t) : t \in q.tags}
        /\ rows1[k] = [rows[k] EXCEPT !.name = q.name]
        /\ \A t \in Tag : T(q.exception, t) \in DOMAIN rows1 =>
              rows1[T(q.exception, t)] = [retired |-> t \notin q.tags]
        /\ \A l \in DOMAIN rows :
              l # k /\ (\A t \in Tag : l # T(q.exception, t)) => rows1[l] = rows[l]

LEMMA EditedReads ==
    ASSUME NEW e, NEW rows, NEW rows1, NEW q, Edited(rows, rows1, q),
           E(q.exception) \in DOMAIN rows,
           \A k \in DOMAIN rows : IsRow(k, rows[k]), q.tags \subseteq Tag,
           NEW f, ~OfTag(f), Present(e, rows, f)
    PROVE  IF f = <<E(q.exception), "name">> THEN Reading(e, rows1, f) = q.name
           ELSE IF f = <<E(q.exception), "tags">> THEN Reading(e, rows1, f) = q.tags
           ELSE Reading(e, rows1, f) = Reading(e, rows, f)
<1> DEFINE x == q.exception
           k == E(x)
<1>1. /\ DOMAIN rows1 = DOMAIN rows \cup {T(x, t) : t \in q.tags}
      /\ rows1[k] = [rows[k] EXCEPT !.name = q.name]
      /\ \A t \in Tag : T(x, t) \in DOMAIN rows1 => rows1[T(x, t)] = [retired |-> t \notin q.tags]
      /\ \A l \in DOMAIN rows :
            l # k /\ (\A t \in Tag : l # T(x, t)) => rows1[l] = rows[l]
  BY DEF Edited
<1>2. /\ k # Ev /\ k[1] = "exception" /\ k[2] = x
      /\ \A y, t : T(y, t)[1] = "tag" /\ T(y, t)[2] = y /\ T(y, t)[3] = t
  BY DEF E, T, Ev
<1>3. IsRow(k, rows[k])
  OBVIOUS
<1>4. rows[k] \in ExceptionRow
  BY <1>2, <1>3, RowIs
<1>5. DOMAIN rows[k] = {"name", "retired"} /\ rows1[k].name = q.name
      /\ rows1[k].retired = rows[k].retired
  BY <1>1, <1>4 DEF ExceptionRow
<1>6. TagsIn(rows1, x) = q.tags
  <2>1. ASSUME NEW t \in Tag, T(x, t) \in DOMAIN rows1
        PROVE  rows1[T(x, t)].retired <=> t \notin q.tags
    <3> DEFINE left == t \notin q.tags
    <3>1. rows1[T(x, t)] = [retired |-> left]
      BY <1>1, <2>1
    <3> HIDE DEF left
    <3>2. rows1[T(x, t)].retired = left
      BY <3>1
    <3>3. QED
      BY <3>2, Zenon DEF left
  <2>2. \A t \in q.tags : T(x, t) \in DOMAIN rows1
    BY <1>1
  <2>3. QED
    BY <2>1, <2>2 DEF TagsIn
<1>7. \A y : y # x => TagsIn(rows1, y) = TagsIn(rows, y)
  <2>1. ASSUME NEW y, y # x, NEW t \in Tag
        PROVE  /\ T(y, t) \in DOMAIN rows1 <=> T(y, t) \in DOMAIN rows
               /\ T(y, t) \in DOMAIN rows => rows1[T(y, t)] = rows[T(y, t)]
    BY <1>1, <1>2, <2>1
  <2>2. QED
    BY <2>1 DEF TagsIn
<1>8. CASE f[1] = Ev
  BY <1>2, <1>8 DEF Reading
<1>9. CASE f[1] # Ev /\ f[1] # k
  <2>1. f[1] \in DOMAIN rows /\ f[1][1] # "tag"
    BY <1>9 DEF Present, OfTag
  <2>2. rows1[f[1]] = rows[f[1]]
    BY <1>1, <1>2, <1>9, <2>1
  <2>3. f[2] = "tags" => f[1][2] # x
    <3>1. f[2] = "tags" => f[1][1] = "exception"
      <4>1. "tags" \notin DOMAIN rows[f[1]]
        BY <2>1, RowIs DEF Tables, DayRow, RoleRow, RecipeRow, ExceptionRow, TagRow
      <4>2. QED
        BY <1>9, <4>1 DEF Present
    <3>2. f[1][1] = "exception" => f[1] = E(f[1][2])
      BY <2>1, RowIs DEF E
    <3>3. QED
      BY <1>9, <3>1, <3>2
  <2>4. Reading(e, rows1, f) = Reading(e, rows, f)
    BY <1>7, <1>9, <2>2, <2>3 DEF Reading
  <2>5. QED
    BY <1>9, <2>4
<1>10. CASE f[1] = k
  <2>1. f = <<k, f[2]>> /\ f[2] \in {"name", "retired", "tags"}
    BY <1>2, <1>5, <1>10 DEF Present
  <2>2. Reading(e, rows1, <<k, "name">>) = q.name
    BY <1>2, <1>5 DEF Reading
  <2>3. Reading(e, rows1, <<k, "retired">>) = Reading(e, rows, <<k, "retired">>)
    BY <1>2, <1>5 DEF Reading
  <2>4. Reading(e, rows1, <<k, "tags">>) = q.tags
    BY <1>2, <1>6 DEF Reading
  <2>5. QED
    BY <2>1, <2>2, <2>3, <2>4
<1>11. QED
  BY <1>8, <1>9, <1>10

(* An edit that wins both its fields. *)
LEMMA EditStep ==
    ASSUME IInv, NEW c \in Command, Fresh(c), NEW q \in UpdateExceptionRequests,
           E(q.exception) \in DOMAIN row, event.lifecycle # "none",
           Wins(<<E(q.exception), "name">>, StampOf(c, q)),
           Wins(<<E(q.exception), "tags">>, StampOf(c, q)),
           NEW named, named = Only(E(q.exception), [row[E(q.exception)] EXCEPT !.name = q.name]),
           row' = Overlaid(row, Overlaid(named, SetTags(q))),
           NEW changed,
           changed = {y \in DOMAIN SetTags(q) : ~Has(y) \/ SetTags(q)[y].retired \/ row[y].retired},
           NEW won, won = {<<E(q.exception), "name">>, <<E(q.exception), "tags">>}
                            \cup {<<y, "retired">> : y \in changed},
           Conclude(c, q, "accepted", won, Overlaid(named, Records(row', changed))),
           UNCHANGED <<event, tags>>
    PROVE  IInv'
<1> DEFINE x == q.exception
           k == E(x)
           r == [row[k] EXCEPT !.name = q.name]
           set == SetTags(q)
           had == {t \in Tag : Has(T(x, t))}
           records == Overlaid(named, Records(row', changed))
<1>1. /\ q.kind = "update_exception" /\ q.time \in Nat /\ x \in Exception
      /\ q.name \in Text /\ q.tags \subseteq Tag
  BY WallTimesAssumption DEF UpdateExceptionRequests
<1>2. /\ \A l \in DOMAIN row : IsRow(l, row[l])
      /\ IsPlan(event, row) /\ tags \subseteq Tag /\ event # NoEvent
      /\ \A g \in DOMAIN clock : Present(event, row, g)
  BY IInvIs DEF NoEvent
<1>3. IsRequest(q)
  BY <1>1 DEF IsRequest, FieldKinds
<1>4. /\ k # Ev /\ k[1] = "exception" /\ k[2] = x
      /\ \A y, t : /\ T(y, t)[1] = "tag" /\ T(y, t)[2] = y /\ T(y, t)[3] = t
                   /\ T(y, t) # k /\ T(y, t) # Ev
  BY DEF E, T, Ev
<1>5. row[k] \in ExceptionRow
  BY <1>2, <1>4, RowIs
<1>6. r \in ExceptionRow /\ DOMAIN r = {"name", "retired"}
  BY <1>1, <1>5 DEF ExceptionRow
<1>7. /\ DOMAIN set = {T(x, t) : t \in had \cup q.tags}
      /\ \A t \in had \cup q.tags : set[T(x, t)] = [retired |-> t \notin q.tags]
  BY <1>4 DEF SetTags
<1>8. DOMAIN named = {k} /\ named[k] = r
  BY OnlyIs
<1> HIDE DEF r, set
<1>9. /\ DOMAIN row' = DOMAIN row \cup {k} \cup DOMAIN set
      /\ row'[k] = r
      /\ \A y \in DOMAIN set : row'[y] = set[y]
      /\ \A l \in DOMAIN row : l # k /\ l \notin DOMAIN set => row'[l] = row[l]
  <2> DEFINE new == Overlaid(named, set)
  <2>1. /\ DOMAIN new = {k} \cup DOMAIN set /\ new[k] = r
        /\ \A y \in DOMAIN set : new[y] = set[y]
    <3>1. k \notin DOMAIN set
      BY <1>4, <1>7
    <3>2. QED
      BY <1>8, <3>1 DEF Overlaid
  <2>2. row' = Overlaid(row, new)
    BY DEF set
  <2> HIDE DEF new
  <2>3. QED
    BY <2>1, <2>2 DEF Overlaid
<1>10. Edited(row, row', q)
  <2>1. DOMAIN row' = DOMAIN row \cup {T(x, t) : t \in q.tags}
    BY <1>7, <1>9 DEF Has
  <2>2. \A t \in Tag : T(x, t) \in DOMAIN row' => t \in had \cup q.tags
    <3>1. \A t \in Tag : T(x, t) \in DOMAIN row \/ T(x, t) \in DOMAIN set => t \in had \cup q.tags
      BY <1>4, <1>7 DEF Has
    <3>2. QED
      BY <1>4, <1>9, <3>1
  <2>3. \A t \in Tag : T(x, t) \in DOMAIN row' => row'[T(x, t)] = [retired |-> t \notin q.tags]
    <3>1. ASSUME NEW t \in had \cup q.tags
          PROVE  row'[T(x, t)] = [retired |-> t \notin q.tags]
      <4>1. T(x, t) \in DOMAIN set /\ set[T(x, t)] = [retired |-> t \notin q.tags]
        BY <1>7
      <4>2. QED
        BY <1>9, <4>1
    <3>2. QED
      BY <2>2, <3>1
  <2>4. \A l \in DOMAIN row : l # k /\ (\A t \in Tag : l # T(x, t)) => row'[l] = row[l]
    BY <1>1, <1>7, <1>9
  <2>5. row'[k] = [row[k] EXCEPT !.name = q.name]
    BY <1>9 DEF r
  <2>6. QED
    BY <2>1, <2>3, <2>4, <2>5 DEF Edited
<1>11. \A l \in DOMAIN row' : IsRow(l, row'[l])
  <2>1. IsRow(k, row'[k])
    BY <1>1, <1>6, <1>9, IsRowOf
  <2>2. ASSUME NEW t \in had \cup q.tags
        PROVE  IsRow(T(x, t), row'[T(x, t)])
    <3>1. set[T(x, t)] \in TagRow
      <4>1. [retired |-> t \notin q.tags] \in TagRow
        BY DEF TagRow
      <4>2. QED
        BY <1>7, <4>1
    <3>2. t \in Tag /\ row'[T(x, t)] = set[T(x, t)]
      BY <1>1, <1>7, <1>9
    <3>3. QED
      BY <1>1, <3>1, <3>2, IsRowOf
  <2>3. QED
    BY <1>2, <1>7, <1>9, <2>1, <2>2
<1>12. IsPlan(event, row')
  <2>1. \A l \in DOMAIN row' : l \in DOMAIN row \/ l[1] = "tag"
    BY <1>4, <1>7, <1>9
  <2>2. DaysIn(row') = DaysIn(row) /\ \A l \in DaysIn(row) : row'[l] = row[l]
    BY <1>4, <1>7, <1>9, <2>1 DEF DaysIn
  <2>3. \A l \in DOMAIN row' : l[1] = "tag" => E(l[2]) \in DOMAIN row'
    <3>1. \A l \in DOMAIN row : l[1] = "tag" => E(l[2]) \in DOMAIN row
      BY <1>2, PlanIs
    <3>2. \A l \in DOMAIN set : l[2] = x
      BY <1>4, <1>7
    <3>3. QED
      BY <1>4, <1>9, <3>1, <3>2
  <2>4. QED
    BY <1>2, <1>11, <2>2, <2>3, SameDaysPlan
<1>13. \A f : ~OfTag(f) => (f \in won <=> f \in {<<k, "name">>, <<k, "tags">>})
  <2>1. \A y \in changed : OfTag(<<y, "retired">>)
    BY <1>4, <1>7 DEF set, OfTag
  <2>2. QED
    BY <2>1
<1>14. \A f : AimsAt(q, f) <=> f \in {<<k, "name">>, <<k, "tags">>}
  BY <1>1 DEF AimsAt, FieldKinds
<1>15. \A f \in won : Present(event', row', f)
  <2>1. ASSUME NEW y \in changed
        PROVE  Present(event, row', <<y, "retired">>)
    <3>1. y \in DOMAIN row' /\ y[1] = "tag"
      BY <1>4, <1>7, <1>9 DEF set
    <3>2. row'[y] \in TagRow
      BY <1>11, <3>1, RowIs
    <3>3. "retired" \in DOMAIN row'[y]
      BY <3>2 DEF TagRow
    <3>4. QED
      BY <3>1, <3>3 DEF Present
  <2>2. Present(event, row', <<k, "name">>) /\ Present(event, row', <<k, "tags">>)
    BY <1>4, <1>6, <1>9 DEF Present
  <2>3. QED
    BY <2>1, <2>2
<1>16. Honours(c, q, won)
  <2>1. \A f : ~OfTag(f) => (f \in won <=> AimsAt(q, f) /\ Wins(f, StampOf(c, q)))
    BY <1>13, <1>14
  <2>2. ASSUME NEW f, Present(event, row, f), ~OfTag(f)
        PROVE  IF f = <<k, "name">> THEN Reading(event, row', f) = q.name
               ELSE IF f = <<k, "tags">> THEN Reading(event, row', f) = q.tags
               ELSE Reading(event, row', f) = Reading(event, row, f)
    BY <1>1, <1>2, <1>10, <2>2, EditedReads
  <2>3. Present(event, row, <<k, "name">>) /\ Present(event, row, <<k, "tags">>)
        /\ ~OfTag(<<k, "name">>) /\ ~OfTag(<<k, "tags">>)
    BY <1>4, <1>5 DEF Present, OfTag, ExceptionRow
  <2>4. Asking(q, <<k, "name">>) = q.name /\ Asking(q, <<k, "tags">>) = q.tags
    BY <1>1, <1>4 DEF Asking, FieldKinds
  <2>5. Reading(event, row', <<k, "name">>) = q.name
        /\ Reading(event, row', <<k, "tags">>) = q.tags
    BY <2>2, <2>3
  <2>6. \A f \in won : ~OfTag(f) => Reading(event', row', f) = Asking(q, f)
    BY <1>13, <2>4, <2>5
  <2>7. ASSUME NEW f \in DOMAIN clock, ~OfTag(f), f \notin won
        PROVE  Reading(event', row', f) = Reading(event, row, f)
    BY <1>2, <1>13, <2>2, <2>7
  <2>8. QED
    BY <1>15, <2>1, <2>6, <2>7 DEF Honours
<1>17. Tells(records)
  <2>1. /\ DOMAIN records = {k} \cup changed /\ records[k] = r
        /\ \A y \in changed : records[y] = row'[y]
    <3>1. DOMAIN Records(row', changed) = changed
          /\ \A y \in changed : Records(row', changed)[y] = row'[y]
      BY RecordsAre
    <3>2. k \notin changed
      BY <1>4, <1>7 DEF set
    <3>3. QED
      BY <1>8, <3>1, <3>2 DEF Overlaid
  <2> HIDE DEF records
  <2>2. Ev \notin DOMAIN records
    BY <1>4, <1>7, <2>1 DEF set
  <2>3. ASSUME NEW l \in DOMAIN row', l \notin DOMAIN records
        PROVE  l \in DOMAIN row /\ SameButPlace(row'[l], row[l])
    <3>1. CASE l \notin DOMAIN set
      BY <1>9, <2>1, <2>3, <3>1 DEF SameButPlace
    <3>2. CASE l \in DOMAIN set
      <4>1. l \in DOMAIN row /\ ~set[l].retired /\ ~row[l].retired
        BY <2>1, <2>3, <3>2 DEF set, Has
      <4>2. l[1] = "tag" /\ row'[l] = set[l]
        BY <1>4, <1>7, <1>9, <3>2
      <4>3. row[l] \in TagRow /\ row'[l] \in TagRow
        BY <1>2, <1>11, <2>3, <4>1, <4>2, RowIs
      <4>4. row'[l] = row[l]
        BY <4>1, <4>2, <4>3 DEF TagRow
      <4>5. QED
        BY <4>1, <4>4 DEF SameButPlace
    <3>3. QED
      BY <3>1, <3>2
  <2>4. QED
    BY <1>9, <2>1, <2>2, <2>3 DEF Tells
<1> HIDE DEF records
<1>18. QED
  <2>1. Conclude(c, q, "accepted", won, records)
    BY DEF records
  <2>2. DOMAIN row \subseteq DOMAIN row' /\ (event # NoEvent => event' # NoEvent)
    BY <1>9
  <2>3. QED
    BY <1>2, <1>3, <1>12, <1>16, <1>17, <2>1, <2>2, CommitStep

(* A command that wins nothing, and tells of rows as they are. *)
LEMMA UnwonStep ==
    ASSUME IInv, NEW c \in Command, Fresh(c), NEW q, IsRequest(q), NEW records,
           NEW outcome \in {"accepted", "partially_superseded"},
           Conclude(c, q, outcome, {}, records), UNCHANGED <<event, tags>>,
           DOMAIN row' = DOMAIN row, \A k \in DOMAIN row : row'[k] = row[k],
           \A f : AimsAt(q, f) => ~Wins(f, StampOf(c, q)),
           Ev \in DOMAIN records => records[Ev] = event,
           \A k \in DOMAIN row : k \in DOMAIN records => records[k] = row[k]
    PROVE  IInv'
<1>1. /\ \A k \in DOMAIN row : IsRow(k, row[k])
      /\ IsPlan(event, row) /\ event \in Event /\ tags \subseteq Tag
      /\ \A g \in DOMAIN clock : Present(event, row, g)
  BY IInvIs
<1>2. IsPlan(event, row')
  <2>1. /\ event.lifecycle = "none" <=> event = NoEvent
        /\ event # NoEvent => event.start \in Date /\ event.end \in Date
        /\ \A k, l \in DaysIn(row) :
              row[k].date = row[l].date /\ ~row[k].retired /\ ~row[l].retired => k = l
    BY <1>1, PlanIs
  <2>2. \A k \in DaysIn(row) : row'[k] = row[k]
    BY DEF DaysIn
  <2>3. \A k \in DaysIn(row) : row'[k].date = row[k].date
    BY <2>2
  <2>4. \A k, l \in DaysIn(row) :
           row'[k].date = row'[l].date /\ ~row'[k].retired /\ ~row'[l].retired => k = l
    BY <2>1, <2>2
  <2>5. \A k \in DOMAIN row : IsRow(k, row'[k])
    BY <1>1
  <2>6. QED
    BY <1>1, <2>1, <2>3, <2>4, <2>5, SamePlan
<1>3. ASSUME NEW f \in DOMAIN clock
      PROVE  Reading(event, row', f) = Reading(event, row, f)
  <2>1. Present(event, row, f)
    BY <1>1
  <2>2. TagsIn(row', f[1][2]) = TagsIn(row, f[1][2])
    BY DEF TagsIn
  <2>3. f[1] = Ev \/ row'[f[1]] = row[f[1]]
    BY <2>1 DEF Present
  <2>4. QED
    BY <2>2, <2>3 DEF Reading
<1>4. Honours(c, q, {})
  BY <1>3 DEF Honours
<1>5. Tells(records)
  BY DEF Tells, SameButPlace
<1>6. IsPlan(event', row') /\ tags' \subseteq Tag /\ DOMAIN row \subseteq DOMAIN row'
      /\ (event # NoEvent => event' # NoEvent)
  BY <1>1, <1>2
<1>7. QED
  BY <1>4, <1>5, <1>6, CommitStep

LEMMA UpdateExceptionInv ==
    ASSUME IInv, NEW c \in Command, Fresh(c), NEW q \in UpdateExceptionRequests,
           UpdateException(c, q), UNCHANGED tags
    PROVE  IInv'
<1> DEFINE k == E(q.exception)
           fields == {"name", "tags"}
           won == {f \in fields : Wins(<<k, f>>, StampOf(c, q))}
           named == Only(k, [row[k] EXCEPT !.name = IF "name" \in won THEN q.name ELSE @])
           set == IF "tags" \in won THEN SetTags(q) ELSE << >>
           changed == {x \in DOMAIN set : ~Has(x) \/ set[x].retired \/ row[x].retired}
           outcome == IF won = fields THEN "accepted" ELSE "partially_superseded"
           moved == {<<k, f>> : f \in won} \cup {<<x, "retired">> : x \in changed}
           records == Overlaid(named, Records(row', changed))
<1>1. CASE (Reject(c) \/ Abort(c)) /\ UNCHANGED row
  BY <1>1, RefusedStep DEF UpdateException
<1>2. CASE /\ ~UpdateExceptionRefused(q) /\ ClocksHold(outcome, won)
           /\ row' = Overlaid(row, Overlaid(named, set))
           /\ Conclude(c, q, outcome, moved, records)
  <2>1. /\ q.kind = "update_exception" /\ q.time \in Nat /\ q.tags \subseteq Tag
    BY WallTimesAssumption DEF UpdateExceptionRequests
  <2>2. k \in DOMAIN row /\ event.lifecycle # "none"
    BY <1>2 DEF UpdateExceptionRefused, Frozen, Live, Has, EventActive
  <2>3. won = {} \/ won = fields
    BY <1>2 DEF ClocksHold
  <2>4. UNCHANGED <<event, tags>>
    BY DEF UpdateException
  <2>5. CASE won = fields
    <3>1. /\ named = Only(k, [row[k] EXCEPT !.name = q.name]) /\ set = SetTags(q)
          /\ outcome = "accepted"
          /\ Wins(<<k, "name">>, StampOf(c, q)) /\ Wins(<<k, "tags">>, StampOf(c, q))
      BY <2>5
    <3>2. moved = {<<k, "name">>, <<k, "tags">>} \cup {<<y, "retired">> : y \in changed}
      BY <2>5
    <3>3. /\ row' = Overlaid(row, Overlaid(named, SetTags(q)))
          /\ Conclude(c, q, "accepted", moved, records)
          /\ changed = {y \in DOMAIN SetTags(q) :
                          ~Has(y) \/ SetTags(q)[y].retired \/ row[y].retired}
      BY <1>2, <3>1
    <3> HIDE DEF won, named, set, changed, outcome, moved, fields
    <3>4. QED
      BY <2>2, <2>4, <3>1, <3>2, <3>3, EditStep
  <2>6. CASE won = {}
    <3>1. named = Only(k, row[k])
      <4>1. [row[k] EXCEPT !.name = @] = row[k]
        <5>1. row[k] \in ExceptionRow
          BY <2>2, IInvIs, RowIs DEF E
        <5>2. QED
          BY <5>1 DEF ExceptionRow
      <4>2. QED
        BY <2>6, <4>1
    <3>2. DOMAIN set = {} /\ changed = {} /\ moved = {} /\ outcome = "partially_superseded"
      <4>1. outcome = "partially_superseded" /\ set = << >>
        BY <2>6
      <4>2. DOMAIN set = {}
        BY <4>1
      <4> HIDE DEF set
      <4>3. changed = {}
        BY <4>2
      <4> HIDE DEF changed
      <4>4. moved = {}
        BY <2>6, <4>3
      <4>5. QED
        BY <4>1, <4>2, <4>3, <4>4
    <3>3. DOMAIN named = {k} /\ named[k] = row[k]
      BY <3>1, OnlyIs
    <3>4. \A f \in fields : ~Wins(<<k, f>>, StampOf(c, q))
      BY <2>6
    <3> HIDE DEF won, named, set, changed, outcome, moved
    <3>5. DOMAIN row' = DOMAIN row /\ \A l \in DOMAIN row : row'[l] = row[l]
      <4> DEFINE new == Overlaid(named, set)
      <4>1. DOMAIN new = {k} /\ new[k] = row[k]
        BY <3>2, <3>3 DEF Overlaid
      <4>2. row' = Overlaid(row, new)
        BY <1>2
      <4> HIDE DEF new
      <4>3. QED
        BY <2>2, <4>1, <4>2 DEF Overlaid
    <3>6. DOMAIN records = {k} /\ records[k] = row[k]
      <4>1. DOMAIN Records(row', changed) = {}
        BY <3>2 DEF Records
      <4>2. QED
        BY <3>3, <4>1 DEF Overlaid
    <3>7. k # Ev
      BY DEF E, Ev
    <3>8. IsRequest(q)
      BY <2>1 DEF IsRequest, FieldKinds
    <3>9. \A f : AimsAt(q, f) => ~Wins(f, StampOf(c, q))
      <4>1. \A f : AimsAt(q, f) <=> f \in {<<k, "name">>, <<k, "tags">>}
        BY <2>1 DEF AimsAt, FieldKinds
      <4>2. QED
        BY <3>4, <4>1
    <3>10. Conclude(c, q, "partially_superseded", {}, records)
      BY <1>2, <3>2
    <3> HIDE DEF records, k
    <3>11. QED
      BY <2>4, <3>5, <3>6, <3>7, <3>8, <3>9, <3>10, UnwonStep
  <2>7. QED
    BY <2>3, <2>5, <2>6
<1>3. QED
  BY <1>1, <1>2 DEF UpdateException

-----------------------------------------------------------------------------
(* The commands on the event itself. *)

(* The days made for dates that have no active one. *)
LEMMA DaysForAre ==
    ASSUME IInv, NEW dates \in SUBSET Date,
           \A date \in dates : \A k \in DaysOf(date) : row[k].retired
    PROVE  /\ \A date \in dates : D(<<date, Cardinality(DaysOf(date))>>) \in DOMAIN DaysFor(dates)
           /\ \A k \in DOMAIN DaysFor(dates) :
                 /\ k = D(<<k[2][1], Cardinality(DaysOf(k[2][1]))>>) /\ k[2][1] \in dates
                 /\ k[1] = "day" /\ DaysFor(dates)[k] = NewDay(k[2][1])
                 /\ IsRow(k, DaysFor(dates)[k]) /\ k \notin DOMAIN row
           /\ DaysFit(row, DaysFor(dates))
<1> DEFINE Made(date) == D(<<date, Cardinality(DaysOf(date))>>)
           new == DaysFor(dates)
<1>1. /\ IsPlan(event, row) /\ IsFiniteSet(DaysIn(row))
      /\ \A k \in DaysIn(row) :
            k[2] \in Date \X Nat =>
               row[k].date = k[2][1] /\ k[2][2] < Cardinality(DaysOn(row, k[2][1]))
  BY IInvIs, PlanIs
<1>2. \A date : Cardinality(DaysOf(date)) \in Nat
  <2>1. \A date : DaysOn(row, date) \subseteq DaysIn(row)
    BY DEF DaysOn
  <2>2. QED
    BY <1>1, <2>1, FS_Subset, FS_CardinalityType DEF DaysOf
<1>3. \A date : Made(date)[1] = "day" /\ Made(date)[2] = <<date, Cardinality(DaysOf(date))>>
                /\ Made(date)[2][1] = date
  BY KeyIs
<1>4. /\ DOMAIN new = {Made(date) : date \in dates}
      /\ \A date \in dates : new[Made(date)] = NewDay(date)
  BY <1>3 DEF DaysFor
<1>5. \A date \in dates : NewDay(date) \in DayRow /\ NewDay(date).date = date
  BY DEF NewDay, DayRow
<1>6. \A date \in dates : IsRow(Made(date), NewDay(date))
  <2>1. \A date \in dates : <<date, Cardinality(DaysOf(date))>> \in Date \X Nat
    BY <1>2
  <2>2. QED
    BY <1>5, <2>1, IsRowOf
<1>7. \A date \in dates : Made(date) \notin DOMAIN row
  <2>1. ASSUME NEW date \in dates, Made(date) \in DOMAIN row
        PROVE  FALSE
    <3>1. Made(date) \in DaysIn(row) /\ Made(date)[2] \in Date \X Nat
      BY <1>2, <1>3, <2>1 DEF DaysIn
    <3>2. Made(date)[2][2] < Cardinality(DaysOn(row, Made(date)[2][1]))
      BY <1>1, <3>1
    <3>3. Made(date)[2][2] = Cardinality(DaysOn(row, date))
      BY <1>3 DEF DaysOf
    <3> HIDE DEF Made
    <3>4. QED
      BY <1>2, <1>3, <3>2, <3>3 DEF DaysOf
  <2>2. QED
    BY <2>1
<1> HIDE DEF new, Made
<1>8. DaysFit(row, new)
  <2>1. DaysIn(new) = {Made(date) : date \in dates}
    BY <1>3, <1>4 DEF DaysIn
  <2>2. IsFiniteSet(DaysIn(new))
    <3>1. IsFiniteSet(Date)
      BY DateAssumption, FS_Interval DEF Date
    <3>2. IsFiniteSet(dates)
      BY <3>1, FS_Subset
    <3> DEFINE make == [date \in dates |-> Made(date)]
    <3>3. make \in Surjection(dates, DaysIn(new))
      <4>1. make \in [dates -> DaysIn(new)]
        BY <2>1
      <4>2. \A k \in DaysIn(new) : \E date \in dates : make[date] = k
        BY <2>1
      <4>3. QED
        BY <4>1, <4>2 DEF Surjection
    <3>4. QED
      BY <3>2, <3>3, FS_Surjection
  <2>3. \A k \in DaysIn(new) : \A l \in DaysIn(row) :
           row[l].date = new[k].date => row[l].retired
    BY <1>4, <1>5, <2>1 DEF DaysOf, DaysOn
  <2>4. \A k, l \in DaysIn(new) : new[k].date = new[l].date => k = l
    BY <1>4, <1>5, <2>1
  <2>5. \A k \in DaysIn(new) :
           new[k].date = k[2][1] /\ k[2][2] = Cardinality(DaysOn(row, k[2][1]))
    <3>1. \A date \in dates : Made(date)[2][1] = date
                              /\ Made(date)[2][2] = Cardinality(DaysOn(row, date))
      BY <1>3 DEF DaysOf
    <3>2. QED
      BY <1>4, <1>5, <2>1, <3>1
  <2>6. QED
    BY <2>2, <2>3, <2>4, <2>5 DEF DaysFit
<1>9. \A date \in dates : Made(date) \in DOMAIN new
  BY <1>4
<1>10. ASSUME NEW k \in DOMAIN new
       PROVE  /\ k = Made(k[2][1]) /\ k[2][1] \in dates
              /\ k[1] = "day" /\ new[k] = NewDay(k[2][1])
              /\ IsRow(k, new[k]) /\ k \notin DOMAIN row
  BY <1>3, <1>4, <1>6, <1>7
<1>11. QED
  BY <1>8, <1>9, <1>10 DEF new, Made

LEMMA CreateEventInv ==
    ASSUME IInv, NEW c \in Command, Fresh(c), NEW q \in CreateRequests, CreateEvent(c, q),
           UNCHANGED tags
    PROVE  IInv'
<1> DEFINE new == [start |-> q.start, end |-> q.end, name |-> q.name, lifecycle |-> "active"]
           roles == [k \in {R(ro) : ro \in DOMAIN Presets} |-> Presets[k[2]]]
           days == DaysFor(q.start .. q.end)
           rows == Overlaid(roles, days)
           records == Overlaid(EventRecord(new), rows)
           won == {<<Ev, "start_date">>, <<Ev, "end_date">>}
<1>1. CASE CreateEventRefused(q) /\ Reject(c) /\ UNCHANGED <<event, row>>
  BY <1>1, RefusedStep
<1>2. CASE /\ ~CreateEventRefused(q) /\ event' = new /\ row' = rows
           /\ Conclude(c, q, "accepted", won, records)
  <2>1. /\ q.kind = "create" /\ q.time \in Nat /\ q.name \in Text
        /\ q.start \in Date /\ q.end \in Date
    BY WallTimesAssumption DEF CreateRequests
  <2>2. event = NoEvent
    BY <1>2 DEF CreateEventRefused
  <2>3. /\ IsPlan(event, row) /\ DOMAIN row = {} /\ tags \subseteq Tag
        /\ \A g \in DOMAIN clock : Present(event, row, g)
    BY <2>2, IInvIs, PlanIs
  <2>4. DOMAIN clock = {}
    BY <2>2, <2>3 DEF Present
  <2>5. IsRequest(q)
    BY <2>1 DEF IsRequest, FieldKinds
  <2>6. /\ new \in Event /\ new.lifecycle # "none" /\ new.start = q.start /\ new.end = q.end
        /\ new # NoEvent
    BY <2>1 DEF Event, Date, NoEvent
  <2>7. /\ \A k \in DOMAIN days : k[1] = "day" /\ IsRow(k, days[k])
        /\ DaysFit(row, days)
    <3>1. q.start .. q.end \subseteq Date
      BY <2>1, DateAssumption DEF Date
    <3>2. \A date \in q.start .. q.end : \A k \in DaysOf(date) : row[k].retired
      BY <2>3 DEF DaysOf, DaysOn, DaysIn
    <3> DEFINE dates == q.start .. q.end
    <3>3. dates \in SUBSET Date /\ \A date \in dates : \A k \in DaysOf(date) : row[k].retired
      BY <3>1, <3>2
    <3> HIDE DEF dates
    <3>4. /\ \A k \in DOMAIN DaysFor(dates) : k[1] = "day" /\ IsRow(k, DaysFor(dates)[k])
          /\ DaysFit(row, DaysFor(dates))
      BY <3>3, DaysForAre
    <3>5. QED
      BY <3>4 DEF dates
  <2>8. \A k \in DOMAIN roles : k[1] = "role" /\ IsRow(k, roles[k])
    <3>1. \A ro \in DOMAIN Presets : ro \in Role /\ Presets[ro] \in RoleRow
      BY PlanAssumption
    <3>2. \A k \in DOMAIN roles : \E ro \in DOMAIN Presets : k = R(ro) /\ roles[k] = Presets[ro]
      BY KeyIs
    <3> HIDE DEF roles
    <3>3. QED
      BY <3>1, <3>2, KeyIs, IsRowOf
  <2> HIDE DEF days, roles, new
  <2>9. /\ DOMAIN rows = DOMAIN roles \cup DOMAIN days
        /\ \A k \in DOMAIN days : rows[k] = days[k]
        /\ \A k \in DOMAIN roles : k \notin DOMAIN days /\ rows[k] = roles[k]
    <3>1. \A k \in DOMAIN roles : k \notin DOMAIN days
      BY <2>7, <2>8
    <3>2. QED
      BY <3>1 DEF Overlaid
  <2> HIDE DEF rows
  <2>10. \A k \in DOMAIN rows : IsRow(k, rows[k]) /\ k[1] \in {"day", "role"}
    BY <2>7, <2>8, <2>9
  <2>11. DaysFit(row, rows)
    <3>1. DaysIn(rows) = DaysIn(days)
      BY <2>8, <2>9 DEF DaysIn
    <3>2. \A k \in DaysIn(rows) : rows[k] = days[k]
      BY <2>9, <3>1 DEF DaysIn
    <3>3. QED
      BY <2>7, <3>1, <3>2 DEF DaysFit
  <2>12. IsPlan(event', row')
    <3>1. new.start \in Date /\ new.end \in Date
      BY <2>1, <2>6
    <3>2. /\ DOMAIN rows \cap DOMAIN row = {} /\ DOMAIN rows = DOMAIN row \cup DOMAIN rows
          /\ \A k \in DOMAIN row : rows[k] = row[k]
      BY <2>3
    <3>3. IsPlan(new, rows)
      BY <2>3, <2>6, <2>10, <2>11, <3>1, <3>2, AddPlan
    <3>4. QED
      BY <1>2, <3>3
  <2>13. Honours(c, q, won)
    <3>1. \A f : f \in won <=> AimsAt(q, f) /\ Wins(f, StampOf(c, q))
      BY <2>1, <2>4 DEF AimsAt, Wins, FieldKinds
    <3>2. \A f \in won : Present(event', row', f)
      BY <1>2, <2>6 DEF Present
    <3>3. \A f \in won : Reading(event', row', f) = Asking(q, f)
      <4>1. event'.start = q.start /\ event'.end = q.end
        BY <1>2, <2>6
      <4>2. QED
        BY <4>1 DEF Reading, Asking
    <3>4. QED
      BY <2>4, <3>1, <3>2, <3>3 DEF Honours
  <2>14. Tells(records)
    <3>1. Ev \notin DOMAIN rows
      BY <2>10, RowIs
    <3>2. DOMAIN EventRecord(new) = {Ev} /\ EventRecord(new)[Ev] = new
      BY OnlyIs DEF EventRecord
    <3>3. /\ Ev \in DOMAIN records /\ records[Ev] = new
          /\ \A k \in DOMAIN rows : k \in DOMAIN records /\ records[k] = rows[k]
      BY <3>1, <3>2 DEF Overlaid
    <3> HIDE DEF records
    <3>4. QED
      BY <1>2, <3>3 DEF Tells
  <2> HIDE DEF records, won
  <2>15. DOMAIN row \subseteq DOMAIN row' /\ (event # NoEvent => event' # NoEvent)
         /\ tags' \subseteq Tag
    BY <2>2, <2>3
  <2>16. QED
    BY <1>2, <2>5, <2>12, <2>13, <2>14, <2>15, CommitStep
<1>3. QED
  BY <1>1, <1>2 DEF CreateEvent

(* The fields that an update wins, and the event after it. *)
UpdateWon(c, q) == {f \in UpdateFields(q) : Wins(f, StampOf(c, q))}
Updated(c, q, won) ==
    [event EXCEPT !.name = IF <<Ev, "name">> \in won THEN q.name ELSE @,
                  !.start = IF DatesWin(c, q) THEN q.start ELSE @,
                  !.end = IF DatesWin(c, q) THEN q.end ELSE @]

(* An update that the database takes wins all its fields or none. *)
LEMMA UpdateIs ==
    ASSUME IInv, NEW c \in Command, NEW q \in UpdateRequests, ~UpdateRefused(c, q),
           NEW won, won = UpdateWon(c, q), won = {} \/ won = UpdateFields(q),
           NEW new, new = Updated(c, q, won)
    PROVE  /\ q.kind = "update" /\ IsRequest(q) /\ event # NoEvent
           /\ new \in Event /\ new.lifecycle = event.lifecycle /\ new.lifecycle = "active"
           /\ new.start \in Date /\ new.end \in Date
           /\ \A f \in won : Reading(new, row', f) = Asking(q, f)
           /\ \A f : f[1] = Ev /\ f = <<f[1], f[2]>> /\ f \notin won
                     /\ f[2] \in {"name", "start_date", "end_date"} =>
                        Reading(new, row', f) = Reading(event, row, f)
<1>1. /\ q.kind = "update" /\ q.time \in Nat /\ q.name \in Text
      /\ q.start \in {0} \cup Date /\ q.end \in {0} \cup Date /\ (q.start = 0 <=> q.end = 0)
  BY WallTimesAssumption DEF UpdateRequests
<1>2. IsRequest(q)
  BY <1>1 DEF IsRequest, FieldKinds
<1>3. /\ event \in Event /\ event # NoEvent /\ event.lifecycle = "active"
      /\ event.start \in Date /\ event.end \in Date
  BY IInvIs, PlanIs DEF UpdateRefused, EventActive, NoEvent
<1>4. UpdateFields(q) = {<<Ev, "name">>} \cup
          IF q.start = 0 THEN {} ELSE {<<Ev, "start_date">>, <<Ev, "end_date">>}
  BY DEF UpdateFields
<1>5. /\ <<Ev, "name">> \in won <=> won # {}
      /\ DatesWin(c, q) <=> won # {} /\ q.start # 0
      /\ <<Ev, "start_date">> \in won <=> DatesWin(c, q)
      /\ <<Ev, "end_date">> \in won <=> DatesWin(c, q)
  BY <1>4 DEF DatesWin, UpdateWon
<1>6. /\ new \in Event /\ new.lifecycle = event.lifecycle
      /\ new.name = IF <<Ev, "name">> \in won THEN q.name ELSE event.name
      /\ new.start = IF <<Ev, "start_date">> \in won THEN q.start ELSE event.start
      /\ new.end = IF <<Ev, "end_date">> \in won THEN q.end ELSE event.end
  <2> DEFINE name == IF <<Ev, "name">> \in won THEN q.name ELSE event.name
             start == IF DatesWin(c, q) THEN q.start ELSE event.start
             end == IF DatesWin(c, q) THEN q.end ELSE event.end
  <2>1. new = [event EXCEPT !.name = name, !.start = start, !.end = end]
    BY DEF Updated
  <2>2. name \in Text \cup {None} /\ start \in 0 .. LastDate /\ end \in 0 .. LastDate
    BY <1>1, <1>3, DateAssumption DEF Event, Date
  <2>3. /\ name = IF <<Ev, "name">> \in won THEN q.name ELSE event.name
        /\ start = IF <<Ev, "start_date">> \in won THEN q.start ELSE event.start
        /\ end = IF <<Ev, "end_date">> \in won THEN q.end ELSE event.end
    BY <1>5
  <2> HIDE DEF name, start, end
  <2>4. /\ new \in Event /\ new.lifecycle = event.lifecycle
        /\ new.name = name /\ new.start = start /\ new.end = end
    BY <1>3, <2>1, <2>2 DEF Event
  <2>5. QED
    BY <2>3, <2>4
<1>7. new.start \in Date /\ new.end \in Date
  BY <1>1, <1>3, <1>5, <1>6
<1>8. \A f \in won : Reading(new, row', f) = Asking(q, f)
  BY <1>4, <1>6 DEF Reading, Asking
<1>9. \A f : f[1] = Ev /\ f = <<f[1], f[2]>> /\ f \notin won
             /\ f[2] \in {"name", "start_date", "end_date"} =>
                Reading(new, row', f) = Reading(event, row, f)
  BY <1>6 DEF Reading
<1>10. QED
  BY <1>1, <1>2, <1>3, <1>6, <1>7, <1>8, <1>9

LEMMA UpdateEventInv ==
    ASSUME IInv, NEW c \in Command, Fresh(c), NEW q \in UpdateRequests, UpdateEvent(c, q),
           UNCHANGED tags
    PROVE  IInv'
<1> DEFINE won == {f \in UpdateFields(q) : Wins(f, StampOf(c, q))}
           new == [event EXCEPT !.name = IF <<Ev, "name">> \in won THEN q.name ELSE @,
                                !.start = IF DatesWin(c, q) THEN q.start ELSE @,
                                !.end = IF DatesWin(c, q) THEN q.end ELSE @]
           days == DaysFor(WithoutDay(new.start, new.end))
           outcome == IF won = UpdateFields(q) THEN "accepted" ELSE "partially_superseded"
           records == Overlaid(EventRecord(new), days)
<1>1. CASE (Reject(c) \/ Abort(c)) /\ UNCHANGED <<event, row>>
  BY <1>1, RefusedStep
<1>2. CASE /\ ~UpdateRefused(c, q) /\ ClocksHold(outcome, won)
           /\ event' = new /\ row' = Overlaid(row, days)
           /\ Conclude(c, q, outcome, won, records)
  <2>1. won = {} \/ won = UpdateFields(q)
    BY <1>2 DEF ClocksHold
  <2>2. outcome \in {"accepted", "partially_superseded"}
    OBVIOUS
  <2>3. \A f : f \in won <=> f \in UpdateFields(q) /\ Wins(f, StampOf(c, q))
    OBVIOUS
  <2>4. won = UpdateWon(c, q) /\ new = Updated(c, q, won)
    BY DEF UpdateWon, Updated
  <2> HIDE DEF won, new, outcome
  <2>5. /\ q.kind = "update" /\ IsRequest(q) /\ event # NoEvent
        /\ new \in Event /\ new.lifecycle = "active"
        /\ new.start \in Date /\ new.end \in Date
        /\ \A f \in won : Reading(new, row', f) = Asking(q, f)
        /\ \A f : f[1] = Ev /\ f = <<f[1], f[2]>> /\ f \notin won
                  /\ f[2] \in {"name", "start_date", "end_date"} =>
                     Reading(new, row', f) = Reading(event, row, f)
    BY <1>2, <2>1, <2>4, UpdateIs
  <2>6. new # NoEvent /\ new.lifecycle # "none"
    BY <2>5 DEF NoEvent
  <2>7. /\ \A k \in DOMAIN row : IsRow(k, row[k])
        /\ IsPlan(event, row) /\ tags \subseteq Tag
        /\ \A g \in DOMAIN clock : Present(event, row, g)
    BY IInvIs
  <2>8. /\ \A k \in DOMAIN days : k[1] = "day" /\ IsRow(k, days[k]) /\ k \notin DOMAIN row
        /\ DaysFit(row, days)
    <3> DEFINE dates == WithoutDay(new.start, new.end)
    <3>1. dates \in SUBSET Date /\ \A date \in dates : \A k \in DaysOf(date) : row[k].retired
      <4>1. new.start .. new.end \subseteq Date
        BY <2>5, DateAssumption DEF Date
      <4>2. QED
        BY <4>1 DEF WithoutDay
    <3> HIDE DEF dates
    <3>2. /\ \A k \in DOMAIN DaysFor(dates) :
                k[1] = "day" /\ IsRow(k, DaysFor(dates)[k]) /\ k \notin DOMAIN row
          /\ DaysFit(row, DaysFor(dates))
      BY <3>1, DaysForAre
    <3>3. QED
      BY <3>2 DEF dates
  <2> HIDE DEF days
  <2>9. /\ DOMAIN row' = DOMAIN row \cup DOMAIN days
        /\ \A k \in DOMAIN days : row'[k] = days[k]
        /\ \A k \in DOMAIN row : row'[k] = row[k]
    BY <1>2, <2>8 DEF Overlaid
  <2>10. IsPlan(event', row')
    <3>1. DOMAIN days \cap DOMAIN row = {} /\ \A k \in DOMAIN days : k[1] # "tag"
      BY <2>8
    <3>2. IsPlan(new, row')
      BY <2>5, <2>6, <2>7, <2>8, <2>9, <3>1, AddPlan
    <3>3. QED
      BY <1>2, <3>2
  <2>11. \A f : AimsAt(q, f) <=> f \in UpdateFields(q)
    BY <2>5 DEF AimsAt, FieldKinds
  <2>12. \A f \in won : f[1] = Ev /\ f = <<f[1], f[2]>>
                        /\ f[2] \in {"name", "start_date", "end_date"}
    BY <2>3 DEF UpdateFields
  <2>13. Honours(c, q, won)
    <3>1. \A f : f \in won <=> AimsAt(q, f) /\ Wins(f, StampOf(c, q))
      BY <2>3, <2>11
    <3>2. \A f \in won : Present(event', row', f)
      BY <1>2, <2>6, <2>12 DEF Present
    <3>3. \A f \in won : Reading(event', row', f) = Asking(q, f)
      BY <1>2, <2>5
    <3>4. ASSUME NEW f \in DOMAIN clock, f \notin won
          PROVE  Reading(event', row', f) = Reading(event, row, f)
      <4>1. Present(event, row, f)
        BY <2>7
      <4>2. CASE f[1] = Ev
        <5>1. f = <<f[1], f[2]>> /\ f[2] \in {"name", "start_date", "end_date"}
          BY <2>7, <4>1, <4>2, RowIs DEF Present
        <5>2. QED
          BY <1>2, <2>5, <3>4, <4>2, <5>1
      <4>3. CASE f[1] # Ev
        <5>1. Adds(row, row')
          BY <2>8, <2>9 DEF Adds
        <5>2. Reading(event, row', f) = Reading(event, row, f)
          BY <2>7, <4>1, <5>1, AddedReads
        <5>3. Reading(event', row', f) = Reading(event, row', f)
          BY <4>3 DEF Reading
        <5>4. QED
          BY <5>2, <5>3
      <4>4. QED
        BY <4>2, <4>3
    <3>5. QED
      BY <3>1, <3>2, <3>3, <3>4 DEF Honours
  <2>14. Tells(records)
    <3>1. Ev \notin DOMAIN days
      BY <2>8, RowIs
    <3>2. DOMAIN EventRecord(new) = {Ev} /\ EventRecord(new)[Ev] = new
      BY OnlyIs DEF EventRecord
    <3>3. /\ DOMAIN records = {Ev} \cup DOMAIN days /\ records[Ev] = new
          /\ \A k \in DOMAIN days : records[k] = days[k]
      BY <3>1, <3>2 DEF Overlaid
    <3> HIDE DEF records
    <3>4. Ev \notin DOMAIN row
      BY <2>7, RowIs
    <3>5. QED
      BY <1>2, <2>9, <3>3, <3>4 DEF Tells, SameButPlace
  <2> HIDE DEF records
  <2>15. DOMAIN row \subseteq DOMAIN row' /\ (event # NoEvent => event' # NoEvent)
         /\ tags' \subseteq Tag
    BY <1>2, <2>6, <2>7, <2>9
  <2>16. QED
    BY <1>2, <2>2, <2>5, <2>10, <2>13, <2>14, <2>15, CommitStep
<1>3. QED
  BY <1>1, <1>2 DEF UpdateEvent

-----------------------------------------------------------------------------
(* Copies, and what other services do. *)

LEMMA DuplicateInv ==
    ASSUME IInv, NEW c \in Command, Fresh(c), NEW q \in DuplicateRequests, Duplicate(c, q),
           UNCHANGED tags
    PROVE  IInv'
<1> DEFINE records == [k \in {<<"copy", x>> : x \in Copied} |-> row[k[2]]]
<1>1. UNCHANGED <<event, row>>
  BY DEF Duplicate
<1>2. CASE Reject(c) \/ Abort(c)
  BY <1>1, <1>2, RefusedStep
<1>3. CASE Conclude(c, q, "accepted", {}, records)
  <2>1. q.kind = "duplicate" /\ q.time \in Nat
    BY WallTimesAssumption DEF DuplicateRequests
  <2>2. IsRequest(q) /\ \A f : ~AimsAt(q, f)
    BY <2>1 DEF IsRequest, FieldKinds, AimsAt
  <2>3. \A k \in DOMAIN records : k[1] = "copy"
    OBVIOUS
  <2>4. \A k \in DOMAIN row : k[1] # "copy"
    BY IInvIs, RowIs DEF Tables
  <2>5. Ev[1] # "copy"
    BY DEF Ev
  <2> HIDE DEF records
  <2>6. QED
    BY <1>1, <1>3, <2>2, <2>3, <2>4, <2>5, UnwonStep
<1>4. QED
  BY <1>2, <1>3 DEF Duplicate

LEMMA ArchiveInv ==
    ASSUME IInv, Archive
    PROVE  IInv'
<1>1. /\ event # NoEvent /\ shown' = Overlaid(shown, EventRecord(event'))
      /\ event' = [event EXCEPT !.lifecycle = IF @ = "active" THEN "archived" ELSE "active"]
      /\ UNCHANGED <<retained, request, clock, aborted, row, tags>>
  BY DEF Archive
<1>2. /\ \A k \in DOMAIN row : IsRow(k, row[k])
      /\ IsPlan(event, row) /\ event \in Event
  BY IInvIs
<1>3. /\ event' \in Event /\ event'.lifecycle # "none" /\ event'.name = event.name
      /\ event'.start = event.start /\ event'.end = event.end
  BY <1>1, <1>2 DEF Event
<1>4. event' # NoEvent
  BY <1>3 DEF NoEvent
<1>5. TypeOK'
  BY <1>1, <1>3 DEF IInv, TypeOK
<1>6. IsPlan(event', row')
  <2>1. /\ event.start \in Date /\ event.end \in Date
        /\ \A k, l \in DaysIn(row) :
              row[k].date = row[l].date /\ ~row[k].retired /\ ~row[l].retired => k = l
    BY <1>1, <1>2, PlanIs
  <2>2. event'.start \in Date /\ event'.end \in Date
    BY <1>3, <2>1
  <2>3. IsPlan(event', row)
    <3>1. event # NoEvent
      BY <1>1
    <3>2. PICK e1 : e1 = event'
      OBVIOUS
    <3>3. /\ e1 \in Event
          /\ event = NoEvent <=> e1 = NoEvent
          /\ e1.lifecycle = "none" <=> e1 = NoEvent
          /\ e1 # NoEvent => e1.start \in Date /\ e1.end \in Date
      BY <1>3, <1>4, <2>2, <3>1, <3>2
    <3>4. IsPlan(e1, row)
      BY <1>2, <2>1, <3>3, SamePlan
    <3>5. QED
      BY <3>2, <3>4
  <2>4. QED
    BY <1>1, <2>3
<1>7. Logged'
  <2>1. Applied' = Applied
    BY <1>1 DEF Applied
  <2>2. \A f : Present(event, row, f) => Present(event', row, f)
    BY <1>1, <1>4 DEF Present
  <2>3. QED
    BY <1>1, <2>1, <2>2, IInvIs DEF Logged
<1>8. ClocksRemember' /\ FieldsHold'
  <2>1. \A f : Writes(f)' = Writes(f)
    BY <1>1 DEF Writes, Applied
  <2>2. \A f : Reading(event', row, f) = Reading(event, row, f)
    BY <1>3 DEF Reading
  <2>3. QED
    BY <1>1, <2>1, <2>2 DEF IInv, ClocksRemember, FieldsHold
<1>9. FeedCarriesPlan'
  <2>1. DOMAIN EventRecord(event') = {Ev} /\ EventRecord(event')[Ev] = event'
    BY OnlyIs DEF EventRecord
  <2>2. Ev \notin DOMAIN row
    BY <1>2, RowIs
  <2>3. FeedCarriesPlan
    BY IInvIs
  <2>4. Tells(EventRecord(event'))
    BY <1>1, <2>1, <2>2 DEF Tells, SameButPlace
  <2>5. QED
    BY <1>1, <2>3, <2>4, TellsPlan
<1>10. QED
  BY <1>5, <1>6, <1>7, <1>8, <1>9 DEF IInv

LEMMA OthersInv ==
    ASSUME IInv
    PROVE  /\ RetireTag => IInv'
           /\ \A c \in Command : Malformed(c) /\ UNCHANGED <<planVars, tags>> => IInv'
           /\ \A c \in Command : Retry(c) /\ UNCHANGED <<planVars, tags>> => IInv'
           /\ UNCHANGED vars => IInv'
<1>1. ASSUME RetireTag
      PROVE  IInv'
  <2>1. UNCHANGED <<retained, request, clock, shown, event, row>> /\ tags' \subseteq Tag
    BY <1>1, IInvIs DEF RetireTag, logVars, planVars
  <2>2. Applied' = Applied /\ retained' \in [Command -> Outcome \cup {"none"}]
    BY <2>1, IInvIs DEF Applied
  <2>3. QED
    BY <2>1, <2>2, QuietStep
<1>2. ASSUME NEW c \in Command, Malformed(c), UNCHANGED <<planVars, tags>>
      PROVE  IInv'
  BY <1>2, RefusedStep DEF Malformed, planVars
<1>3. ASSUME UNCHANGED <<logVars, planVars, tags>>
      PROVE  IInv'
  <2>1. UNCHANGED <<retained, request, clock, shown, event, row, tags>>
    BY <1>3 DEF logVars, planVars
  <2>2. Applied' = Applied /\ retained' \in [Command -> Outcome \cup {"none"}]
        /\ tags' \subseteq Tag
    BY <2>1, IInvIs DEF Applied
  <2>3. QED
    BY <2>1, <2>2, QuietStep
<1>4. QED
  BY <1>1, <1>2, <1>3 DEF Retry, vars

(* Scenarios begin with a plan, its clocks and its records. *)
LEMMA InitInv ==
    ASSUME Init
    PROVE  IInv
<1>1. /\ retained = [c \in Command |-> "none"] /\ request = [c \in Command |-> NoRequest]
      /\ tags = Tag
  BY DEF Init
<1>2. PICK s \in Scenarios :
         /\ event = s.event /\ row = s.row /\ shown = s.row
         /\ clock = [f \in {<<k, "placement">> : k \in {x \in DOMAIN s.row : x[1] = "recipe"}}
                           |-> <<0, 0>>]
  BY DEF Init
<1>3. IsPlan(event, row)
  BY <1>2, PlanAssumption
<1>4. event \in Event /\ \A k \in DOMAIN row : IsRow(k, row[k])
  BY <1>3, PlanIs
<1>5. /\ \A f \in DOMAIN clock : clock[f] = <<0, 0>>
      /\ \A f \in DOMAIN clock : \E k \in DOMAIN row : k[1] = "recipe" /\ f = <<k, "placement">>
  BY <1>2
<1>6. Applied = {} /\ DOMAIN request = Command
  BY <1>1 DEF Applied
<1>7. TypeOK
  BY <1>1, <1>4, <1>5 DEF TypeOK, Outcome, Stamp
<1>8. Logged
  <2>1. \A f \in DOMAIN clock : Present(event, row, f)
    BY <1>5 DEF Present
  <2>2. QED
    BY <1>6, <2>1 DEF Logged
<1>9. \A f : Writes(f) = {}
  BY <1>6 DEF Writes
<1>10. ClocksRemember /\ FieldsHold
  BY <1>5, <1>9 DEF ClocksRemember, FieldsHold, Remembers
<1>11. FeedCarriesPlan
  <2>1. Ev \notin DOMAIN row
    BY <1>4, RowIs
  <2>2. QED
    BY <1>2, <2>1 DEF FeedCarriesPlan, Told
<1>12. QED
  BY <1>3, <1>7, <1>8, <1>10, <1>11 DEF IInv

-----------------------------------------------------------------------------
(* The order of keys. *)

LEMMA SeqIs ==
    ASSUME NEW n \in Nat, NEW A, NEW s \in [1 .. n -> A]
    PROVE  s \in Seq(A) /\ Len(s) = n
  OBVIOUS

LessThan == {p \in Nat \X Nat : p[1] < p[2]}

LEMMA LessThanIsWellFounded == IsWellFoundedOn(LessThan, Nat)
<1>1. IsWellFoundedOn(OpToRel(<, Nat), Nat)
  BY NatLessThanWellFounded
<1>2. QED
  BY <1>1 DEF OpToRel, LessThan

LEMMA LeastExists ==
    ASSUME NEW A \in SUBSET Nat, A # {}
    PROVE  \E n \in A : \A m \in A : n <= m
<1>1. PICK n \in A : \A m \in A : <<m, n>> \notin LessThan
  BY LessThanIsWellFounded, WFMin
<1>2. ASSUME NEW m \in A
      PROVE  n <= m
  <2>1. m \in Nat /\ n \in Nat
    OBVIOUS
  <2>2. ~(m < n)
    BY <1>1, <2>1 DEF LessThan
  <2>3. QED
    BY <2>1, <2>2
<1>3. QED
  BY <1>2

Places == Nat \ {0}
Bounds == Key \cup {<< >>}

(* The letters of a key, and past its end. *)
LEMMA LettersAre ==
    ASSUME NEW k \in Bounds
    PROVE  /\ Len(k) \in Nat
           /\ \A n \in Places : /\ Low(k, n) \in -1 .. Digits - 1
                                /\ n <= Len(k) => Low(k, n) = k[n] /\ High(k, n) = k[n]
                                /\ n > Len(k) => Low(k, n) = -1 /\ High(k, n) = Digits
                                /\ Low(k, n) >= 0 <=> n <= Len(k)
                                /\ High(k, n) \in 0 .. Digits
           /\ k \in Key => Len(k) \in 1 .. KeyLength /\ k \in [1 .. Len(k) -> 0 .. Digits - 1]
           /\ k = << >> <=> Len(k) = 0
<1>1. CASE k = << >>
  <2>1. Len(k) = 0
    BY <1>1
  <2>2. k \notin Key
    <3>1. SUFFICES ASSUME NEW n \in 1 .. KeyLength, k \in [1 .. n -> 0 .. Digits - 1] PROVE FALSE
      BY DEF Key
    <3>2. n \in Nat /\ n # 0
      BY KeyAssumption
    <3>3. Len(k) = n
      BY <3>1, <3>2, SeqIs
    <3>4. QED
      BY <2>1, <3>2, <3>3
  <2>3. QED
    BY <1>1, <2>1, <2>2, KeyAssumption DEF Low, High, Places
<1>2. CASE k \in Key
  <2>1. PICK n \in 1 .. KeyLength : k \in [1 .. n -> 0 .. Digits - 1]
    BY <1>2 DEF Key
  <2>2. n \in Nat /\ n # 0
    BY KeyAssumption
  <2>3. Len(k) = n
    BY <2>1, <2>2, SeqIs
  <2>4. \A i \in Places : i <= n => k[i] \in 0 .. Digits - 1
    BY <2>1, <2>2 DEF Places
  <2>5. k # << >>
    BY <2>2, <2>3
  <2>6. \A i \in Places : /\ Low(k, i) \in -1 .. Digits - 1
                          /\ i <= Len(k) => Low(k, i) = k[i] /\ High(k, i) = k[i]
                          /\ i > Len(k) => Low(k, i) = -1 /\ High(k, i) = Digits
                          /\ Low(k, i) >= 0 <=> i <= Len(k)
                          /\ High(k, i) \in 0 .. Digits
    BY <2>2, <2>3, <2>4, KeyAssumption DEF Low, High, Places
  <2>7. QED
    BY <2>1, <2>2, <2>3, <2>5, <2>6
<1>3. QED
  BY <1>1, <1>2 DEF Bounds

(* A key is below another at the first letter where they differ. *)
LEMMA LessIs ==
    ASSUME NEW k \in Bounds, NEW l \in Bounds
    PROVE  Less(k, l) <=> \E n \in Places : /\ Low(k, n) < Low(l, n)
                                            /\ \A i \in 1 .. n - 1 : Low(k, i) = Low(l, i)
<1>1. /\ Len(l) \in Nat
      /\ \A n \in Places : /\ Low(k, n) \in Int /\ Low(k, n) >= -1
                           /\ n <= Len(l) => Low(l, n) = l[n]
                           /\ n > Len(l) => Low(l, n) = -1
  BY LettersAre, KeyAssumption
<1>2. ASSUME NEW n \in 1 .. Len(l), Low(k, n) < l[n], \A i \in 1 .. n - 1 : Low(k, i) = l[i]
      PROVE  /\ n \in Places /\ Low(k, n) < Low(l, n)
             /\ \A i \in 1 .. n - 1 : Low(k, i) = Low(l, i)
  BY <1>1, <1>2 DEF Places
<1>3. ASSUME NEW n \in Places, Low(k, n) < Low(l, n),
             \A i \in 1 .. n - 1 : Low(k, i) = Low(l, i)
      PROVE  n \in 1 .. Len(l) /\ Low(k, n) < l[n] /\ \A i \in 1 .. n - 1 : Low(k, i) = l[i]
  <2>1. n \in 1 .. Len(l)
    BY <1>1, <1>3 DEF Places
  <2>2. QED
    BY <1>1, <1>3, <2>1 DEF Places
<1>4. QED
  BY <1>2, <1>3 DEF Less

LEMMA KeysAlike ==
    ASSUME NEW k \in Key, NEW l \in Key, \A n \in Places : Low(k, n) = Low(l, n)
    PROVE  k = l
<1>1. /\ Len(k) \in 1 .. KeyLength /\ k \in [1 .. Len(k) -> 0 .. Digits - 1]
      /\ Len(l) \in 1 .. KeyLength /\ l \in [1 .. Len(l) -> 0 .. Digits - 1]
      /\ Len(k) \in Nat /\ Len(l) \in Nat
      /\ \A n \in Places : /\ Low(k, n) >= 0 <=> n <= Len(k)
                           /\ Low(l, n) >= 0 <=> n <= Len(l)
                           /\ n <= Len(k) => Low(k, n) = k[n]
                           /\ n <= Len(l) => Low(l, n) = l[n]
  BY LettersAre DEF Bounds
<1>2. Len(k) \in Places /\ Len(l) \in Places
  BY <1>1 DEF Places
<1>3. Len(k) = Len(l)
  <2>1. Len(k) <= Len(l)
    <3>1. Low(k, Len(k)) >= 0 /\ Low(l, Len(k)) = Low(k, Len(k))
      BY <1>1, <1>2
    <3>2. QED
      BY <1>1, <1>2, <3>1
  <2>2. Len(l) <= Len(k)
    <3>1. Low(l, Len(l)) >= 0 /\ Low(k, Len(l)) = Low(l, Len(l))
      BY <1>1, <1>2
    <3>2. QED
      BY <1>1, <1>2, <3>1
  <2>3. Len(k) \in Nat /\ Len(l) \in Nat
    BY <1>1
  <2>4. QED
    BY <2>1, <2>2, <2>3
<1>4. \A n \in 1 .. Len(k) : k[n] = l[n]
  BY <1>1, <1>3 DEF Places
<1>5. QED
  BY <1>1, <1>3, <1>4

(* Keys are in a strict total order. *)
LEMMA LessIsStrict ==
    /\ \A k \in Bounds : ~Less(k, k)
    /\ \A k, l, m \in Bounds : Less(k, l) /\ Less(l, m) => Less(k, m)
    /\ \A k, l \in Key : k # l => Less(k, l) \/ Less(l, k)
<1>1. \A k \in Bounds, n \in Places : Low(k, n) \in Int
  BY LettersAre, KeyAssumption
<1>2. ASSUME NEW k \in Bounds
      PROVE  ~Less(k, k)
  BY <1>1, LessIs
<1>3. ASSUME NEW k \in Bounds, NEW l \in Bounds, NEW m \in Bounds, Less(k, l), Less(l, m)
      PROVE  Less(k, m)
  <2>1. PICK n \in Places : Low(k, n) < Low(l, n) /\ \A i \in 1 .. n - 1 : Low(k, i) = Low(l, i)
    BY <1>3, LessIs
  <2>2. PICK o \in Places : Low(l, o) < Low(m, o) /\ \A i \in 1 .. o - 1 : Low(l, i) = Low(m, i)
    BY <1>3, LessIs
  <2>3. CASE n <= o
    <3>1. Low(l, n) <= Low(m, n)
      BY <1>1, <2>2, <2>3 DEF Places
    <3>2. Low(k, n) < Low(m, n)
      BY <1>1, <2>1, <3>1
    <3>3. \A i \in 1 .. n - 1 : Low(k, i) = Low(m, i)
      BY <2>1, <2>2, <2>3 DEF Places
    <3>4. QED
      BY <3>2, <3>3, LessIs
  <2>4. CASE o < n
    <3>1. Low(k, o) = Low(l, o)
      BY <2>1, <2>4 DEF Places
    <3>2. Low(k, o) < Low(m, o)
      BY <2>2, <3>1
    <3>3. \A i \in 1 .. o - 1 : Low(k, i) = Low(m, i)
      BY <2>1, <2>2, <2>4 DEF Places
    <3>4. QED
      BY <3>2, <3>3, LessIs
  <2>5. QED
    BY <2>3, <2>4 DEF Places
<1>4. ASSUME NEW k \in Key, NEW l \in Key, k # l
      PROVE  Less(k, l) \/ Less(l, k)
  <2> DEFINE Differ == {n \in Places : Low(k, n) # Low(l, n)}
  <2>1. k \in Bounds /\ l \in Bounds
    BY DEF Bounds
  <2>2. Differ # {}
    BY <1>4, KeysAlike
  <2>3. Differ \subseteq Nat
    BY DEF Places
  <2>4. PICK n \in Differ : \A i \in Differ : n <= i
    BY <2>2, <2>3, LeastExists
  <2>5. \A i \in 1 .. n - 1 : Low(k, i) = Low(l, i)
    BY <2>3, <2>4 DEF Places
  <2>6. Low(k, n) < Low(l, n) \/ Low(l, n) < Low(k, n)
    BY <1>1, <2>1
  <2>7. QED
    BY <2>1, <2>5, <2>6, LessIs
<1>5. QED
  BY <1>2, <1>3, <1>4

-----------------------------------------------------------------------------
(* The order of recipes. *)

Orderable(rows, ks) ==
    /\ IsFiniteSet(ks)
    /\ \A k \in ks : k = S(k[2]) /\ k[2] \in Nat /\ rows[k].key \in Key

LEMMA PrecedesIsStrict ==
    ASSUME NEW rows, NEW ks, Orderable(rows, ks)
    PROVE  /\ \A k \in ks : ~Precedes(rows, k, k)
           /\ \A k, l, m \in ks : Precedes(rows, k, l) /\ Precedes(rows, l, m)
                                    => Precedes(rows, k, m)
           /\ \A k, l \in ks : k # l => Precedes(rows, k, l) \/ Precedes(rows, l, k)
<1>1. \A k \in ks : k = S(k[2]) /\ k[2] \in Nat /\ rows[k].key \in Key /\ rows[k].key \in Bounds
  BY DEF Orderable, Bounds
<1>2. \A k \in ks : ~Precedes(rows, k, k)
  BY <1>1, LessIsStrict DEF Precedes
<1>3. ASSUME NEW k \in ks, NEW l \in ks, NEW m \in ks,
             Precedes(rows, k, l), Precedes(rows, l, m)
      PROVE  Precedes(rows, k, m)
  <2>1. CASE Less(rows[k].key, rows[l].key) /\ Less(rows[l].key, rows[m].key)
    BY <1>1, <2>1, LessIsStrict DEF Precedes
  <2>2. CASE rows[k].key = rows[l].key \/ rows[l].key = rows[m].key
    BY <1>1, <1>3, <2>2 DEF Precedes
  <2>3. QED
    BY <1>3, <2>1, <2>2 DEF Precedes
<1>4. ASSUME NEW k \in ks, NEW l \in ks, k # l
      PROVE  Precedes(rows, k, l) \/ Precedes(rows, l, k)
  <2>1. k[2] # l[2]
    BY <1>1, <1>4
  <2>2. CASE rows[k].key = rows[l].key
    BY <1>1, <2>1, <2>2 DEF Precedes
  <2>3. CASE rows[k].key # rows[l].key
    BY <1>1, <2>3, LessIsStrict DEF Precedes
  <2>4. QED
    BY <2>2, <2>3
<1>5. QED
  BY <1>2, <1>3, <1>4

(* How many come before: from 0 up, more for each that comes later. *)
LEMMA RanksAre ==
    ASSUME NEW rows, NEW ks, Orderable(rows, ks)
    PROVE  /\ Cardinality(ks) \in Nat
           /\ \A k \in ks : Rank(rows, ks, k) \in 0 .. Cardinality(ks) - 1
           /\ \A k, l \in ks : Precedes(rows, k, l) => Rank(rows, ks, k) < Rank(rows, ks, l)
           /\ \A k, l \in ks : Rank(rows, ks, k) = Rank(rows, ks, l) => k = l
<1> DEFINE Below(k) == {l \in ks : Precedes(rows, l, k)}
           rank(k) == Cardinality(Below(k))
<1>1. IsFiniteSet(ks) /\ Cardinality(ks) \in Nat
  BY FS_CardinalityType DEF Orderable
<1>2. ASSUME NEW k \in ks
      PROVE  IsFiniteSet(Below(k)) /\ rank(k) \in Nat /\ Rank(rows, ks, k) = rank(k)
  <2>1. Below(k) \subseteq ks
    OBVIOUS
  <2>2. IsFiniteSet(Below(k))
    BY <1>1, <2>1, FS_Subset
  <2>3. QED
    BY <2>2, FS_CardinalityType DEF Rank
<1>3. ASSUME NEW k \in ks
      PROVE  rank(k) <= Cardinality(ks) - 1
  <2>1. Below(k) \subseteq ks \ {k}
    BY PrecedesIsStrict
  <2>2. IsFiniteSet(ks \ {k}) /\ Cardinality(ks \ {k}) = Cardinality(ks) - 1
    BY <1>1, FS_RemoveElement
  <2>3. QED
    BY <2>1, <2>2, FS_Subset
<1>4. ASSUME NEW k \in ks, NEW l \in ks, Precedes(rows, k, l)
      PROVE  rank(k) < rank(l)
  <2>1. Below(k) \cup {k} \subseteq Below(l)
    BY <1>4, PrecedesIsStrict
  <2>2. k \notin Below(k)
    BY PrecedesIsStrict
  <2> HIDE DEF Below
  <2>3. Cardinality(Below(k) \cup {k}) = rank(k) + 1
    BY <1>2, <2>2, FS_AddElement
  <2>4. Cardinality(Below(k) \cup {k}) <= rank(l)
    BY <1>2, <2>1, FS_Subset
  <2>5. QED
    BY <1>2, <2>3, <2>4
<1> HIDE DEF Below
<1>5. \A k \in ks : Rank(rows, ks, k) \in 0 .. Cardinality(ks) - 1
  BY <1>1, <1>2, <1>3
<1>6. \A k, l \in ks : Precedes(rows, k, l) => Rank(rows, ks, k) < Rank(rows, ks, l)
  BY <1>2, <1>4
<1>7. ASSUME NEW k \in ks, NEW l \in ks, Rank(rows, ks, k) = Rank(rows, ks, l)
      PROVE  k = l
  <2>1. Rank(rows, ks, k) \in Nat /\ Rank(rows, ks, l) \in Nat
    BY <1>2
  <2>2. ~Precedes(rows, k, l) /\ ~Precedes(rows, l, k)
    BY <1>6, <1>7, <2>1
  <2>3. QED
    BY <2>2, PrecedesIsStrict
<1>8. QED
  BY <1>1, <1>5, <1>6, <1>7

(* Ordered lists each of them once, in order. *)
LEMMA OrderedIs ==
    ASSUME NEW rows, NEW ks, Orderable(rows, ks),
           NEW n, n = Cardinality(ks), NEW o, o = Ordered(rows, ks)
    PROVE  /\ n \in Nat /\ o \in [1 .. n -> ks]
           /\ \A i \in 1 .. n : Rank(rows, ks, o[i]) = i - 1
           /\ \A k \in ks : \E i \in 1 .. n : o[i] = k
           /\ \A i, j \in 1 .. n : i < j => Precedes(rows, o[i], o[j])
<1> DEFINE ranks == [k \in ks |-> Rank(rows, ks, k)]
<1>1. /\ n \in Nat /\ IsFiniteSet(ks)
      /\ \A k \in ks : Rank(rows, ks, k) \in 0 .. n - 1
      /\ \A k, l \in ks : Precedes(rows, k, l) => Rank(rows, ks, k) < Rank(rows, ks, l)
      /\ \A k, l \in ks : Rank(rows, ks, k) = Rank(rows, ks, l) => k = l
  BY RanksAre DEF Orderable
<1>2. IsFiniteSet(0 .. n - 1) /\ Cardinality(0 .. n - 1) = n
  <2> DEFINE m == n - 1
  <2>1. m \in Int /\ (0 > m <=> n = 0) /\ m - 0 + 1 = n
    BY <1>1
  <2> HIDE DEF m
  <2>2. /\ IsFiniteSet(0 .. m)
        /\ Cardinality(0 .. m) = IF 0 > m THEN 0 ELSE m - 0 + 1
    BY <2>1, FS_Interval
  <2>3. Cardinality(0 .. m) = n
    BY <2>1, <2>2
  <2>4. QED
    BY <2>2, <2>3 DEF m
<1>3. ranks \in Injection(ks, 0 .. n - 1)
  BY <1>1 DEF Injection, IsInjective
<1>4. ranks \in Surjection(ks, 0 .. n - 1)
  BY <1>2, <1>3, FS_Injection
<1>5. \A i \in 0 .. n - 1 : \E k \in ks : Rank(rows, ks, k) = i
  BY <1>4 DEF Surjection
<1>6. ASSUME NEW i \in 1 .. n
      PROVE  o[i] \in ks /\ Rank(rows, ks, o[i]) = i - 1
  <2>1. i - 1 \in 0 .. n - 1
    BY <1>1
  <2>2. \E k \in ks : Rank(rows, ks, k) = i - 1
    BY <1>5, <2>1
  <2>3. o[i] = CHOOSE k \in ks : Rank(rows, ks, k) = i - 1
    BY DEF Ordered
  <2>4. QED
    BY <2>2, <2>3
<1>7. DOMAIN o = 1 .. n /\ o = [i \in 1 .. n |-> o[i]]
  BY DEF Ordered
<1>8. o \in [1 .. n -> ks]
  BY <1>6, <1>7
<1>9. ASSUME NEW k \in ks
      PROVE  \E i \in 1 .. n : o[i] = k
  <2> DEFINE i == Rank(rows, ks, k) + 1
  <2>1. Rank(rows, ks, k) \in 0 .. n - 1
    BY <1>1
  <2>2. i \in 1 .. n /\ i - 1 = Rank(rows, ks, k)
    BY <1>1, <2>1
  <2>3. o[i] \in ks /\ Rank(rows, ks, o[i]) = i - 1
    BY <1>6, <2>2
  <2>4. o[i] = k
    BY <1>1, <2>2, <2>3
  <2>5. QED
    BY <2>2, <2>4
<1>10. ASSUME NEW i \in 1 .. n, NEW j \in 1 .. n, i < j
       PROVE  Precedes(rows, o[i], o[j])
  <2>1. /\ o[i] \in ks /\ o[j] \in ks
        /\ Rank(rows, ks, o[i]) = i - 1 /\ Rank(rows, ks, o[j]) = j - 1
    BY <1>6
  <2>2. i \in Nat /\ j \in Nat
    BY <1>1
  <2>3. ~(Rank(rows, ks, o[j]) < Rank(rows, ks, o[i])) /\ o[i] # o[j]
    BY <1>10, <2>1, <2>2
  <2>4. QED
    BY <1>1, <2>1, <2>3, PrecedesIsStrict
<1>11. QED
  BY <1>1, <1>6, <1>8, <1>9, <1>10

(* Whatever lists each of them, in order, is Ordered. *)
LEMMA OrderedOnly ==
    ASSUME NEW rows, NEW ks, Orderable(rows, ks), NEW n \in Nat, NEW s \in [1 .. n -> ks],
           \A k \in ks : \E i \in 1 .. n : s[i] = k,
           \A i, j \in 1 .. n : i < j => Precedes(rows, s[i], s[j])
    PROVE  s = Ordered(rows, ks) /\ Cardinality(ks) = n
<1>1. ASSUME NEW i \in 1 .. n, NEW j \in 1 .. n, s[i] = s[j]
      PROVE  i = j
  <2>1. s[i] \in ks /\ ~Precedes(rows, s[i], s[i])
    BY PrecedesIsStrict
  <2>2. ~(i < j) /\ ~(j < i)
    BY <1>1, <2>1
  <2>3. QED
    BY <2>2
<1>2. ASSUME NEW m \in Nat, NEW A, NEW t \in [1 .. m -> A],
             \A a \in A : \E i \in 1 .. m : t[i] = a,
             \A i, j \in 1 .. m : t[i] = t[j] => i = j
      PROVE  Cardinality(A) = m
  <2>1. IsFiniteSet(1 .. m) /\ Cardinality(1 .. m) = m
    <3>1. Cardinality(1 .. m) = IF 1 > m THEN 0 ELSE m - 1 + 1
      BY FS_Interval
    <3>2. IsFiniteSet(1 .. m)
      BY FS_Interval
    <3>3. QED
      BY <3>1, <3>2
  <2>2. t \in Surjection(1 .. m, A)
    BY <1>2 DEF Surjection
  <2>3. t \in Injection(1 .. m, A)
    BY <1>2 DEF Injection, IsInjective
  <2>4. QED
    BY <2>1, <2>2, <2>3, FS_Surjection
<1>3. Cardinality(ks) = n
  BY <1>1, <1>2
<1> DEFINE o == Ordered(rows, ks)
<1>4. /\ o \in [1 .. n -> ks] /\ \A i \in 1 .. n : Rank(rows, ks, o[i]) = i - 1
      /\ \A k, l \in ks : Rank(rows, ks, k) = Rank(rows, ks, l) => k = l
  <2>1. n = Cardinality(ks) /\ o = Ordered(rows, ks)
    BY <1>3
  <2> HIDE DEF o
  <2>2. o \in [1 .. n -> ks] /\ \A i \in 1 .. n : Rank(rows, ks, o[i]) = i - 1
    BY <2>1, OrderedIs
  <2>3. QED
    BY <2>2, RanksAre
<1> HIDE DEF o
<1>5. ASSUME NEW i \in 1 .. n
      PROVE  s[i] = o[i]
  <2> DEFINE below == {l \in ks : Precedes(rows, l, s[i])}
             t == [j \in 1 .. i - 1 |-> s[j]]
  <2>1. i - 1 \in Nat /\ 1 .. i - 1 \subseteq 1 .. n /\ s[i] \in ks
    OBVIOUS
  <2>2. t \in [1 .. i - 1 -> below]
    <3>1. \A j \in 1 .. i - 1 : j \in 1 .. n /\ j < i
      OBVIOUS
    <3>2. \A j \in 1 .. i - 1 : s[j] \in below
      BY <3>1
    <3>3. QED
      BY <3>2
  <2>3. \A j, h \in 1 .. i - 1 : t[j] = t[h] => j = h
    BY <1>1, <2>1
  <2>4. ASSUME NEW a \in below
        PROVE  \E j \in 1 .. i - 1 : t[j] = a
    <3>1. PICK j \in 1 .. n : s[j] = a
      OBVIOUS
    <3>2. Precedes(rows, s[j], s[i]) /\ s[j] \in ks
      BY <3>1
    <3>3. ~Precedes(rows, s[i], s[j]) /\ s[i] # s[j]
      BY <2>1, <3>2, PrecedesIsStrict
    <3>4. j < i
      BY <3>3
    <3>5. j \in 1 .. i - 1
      BY <3>4
    <3>6. QED
      BY <3>1, <3>5
  <2> HIDE DEF t
  <2>5. Cardinality(below) = i - 1
    BY <1>2, <2>1, <2>2, <2>3, <2>4
  <2>6. Rank(rows, ks, s[i]) = i - 1
    BY <2>5 DEF Rank
  <2>7. QED
    BY <1>4, <2>1, <2>6
<1>6. QED
  BY <1>3, <1>4, <1>5 DEF o

-----------------------------------------------------------------------------
(* The keys of a relative move. *)

LEMMA InsertIs ==
    ASSUME NEW A, NEW n \in Nat, NEW s \in [1 .. n -> A], NEW i \in 0 .. n, NEW e
    PROVE  /\ InsertAt(s, i + 1, e) \in [1 .. n + 1 -> A \cup {e}]
           /\ \A j \in 1 .. n + 1 :
                 InsertAt(s, i + 1, e)[j]
                   = IF j <= i THEN s[j] ELSE IF j = i + 1 THEN e ELSE s[j - 1]
<1> DEFINE B == A \cup {e}
           o == InsertAt(s, i + 1, e)
           a == SubSeq(s, 1, i)
           b == SubSeq(s, i + 1, n)
<1>1. s \in Seq(A) /\ Len(s) = n /\ i \in Nat /\ i <= n
  BY SeqIs
<1>2. i + 1 - 1 = i
  BY <1>1
<1>3. o = a \o <<e>> \o b
  BY <1>1, <1>2 DEF InsertAt
<1>4. a \in Seq(B) /\ Len(a) = i /\ \A j \in 1 .. i : a[j] = s[j]
  <2>1. \A j \in 1 .. i : s[j] \in B
    BY <1>1
  <2>2. /\ a \in Seq(B) /\ Len(a) = IF 1 <= i THEN i - 1 + 1 ELSE 0
        /\ \A j \in 1 .. i - 1 + 1 : a[j] = s[1 + j - 1]
    BY <1>1, <2>1, SubSeqProperties
  <2>3. QED
    BY <1>1, <2>2
<1>5. b \in Seq(B) /\ Len(b) = n - i /\ \A j \in 1 .. n - i : b[j] = s[i + j]
  <2>1. \A j \in i + 1 .. n : s[j] \in B
    BY <1>1
  <2>2. i + 1 \in Int /\ n \in Int
    BY <1>1
  <2>3. /\ b \in Seq(B) /\ Len(b) = IF i + 1 <= n THEN n - (i + 1) + 1 ELSE 0
        /\ \A j \in 1 .. n - (i + 1) + 1 : b[j] = s[(i + 1) + j - 1]
    BY <2>1, <2>2, SubSeqProperties
  <2>4. QED
    BY <1>1, <2>3
<1>6. <<e>> \in Seq(B) /\ Len(<<e>>) = 1 /\ <<e>>[1] = e
  OBVIOUS
<1> HIDE DEF a, b, B, o
<1> DEFINE c == a \o <<e>>
<1>7. /\ c \in Seq(B) /\ Len(c) = i + 1
      /\ \A j \in 1 .. i + 1 : c[j] = IF j <= i THEN s[j] ELSE e
  <2>1. /\ c \in Seq(B) /\ Len(c) = Len(a) + Len(<<e>>)
        /\ \A j \in 1 .. Len(a) + Len(<<e>>) :
              c[j] = IF j <= Len(a) THEN a[j] ELSE <<e>>[j - Len(a)]
    BY <1>4, <1>6, ConcatProperties
  <2>2. QED
    BY <1>1, <1>4, <1>6, <2>1
<1> HIDE DEF c
<1>8. /\ o \in Seq(B) /\ Len(o) = n + 1
      /\ \A j \in 1 .. n + 1 :
            o[j] = IF j <= i THEN s[j] ELSE IF j = i + 1 THEN e ELSE s[j - 1]
  <2>1. o = c \o b
    BY <1>3 DEF c
  <2>2. /\ o \in Seq(B) /\ Len(o) = Len(c) + Len(b)
        /\ \A j \in 1 .. Len(c) + Len(b) :
              o[j] = IF j <= Len(c) THEN c[j] ELSE b[j - Len(c)]
    <3>1. c \in Seq(B) /\ b \in Seq(B)
      BY <1>5, <1>7
    <3>2. /\ c \o b \in Seq(B) /\ Len(c \o b) = Len(c) + Len(b)
          /\ \A j \in 1 .. Len(c) + Len(b) :
                (c \o b)[j] = IF j <= Len(c) THEN c[j] ELSE b[j - Len(c)]
      BY <3>1, ConcatProperties
    <3>3. QED
      BY <2>1, <3>2
  <2>3. Len(c) + Len(b) = n + 1
    BY <1>1, <1>5, <1>7
  <2>4. ASSUME NEW j \in 1 .. n + 1
        PROVE  o[j] = IF j <= i THEN s[j] ELSE IF j = i + 1 THEN e ELSE s[j - 1]
    <3>1. CASE j <= i + 1
      BY <1>1, <1>7, <2>2, <2>3, <3>1
    <3>2. CASE j > i + 1
      <4>1. o[j] = b[j - (i + 1)]
        BY <1>1, <1>7, <2>2, <2>3, <3>2
      <4>2. j - (i + 1) \in 1 .. n - i /\ i + (j - (i + 1)) = j - 1
        BY <1>1, <3>2
      <4>3. b[j - (i + 1)] = s[j - 1]
        BY <1>5, <4>2
      <4>4. QED
        BY <1>1, <3>2, <4>1, <4>3
    <3>3. QED
      BY <1>1, <3>1, <3>2
  <2>5. QED
    BY <2>2, <2>3, <2>4
<1>9. QED
  <2>1. o \in [1 .. Len(o) -> B]
    BY <1>8, LenProperties
  <2>2. QED
    BY <1>8, <2>1 DEF B, o

(* A key that is made between two others is one, and lies there. *)
LEMMA BetweenIs ==
    ASSUME NEW left \in Bounds, NEW right \in Bounds, Between(left, right) # None
    PROVE  /\ Between(left, right) \in Key /\ Less(left, Between(left, right))
           /\ right = << >> \/ Less(Between(left, right), right)
<1> DEFINE room == {n \in 1 .. KeyLength : High(right, n) - Low(left, n) > 1}
           at == CHOOSE n \in room : \A x \in room : n <= x
           k == Candidate(left, right)
<1>1. /\ Between(left, right) = k /\ k # None /\ Less(left, k)
      /\ right = << >> \/ Less(k, right)
  BY DEF Between
<1>2. room # {} /\ k = [n \in 1 .. at |-> IF n = at THEN Low(left, n) + 1
                                         ELSE IF Low(left, n) >= 0 THEN Low(left, n) ELSE 0]
  BY <1>1 DEF Candidate
<1>3. at \in room /\ \A x \in room : at <= x
  <2>1. room \subseteq Nat
    BY KeyAssumption
  <2>2. \E n \in room : \A x \in room : n <= x
    BY <1>2, <2>1, LeastExists
  <2> HIDE DEF room
  <2>3. QED
    BY <2>2
<1>4. at \in 1 .. KeyLength /\ at \in Places /\ High(right, at) - Low(left, at) > 1
  BY <1>3, KeyAssumption DEF Places
<1> HIDE DEF at, room
<1>5. \A n \in Places : Low(left, n) \in -1 .. Digits - 1 /\ High(right, n) \in 0 .. Digits
  BY LettersAre
<1>6. \A n \in 1 .. at :
         (IF n = at THEN Low(left, n) + 1 ELSE IF Low(left, n) >= 0 THEN Low(left, n) ELSE 0)
           \in 0 .. Digits - 1
  BY <1>4, <1>5, KeyAssumption DEF Places
<1>7. k \in [1 .. at -> 0 .. Digits - 1]
  BY <1>2, <1>6
<1>8. k \in Key
  BY <1>4, <1>7 DEF Key
<1>9. QED
  BY <1>1, <1>8

(* Any recipes of the plan are finitely many, and in an order. *)
LEMMA RecipesAre ==
    ASSUME IInv, NEW ks, \A k \in ks : k \in DOMAIN row /\ k[1] = "recipe"
    PROVE  Orderable(row, ks) /\ Cardinality(ks) <= Digits
<1>1. \A k \in ks : k = S(k[2]) /\ k[2] \in Recipe /\ row[k].key \in Key
  BY IInvIs, RowIs DEF S, RecipeRow
<1> DEFINE A == {S(s) : s \in Recipe}
           name == [s \in Recipe |-> S(s)]
<1>2. name \in Surjection(Recipe, A)
  BY DEF Surjection
<1>3. IsFiniteSet(A) /\ Cardinality(A) <= Cardinality(Recipe)
  BY <1>2, IdentityAssumption, FS_Surjection
<1>4. ks \subseteq A
  BY <1>1
<1>5. IsFiniteSet(ks) /\ Cardinality(ks) <= Cardinality(A)
  BY <1>3, <1>4, FS_Subset
<1>6. Cardinality(ks) \in Nat /\ Cardinality(A) \in Nat /\ Cardinality(Recipe) \in Nat
  BY <1>3, <1>5, IdentityAssumption, FS_CardinalityType
<1>7. Cardinality(ks) <= Digits
  BY <1>3, <1>5, <1>6, KeyAssumption
<1>8. QED
  BY <1>1, <1>5, <1>7, IdentityAssumption DEF Orderable

(* The place of a move whose target is there is one of those between others. *)
LEMMA IndexIs ==
    ASSUME NEW q, NEW n \in Nat, NEW A, NEW s \in [1 .. n -> A],
           q.placement \in {"before", "after", "start", "end"},
           q.placement \in {"before", "after"} => \E i \in 1 .. n : s[i] = S(q.target)
    PROVE  Index(q, s) \in 0 .. n
<1>1. Len(s) = n /\ DOMAIN s = 1 .. n
  BY SeqIs
<1>2. CASE q.placement \in {"start", "end"}
  BY <1>1, <1>2 DEF Index
<1>3. CASE q.placement \in {"before", "after"}
  <2> DEFINE i == CHOOSE j \in DOMAIN s : s[j] = S(q.target)
  <2>1. i \in 1 .. n
    BY <1>1, <1>3
  <2>2. Index(q, s) = i - 1 \/ Index(q, s) = i
    BY <1>3 DEF Index
  <2> HIDE DEF i
  <2>3. QED
    BY <2>1, <2>2
<1>4. QED
  BY <1>2, <1>3

(* The recipes around the new place, and the order with the recipe put there. *)
Others(q) == Scope(row, q.day, q.role) \ {S(q.recipe)}
Listed(q) == Ordered(row, Others(q))
Into(q) == Index(q, Listed(q))
Order(q) == InsertAt(Listed(q), Into(q) + 1, S(q.recipe))

(* The others o, and the order with the recipe put after the first i of them.    *)
Arranged(q, n, o, i, order) ==
    LET k == S(q.recipe)
        ks == Others(q)
    IN  /\ Orderable(row, ks) /\ n \in Nat /\ n + 1 <= Digits /\ i \in 0 .. n
        /\ o \in [1 .. n -> ks]
        /\ \A j, h \in 1 .. n : j < h => Precedes(row, o[j], o[h])
        /\ order \in [1 .. n + 1 -> ks \cup {k}]
        /\ \A j \in 1 .. n + 1 :
              order[j] = IF j <= i THEN o[j] ELSE IF j = i + 1 THEN k ELSE o[j - 1]
        /\ \A x \in ks \cup {k} : \E j \in 1 .. n + 1 : order[j] = x
        /\ \A j, h \in 1 .. n + 1 : order[j] = order[h] => j = h

LEMMA OrderIs ==
    ASSUME IInv, NEW q \in MoveRequests, S(q.recipe) \in DOMAIN row, ~TargetElsewhere(q)
    PROVE  Arranged(q, Cardinality(Others(q)), Listed(q), Into(q), Order(q))
<1> DEFINE k == S(q.recipe)
           ks == Others(q)
           n == Cardinality(ks)
           o == Listed(q)
           i == Into(q)
           order == Order(q)
<1>1. \A x \in ks : x \in DOMAIN row /\ x[1] = "recipe" /\ x # k
  BY DEF Others, Scope
<1>2. k[1] = "recipe" /\ k \notin ks
  BY KeyIs DEF Others
<1>3. Orderable(row, ks)
  BY <1>1, RecipesAre
<1>4. /\ n \in Nat /\ o \in [1 .. n -> ks]
      /\ \A j \in 1 .. n : Rank(row, ks, o[j]) = j - 1
      /\ \A x \in ks : \E j \in 1 .. n : o[j] = x
      /\ \A j, h \in 1 .. n : j < h => Precedes(row, o[j], o[h])
  <2>1. n = Cardinality(ks) /\ o = Ordered(row, ks)
    BY DEF Listed
  <2> HIDE DEF ks, n, o
  <2>2. QED
    BY <1>3, <2>1, OrderedIs
<1> HIDE DEF n, o
<1>5. n + 1 <= Digits
  <2>1. \A x \in ks \cup {k} : x \in DOMAIN row /\ x[1] = "recipe"
    BY <1>1, <1>2
  <2>2. Cardinality(ks \cup {k}) <= Digits
    BY <2>1, RecipesAre
  <2>3. IsFiniteSet(ks)
    BY <1>3 DEF Orderable
  <2>4. Cardinality(ks \cup {k}) = n + 1
    BY <1>2, <2>3, FS_AddElement DEF n
  <2>5. QED
    BY <2>2, <2>4
<1>6. i \in 0 .. n
  <2>1. /\ q.placement \in {"before", "after", "start", "end"}
        /\ q.target # q.recipe /\ (q.target = None <=> q.placement \in {"start", "end"})
        /\ q.target \in Recipe \cup {None}
    BY DEF MoveRequests
  <2>2. q.placement \in {"before", "after"} => S(q.target) \in ks
    <3>1. S(q.target) # k
      BY <2>1, KeyIs
    <3>2. QED
      BY <2>1, <3>1 DEF TargetElsewhere, Others
  <2>3. q.placement \in {"before", "after"} => \E j \in 1 .. n : o[j] = S(q.target)
    BY <1>4, <2>2
  <2>4. Index(q, o) \in 0 .. n
    BY <1>4, <2>1, <2>3, IndexIs
  <2>5. QED
    BY <2>4 DEF Into, o
<1> HIDE DEF i
<1>7. /\ order \in [1 .. n + 1 -> ks \cup {k}]
      /\ \A j \in 1 .. n + 1 :
            order[j] = IF j <= i THEN o[j] ELSE IF j = i + 1 THEN k ELSE o[j - 1]
  <2>1. order = InsertAt(o, i + 1, k)
    BY DEF Order, o, i
  <2>2. n \in Nat /\ o \in [1 .. n -> ks] /\ i \in 0 .. n
    BY <1>4, <1>6
  <2> HIDE DEF k, ks, order
  <2>3. /\ order \in [1 .. n + 1 -> ks \cup {k}]
        /\ \A j \in 1 .. n + 1 :
              order[j] = IF j <= i THEN o[j] ELSE IF j = i + 1 THEN k ELSE o[j - 1]
    BY <2>1, <2>2, InsertIs
  <2>4. QED
    BY <2>3
<1> HIDE DEF k, ks, order
<1>8. ASSUME NEW x \in ks \cup {k}
      PROVE  \E j \in 1 .. n + 1 : order[j] = x
  <2>1. CASE x = k
    <3>1. i + 1 \in 1 .. n + 1 /\ order[i + 1] = k
      BY <1>4, <1>6, <1>7
    <3>2. QED
      BY <2>1, <3>1
  <2>2. CASE x \in ks
    <3>1. PICK j \in 1 .. n : o[j] = x
      BY <1>4, <2>2
    <3>2. CASE j <= i
      <4>1. j \in 1 .. n + 1
        BY <1>4
      <4>2. order[j] = o[j]
        BY <1>7, <3>2, <4>1
      <4>3. QED
        BY <3>1, <4>1, <4>2
    <3>3. CASE j > i
      <4>1. j + 1 \in 1 .. n + 1 /\ ~(j + 1 <= i) /\ j + 1 # i + 1 /\ j + 1 - 1 = j
        BY <1>4, <1>6, <3>3
      <4>2. order[j + 1] = o[j]
        BY <1>7, <4>1
      <4>3. QED
        BY <3>1, <4>1, <4>2
    <3>4. QED
      BY <1>4, <1>6, <3>2, <3>3
  <2>3. QED
    BY <2>1, <2>2
<1>9. ASSUME NEW j \in 1 .. n + 1, NEW h \in 1 .. n + 1, order[j] = order[h]
      PROVE  j = h
  <2>1. \A a, b \in 1 .. n : o[a] = o[b] => a = b
    <3>1. ASSUME NEW a \in 1 .. n, NEW b \in 1 .. n, o[a] = o[b]
          PROVE  a = b
      <4>1. a - 1 = b - 1
        BY <1>4, <3>1
      <4>2. QED
        BY <1>4, <4>1
    <3>2. QED
      BY <3>1
  <2>2. \A a \in 1 .. n : o[a] \in ks /\ o[a] # k
    BY <1>2, <1>4
  <2>3. \A a \in 1 .. n + 1 : /\ a <= i => a \in 1 .. n /\ order[a] = o[a]
                              /\ a = i + 1 => order[a] = k
                              /\ a > i + 1 => a - 1 \in 1 .. n /\ order[a] = o[a - 1]
    BY <1>4, <1>6, <1>7
  <2>4. CASE j = i + 1 \/ h = i + 1
    <3>1. order[j] = k /\ order[h] = k
      BY <1>9, <2>3, <2>4
    <3>2. \A a \in 1 .. n + 1 : order[a] = k => ~(a <= i) /\ ~(a > i + 1)
      BY <2>2, <2>3
    <3>3. i \in Nat
      BY <1>4, <1>6
    <3>4. QED
      BY <3>1, <3>2, <3>3
  <2>5. CASE j # i + 1 /\ h # i + 1
    <3>1. CASE j <= i /\ h <= i
      BY <1>9, <2>1, <2>3, <3>1
    <3>2. CASE j <= i /\ h > i + 1
      <4>1. j = h - 1
        BY <1>9, <2>1, <2>3, <3>2
      <4>2. QED
        BY <1>4, <1>6, <3>2, <4>1
    <3>3. CASE j > i + 1 /\ h <= i
      <4>1. h = j - 1
        BY <1>9, <2>1, <2>3, <3>3
      <4>2. QED
        BY <1>4, <1>6, <3>3, <4>1
    <3>4. CASE j > i + 1 /\ h > i + 1
      <4>1. j - 1 = h - 1
        BY <1>9, <2>1, <2>3, <3>4
      <4>2. QED
        BY <1>4, <4>1
    <3>5. QED
      BY <1>4, <1>6, <2>5, <3>1, <3>2, <3>3, <3>4
  <2>6. QED
    BY <2>4, <2>5
<1>10. QED
  BY <1>3, <1>4, <1>5, <1>6, <1>7, <1>8, <1>9 DEF Arranged, k, ks, n, o, i, order

(* The keys put the recipe between its neighbours, or number all of them. *)
LEMMA NewKeysAre ==
    ASSUME IInv, NEW q \in MoveRequests, S(q.recipe) \in DOMAIN row, ~TargetElsewhere(q),
           NEW n, NEW o, o = Listed(q), NEW i, i = Into(q), NEW order, order = Order(q),
           Arranged(q, n, o, i, order), NEW keys, keys = NewKeys(q)
    PROVE  /\ S(q.recipe) \in DOMAIN keys
           /\ \A x \in DOMAIN keys : x \in Others(q) \cup {S(q.recipe)} /\ keys[x] \in Key
           /\ \/ /\ DOMAIN keys = {S(q.recipe)}
                 /\ i > 0 => Less(row[o[i]].key, keys[S(q.recipe)])
                 /\ i < n => Less(keys[S(q.recipe)], row[o[i + 1]].key)
              \/ \A j \in 1 .. n + 1 : order[j] \in DOMAIN keys /\ keys[order[j]] = <<j - 1>>
<1> DEFINE k == S(q.recipe)
           ks == Others(q)
           left == IF i > 0 THEN row[o[i]].key ELSE << >>
           right == IF i < Len(o) THEN row[o[i + 1]].key ELSE << >>
           numbered == [x \in ToSet(order) |-> <<(CHOOSE j \in DOMAIN order : order[j] = x) - 1>>]
<1>1. /\ Orderable(row, ks) /\ n \in Nat /\ n + 1 <= Digits /\ i \in 0 .. n
      /\ o \in [1 .. n -> ks] /\ order \in [1 .. n + 1 -> ks \cup {k}]
      /\ \A x \in ks \cup {k} : \E j \in 1 .. n + 1 : order[j] = x
      /\ \A j, h \in 1 .. n + 1 : order[j] = order[h] => j = h
  BY DEF Arranged
<1>2. keys = IF Between(left, right) # None THEN Only(k, Between(left, right)) ELSE numbered
  BY DEF NewKeys, Order, Into, Listed, Others
<1>3. Len(o) = n
  BY <1>1, SeqIs
<1>4. \A x \in ks : row[x].key \in Key
  BY <1>1 DEF Orderable
<1>5. CASE Between(left, right) # None
  <2>1. left \in Bounds /\ right \in Bounds /\ (i < n => right \in Key)
    BY <1>1, <1>3, <1>4 DEF Bounds
  <2>2. DOMAIN keys = {k} /\ keys[k] = Between(left, right)
    BY <1>2, <1>5, OnlyIs
  <2>3. i < n => right # << >>
    <3>1. \A x \in Key : x # << >>
      <4>1. ASSUME NEW x \in Key
            PROVE  x # << >>
        <5>1. x \in Bounds
          BY DEF Bounds
        <5>2. Len(x) \in 1 .. KeyLength /\ (x = << >> <=> Len(x) = 0)
          BY <5>1, LettersAre
        <5>3. QED
          BY <5>2, KeyAssumption
      <4>2. QED
        BY <4>1
    <3>2. QED
      BY <2>1, <3>1
  <2>4. i > 0 => left = row[o[i]].key
    OBVIOUS
  <2>5. i < n => right = row[o[i + 1]].key
    BY <1>3
  <2> HIDE DEF left, right
  <2>6. /\ Between(left, right) \in Key /\ Less(left, Between(left, right))
        /\ right = << >> \/ Less(Between(left, right), right)
    BY <1>5, <2>1, BetweenIs
  <2> HIDE DEF k
  <2>7. /\ i > 0 => Less(row[o[i]].key, keys[k])
        /\ i < n => Less(keys[k], row[o[i + 1]].key)
    BY <2>2, <2>3, <2>4, <2>5, <2>6
  <2>8. QED
    BY <2>2, <2>6, <2>7 DEF k
<1>6. CASE Between(left, right) = None
  <2>1. keys = numbered
    BY <1>2, <1>6
  <2>2. DOMAIN order = 1 .. n + 1
    BY <1>1
  <2>3. DOMAIN keys = ks \cup {k}
    BY <1>1, <2>1, <2>2 DEF ToSet
  <2>4. ASSUME NEW j \in 1 .. n + 1
        PROVE  order[j] \in DOMAIN keys /\ keys[order[j]] = <<j - 1>>
    <3>1. order[j] \in DOMAIN keys
      BY <1>1, <2>3
    <3>2. (CHOOSE h \in DOMAIN order : order[h] = order[j]) = j
      BY <1>1, <2>2
    <3>3. QED
      BY <2>1, <3>1, <3>2
  <2> HIDE DEF numbered
  <2>5. \A x \in DOMAIN keys : keys[x] \in Key
    <3>1. \A j \in 1 .. n + 1 : <<j - 1>> \in Key
      <4>1. ASSUME NEW j \in 1 .. n + 1
            PROVE  <<j - 1>> \in Key
        <5>1. j - 1 \in 0 .. Digits - 1
          BY <1>1, KeyAssumption
        <5>2. <<j - 1>> \in [1 .. 1 -> 0 .. Digits - 1]
          BY <5>1
        <5>3. 1 \in 1 .. KeyLength
          BY KeyAssumption
        <5>4. QED
          BY <5>2, <5>3 DEF Key
      <4>2. QED
        BY <4>1
    <3>2. ASSUME NEW x \in DOMAIN keys
          PROVE  keys[x] \in Key
      <4>1. PICK j \in 1 .. n + 1 : order[j] = x
        BY <1>1, <2>3
      <4>2. keys[x] = <<j - 1>>
        BY <2>4, <4>1
      <4>3. QED
        BY <3>1, <4>2
    <3>3. QED
      BY <3>2
  <2>6. QED
    BY <2>3, <2>4, <2>5
<1>7. QED
  BY <1>5, <1>6

-----------------------------------------------------------------------------
(* Moves. *)

(* The rows after a move: its recipe is on the day and under the role that it   *)
(* asked for, and some recipes have new keys.                                *)
LEMMA MovedIs ==
    ASSUME IInv, NEW q, S(q.recipe) \in DOMAIN row, q.day \in DayIds, q.role \in RoleIds,
           NEW keys, S(q.recipe) \in DOMAIN keys,
           \A x \in DOMAIN keys : x \in DOMAIN row /\ x[1] = "recipe" /\ keys[x] \in Key,
           NEW rows, rows = Moved(q, keys)
    PROVE  /\ DOMAIN rows = DOMAIN row /\ \A x \in DOMAIN row : IsRow(x, rows[x])
           /\ rows[S(q.recipe)].day = q.day /\ rows[S(q.recipe)].role = q.role
           /\ \A x \in DOMAIN row : x[1] # "recipe" => rows[x] = row[x]
           /\ \A x \in DOMAIN row : x # S(q.recipe) /\ x[1] = "recipe" =>
                 rows[x].day = row[x].day /\ rows[x].role = row[x].role
           /\ \A x \in DOMAIN row : x[1] = "recipe" =>
                 /\ DOMAIN rows[x] = {"day", "role", "key", "note", "retired"}
                 /\ DOMAIN row[x] = {"day", "role", "key", "note", "retired"}
                 /\ rows[x].note = row[x].note /\ rows[x].retired = row[x].retired
                 /\ rows[x].key = IF x \in DOMAIN keys THEN keys[x] ELSE row[x].key
<1> DEFINE k == S(q.recipe)
<1>1. \A x \in DOMAIN row : IsRow(x, row[x])
  BY IInvIs
<1>2. /\ k[1] = "recipe" /\ DOMAIN rows = DOMAIN row
      /\ rows[k] = [row[k] EXCEPT !.day = q.day, !.role = q.role, !.key = keys[k]]
      /\ \A x \in DOMAIN row : x # k /\ x \in DOMAIN keys =>
            rows[x] = [row[x] EXCEPT !.key = keys[x]]
      /\ \A x \in DOMAIN row : x \notin DOMAIN keys => rows[x] = row[x]
  BY KeyIs DEF Moved
<1>3. q.day \in Day \cup (Date \X Nat) /\ q.role \in Role
  BY <1>1, RowIs DEF DayIds, RoleIds, Rows
<1>4. \A x \in DOMAIN row : x[1] = "recipe" =>
         x = S(x[2]) /\ x[2] \in Recipe /\ row[x] \in RecipeRow
  BY <1>1, RowIs DEF S
<1>5. /\ rows[k] \in RecipeRow /\ rows[k].day = q.day /\ rows[k].role = q.role
      /\ rows[k].key = keys[k] /\ rows[k].note = row[k].note /\ rows[k].retired = row[k].retired
  <2> DEFINE r == row[k]
             b == keys[k]
  <2>1. r \in RecipeRow /\ b \in Key
    BY <1>2, <1>4
  <2>2. rows[k] = [r EXCEPT !.day = q.day, !.role = q.role, !.key = b]
    BY <1>2
  <2> HIDE DEF r, b
  <2>3. /\ rows[k] \in RecipeRow /\ rows[k].day = q.day /\ rows[k].role = q.role
        /\ rows[k].key = b /\ rows[k].note = r.note /\ rows[k].retired = r.retired
    BY <1>3, <2>1, <2>2 DEF RecipeRow
  <2>4. QED
    BY <2>3 DEF r, b
<1>6. ASSUME NEW x \in DOMAIN row, x # k, x \in DOMAIN keys
      PROVE  /\ rows[x] \in RecipeRow /\ rows[x].day = row[x].day /\ rows[x].role = row[x].role
             /\ rows[x].key = keys[x] /\ rows[x].note = row[x].note
             /\ rows[x].retired = row[x].retired
  <2> DEFINE r == row[x]
             b == keys[x]
  <2>1. r \in RecipeRow /\ b \in Key
    BY <1>4, <1>6
  <2>2. rows[x] = [r EXCEPT !.key = b]
    BY <1>2, <1>6
  <2> HIDE DEF r, b
  <2>3. /\ rows[x] \in RecipeRow /\ rows[x].day = r.day /\ rows[x].role = r.role
        /\ rows[x].key = b /\ rows[x].note = r.note /\ rows[x].retired = r.retired
    BY <2>1, <2>2 DEF RecipeRow
  <2>4. QED
    BY <2>3 DEF r, b
<1> HIDE DEF k
<1>7. \A x \in DOMAIN row : x[1] = "recipe" => rows[x] \in RecipeRow
  BY <1>2, <1>4, <1>5, <1>6
<1>8. \A r \in RecipeRow : DOMAIN r = {"day", "role", "key", "note", "retired"}
  BY DEF RecipeRow
<1>9. ASSUME NEW x \in DOMAIN row
      PROVE  IsRow(x, rows[x])
  <2>1. CASE x[1] = "recipe"
    BY <1>4, <1>7, <2>1, IsRowOf
  <2>2. CASE x[1] # "recipe"
    BY <1>1, <1>2, <2>2
  <2>3. QED
    BY <2>1, <2>2
<1>10. \A x \in DOMAIN row : x[1] # "recipe" => rows[x] = row[x]
  BY <1>2
<1>11. \A x \in DOMAIN row : x # k /\ x[1] = "recipe" =>
          rows[x].day = row[x].day /\ rows[x].role = row[x].role
  BY <1>2, <1>6
<1>12. ASSUME NEW x \in DOMAIN row, x[1] = "recipe"
       PROVE  /\ rows[x].note = row[x].note /\ rows[x].retired = row[x].retired
              /\ rows[x].key = IF x \in DOMAIN keys THEN keys[x] ELSE row[x].key
  <2>1. CASE x = k
    BY <1>5, <2>1 DEF k
  <2>2. CASE x # k /\ x \in DOMAIN keys
    BY <1>6, <2>2
  <2>3. CASE x \notin DOMAIN keys
    BY <1>2, <2>3
  <2>4. QED
    BY <2>1, <2>2, <2>3
<1>13. QED
  BY <1>2, <1>4, <1>5, <1>7, <1>8, <1>9, <1>10, <1>11, <1>12 DEF k

(* The fields of a recipe that are contended for. *)
LEMMA RecipeFields ==
    ASSUME IInv, NEW f, Writes(f) # {}, f[1][1] = "recipe"
    PROVE  f = <<f[1], f[2]>> /\ f[2] \in {"placement", "note", "retired"}
<1>1. PICK d \in Applied : AimsAt(request[d], f)
  BY DEF Writes
<1> DEFINE q == request[d]
<1>2. IsRequest(q)
  BY <1>1, IInvIs
<1> HIDE DEF q
<1>3. AimsAt(q, f)
  BY <1>1 DEF q
<1>4. Ev[1] = "event" /\ \A x : E(x)[1] = "exception"
  BY KeyIs
<1>5. ~(q.kind = "create" /\ f \in {<<Ev, "start_date">>, <<Ev, "end_date">>})
      /\ ~(f \in UpdateFields(q))
  BY <1>4 DEF UpdateFields
<1>6. \/ q.kind \in FieldKinds /\ f = <<RowOf(q), FieldOf(q.kind)>>
      \/ f = <<S(q.recipe), "placement">>
  BY <1>3, <1>4, <1>5 DEF AimsAt
<1>7. CASE q.kind \in FieldKinds /\ f = <<RowOf(q), FieldOf(q.kind)>>
  <2>1. TableOf(q.kind) = "recipe"
    BY <1>2, <1>7 DEF IsRequest
  <2>2. q.kind \in {"recipe_note", "recipe_lifecycle"}
    BY <2>1 DEF TableOf
  <2>3. FieldOf(q.kind) \in {"note", "retired"}
    BY <2>2 DEF FieldOf
  <2>4. QED
    BY <1>7, <2>3
<1>8. QED
  BY <1>6, <1>7

LEMMA MoveStep ==
    ASSUME IInv, NEW c \in Command, Fresh(c), NEW q, q.time \in Nat, q.kind \in {"place", "move"},
           S(q.recipe) \in DOMAIN row, q.day \in DayIds, q.role \in RoleIds, event # NoEvent,
           Wins(<<S(q.recipe), "placement">>, StampOf(c, q)),
           NEW keys, S(q.recipe) \in DOMAIN keys,
           \A x \in DOMAIN keys : x \in DOMAIN row /\ x[1] = "recipe" /\ keys[x] \in Key,
           row' = Moved(q, keys), NEW ks, ks \subseteq DOMAIN row,
           \A x \in DOMAIN keys : x \notin ks => keys[x] = row[x].key,
           Conclude(c, q, "accepted", {<<S(q.recipe), "placement">>}, Records(row', ks)),
           UNCHANGED <<event, tags>>
    PROVE  IInv'
<1> DEFINE k == S(q.recipe)
           won == {<<k, "placement">>}
<1>1. /\ \A x \in DOMAIN row : IsRow(x, row[x])
      /\ IsPlan(event, row) /\ tags \subseteq Tag
      /\ \A g \in DOMAIN clock : Present(event, row, g)
  BY IInvIs
<1>2. /\ DOMAIN row' = DOMAIN row /\ \A x \in DOMAIN row : IsRow(x, row'[x])
      /\ row'[k].day = q.day /\ row'[k].role = q.role
      /\ \A x \in DOMAIN row : x[1] # "recipe" => row'[x] = row[x]
      /\ \A x \in DOMAIN row : x # k /\ x[1] = "recipe" =>
            row'[x].day = row[x].day /\ row'[x].role = row[x].role
      /\ \A x \in DOMAIN row : x[1] = "recipe" =>
            /\ DOMAIN row'[x] = {"day", "role", "key", "note", "retired"}
            /\ DOMAIN row[x] = {"day", "role", "key", "note", "retired"}
            /\ row'[x].note = row[x].note /\ row'[x].retired = row[x].retired
            /\ row'[x].key = IF x \in DOMAIN keys THEN keys[x] ELSE row[x].key
  BY MovedIs
<1>3. k[1] = "recipe" /\ k # Ev
  BY DEF S, Ev
<1> HIDE DEF k
<1>4. IsRequest(q)
  BY DEF IsRequest, FieldKinds
<1>5. IsPlan(event, row')
  <2>1. DaysIn(row') = DaysIn(row) /\ \A x \in DaysIn(row) : row'[x] = row[x]
    BY <1>2 DEF DaysIn
  <2>2. \A x \in DOMAIN row' : x[1] = "tag" => E(x[2]) \in DOMAIN row'
    BY <1>1, <1>2, PlanIs
  <2>3. \A x \in DOMAIN row' : IsRow(x, row'[x])
    BY <1>2
  <2>4. QED
    BY <1>1, <2>1, <2>2, <2>3, SameDaysPlan
<1>6. Honours(c, q, won)
  <2>1. \A f : f \in won <=> AimsAt(q, f) /\ Wins(f, StampOf(c, q))
    <3>1. \A f : AimsAt(q, f) <=> f = <<k, "placement">>
      BY DEF AimsAt, FieldKinds, k
    <3>2. Wins(<<k, "placement">>, StampOf(c, q))
      BY DEF k
    <3>3. QED
      BY <3>1, <3>2
  <2>2. Present(event', row', <<k, "placement">>)
    BY <1>2, <1>3 DEF Present, k
  <2>3. Reading(event', row', <<k, "placement">>) = Asking(q, <<k, "placement">>)
    BY <1>2, <1>3 DEF Reading, Asking
  <2>4. ASSUME NEW f \in DOMAIN clock, f \notin won, Writes(f) # {}
        PROVE  Reading(event, row', f) = Reading(event, row, f)
    <3>1. Present(event, row, f)
      BY <1>1
    <3>2. CASE f[1] = Ev
      BY <3>2 DEF Reading
    <3>3. CASE f[1] # Ev /\ f[1][1] # "recipe"
      <4>1. row'[f[1]] = row[f[1]]
        BY <1>2, <3>1, <3>3 DEF Present
      <4>2. TagsIn(row', f[1][2]) = TagsIn(row, f[1][2])
        BY <1>2, KeyIs DEF TagsIn
      <4>3. QED
        BY <4>1, <4>2 DEF Reading
    <3>4. CASE f[1] # Ev /\ f[1][1] = "recipe"
      <4>1. f = <<f[1], f[2]>> /\ f[2] \in {"placement", "note", "retired"}
        BY <2>4, <3>4, RecipeFields
      <4>2. f[1] \in DOMAIN row
        BY <3>1, <3>4 DEF Present
      <4>3. CASE f[2] = "placement"
        <5>1. f[1] # k
          BY <2>4, <4>1, <4>3
        <5>2. row'[f[1]].day = row[f[1]].day /\ row'[f[1]].role = row[f[1]].role
          BY <1>2, <3>4, <4>2, <5>1 DEF k
        <5>3. QED
          BY <3>4, <4>3, <5>2 DEF Reading
      <4>4. CASE f[2] \in {"note", "retired"}
        <5>1. row'[f[1]].note = row[f[1]].note /\ row'[f[1]].retired = row[f[1]].retired
          BY <1>2, <3>4, <4>2
        <5>2. QED
          BY <3>4, <4>4, <5>1 DEF Reading
      <4>5. QED
        BY <4>1, <4>3, <4>4
    <3>5. QED
      BY <3>2, <3>3, <3>4
  <2>5. QED
    BY <2>1, <2>2, <2>3, <2>4 DEF Honours
<1>7. Tells(Records(row', ks))
  <2>1. DOMAIN Records(row', ks) = ks /\ \A x \in ks : Records(row', ks)[x] = row'[x]
    BY RecordsAre
  <2>2. Ev \notin ks
    BY <1>1, RowIs
  <2>3. ASSUME NEW x \in DOMAIN row, x \notin ks
        PROVE  SameButPlace(row'[x], row[x])
    <3>1. CASE x[1] # "recipe"
      BY <1>2, <3>1 DEF SameButPlace
    <3>2. CASE x[1] = "recipe"
      <4>1. /\ DOMAIN row'[x] = {"day", "role", "key", "note", "retired"}
            /\ DOMAIN row[x] = {"day", "role", "key", "note", "retired"}
            /\ row'[x].note = row[x].note /\ row'[x].retired = row[x].retired
            /\ row'[x].key = row[x].key
        BY <1>2, <2>3, <3>2
      <4>2. QED
        BY <4>1 DEF SameButPlace
    <3>3. QED
      BY <3>1, <3>2
  <2>4. QED
    BY <1>2, <2>1, <2>2, <2>3 DEF Tells
<1>8. Conclude(c, q, "accepted", won, Records(row', ks))
  BY DEF k
<1>9. IsPlan(event', row') /\ tags' \subseteq Tag /\ DOMAIN row \subseteq DOMAIN row'
      /\ (event # NoEvent => event' # NoEvent)
  BY <1>1, <1>2, <1>5
<1> HIDE DEF won
<1>10. QED
  BY <1>4, <1>6, <1>7, <1>8, <1>9, CommitStep

LEMMA PlaceInv ==
    ASSUME IInv, NEW c \in Command, Fresh(c), NEW q \in PlaceRequests, Place(c, q),
           UNCHANGED tags
    PROVE  IInv'
<1> DEFINE k == S(q.recipe)
<1>1. CASE MoveRefused(q) /\ Reject(c) /\ UNCHANGED row
  BY <1>1, RefusedStep DEF Place
<1>2. CASE ~MoveRefused(q)
  <2>1. /\ q.kind = "place" /\ q.time \in Nat /\ q.day \in DayIds /\ q.role \in RoleIds
        /\ q.key \in Key
    BY WallTimesAssumption, PlanAssumption DEF PlaceRequests
  <2>2. k \in DOMAIN row /\ event # NoEvent /\ UNCHANGED <<event, tags>>
    BY <1>2 DEF Place, MoveRefused, Live, Has, EventActive, NoEvent
  <2>3. k[1] = "recipe" /\ k # Ev
    BY DEF S, Ev
  <2>4. CASE Wins(<<k, "placement">>, StampOf(c, q))
    <3>1. /\ row' = Moved(q, Only(k, q.key))
          /\ Conclude(c, q, "accepted", {<<k, "placement">>}, Records(row', {k}))
      BY <1>2, <2>4 DEF Place
    <3>2. DOMAIN Only(k, q.key) = {k} /\ Only(k, q.key)[k] = q.key
      BY OnlyIs
    <3> DEFINE keys == Only(k, q.key)
    <3>3. \A x \in DOMAIN keys : x \in DOMAIN row /\ x[1] = "recipe" /\ keys[x] \in Key
      BY <2>1, <2>2, <2>3, <3>2
    <3> HIDE DEF keys
    <3>4. QED
      BY <2>1, <2>2, <2>4, <3>1, <3>2, <3>3, MoveStep DEF keys
  <2>5. CASE ~Wins(<<k, "placement">>, StampOf(c, q))
    <3>1. row' = row /\ Conclude(c, q, "partially_superseded", {}, Records(row', {k}))
      BY <1>2, <2>5 DEF Place
    <3>2. IsRequest(q) /\ \A f : AimsAt(q, f) <=> f = <<k, "placement">>
      BY <2>1 DEF IsRequest, FieldKinds, AimsAt
    <3>3. DOMAIN Records(row', {k}) = {k} /\ Records(row', {k})[k] = row[k]
      BY <3>1, RecordsAre
    <3> HIDE DEF k
    <3>4. QED
      BY <2>2, <2>3, <2>5, <3>1, <3>2, <3>3, UnwonStep
  <2>6. QED
    BY <2>4, <2>5
<1>3. QED
  BY <1>1, <1>2 DEF Place

LEMMA MoveInv ==
    ASSUME IInv, NEW c \in Command, Fresh(c), NEW q \in MoveRequests, Move(c, q),
           UNCHANGED tags
    PROVE  IInv'
<1> DEFINE k == S(q.recipe)
           keys == NewKeys(q)
           refused == MoveRefused(q) \/ TargetElsewhere(q)
<1>1. CASE refused /\ Reject(c) /\ UNCHANGED row
  BY <1>1, RefusedStep DEF Move
<1>2. CASE ~refused
  <2>1. /\ q.kind = "move" /\ q.time \in Nat /\ q.day \in DayIds /\ q.role \in RoleIds
    BY WallTimesAssumption DEF MoveRequests
  <2>2. k \in DOMAIN row /\ event # NoEvent /\ UNCHANGED <<event, tags>>
    BY <1>2 DEF Move, MoveRefused, Live, Has, EventActive, NoEvent
  <2>3. k[1] = "recipe" /\ k # Ev
    BY DEF S, Ev
  <2>4. CASE Wins(<<k, "placement">>, StampOf(c, q))
    <3>1. /\ row' = Moved(q, keys)
          /\ Conclude(c, q, "accepted", {<<k, "placement">>}, Records(row', Published(q, keys)))
      BY <1>2, <2>4 DEF Move
    <3>2. ~TargetElsewhere(q)
      BY <1>2
    <3> HIDE DEF keys
    <3>3. k \in DOMAIN keys /\ \A x \in DOMAIN keys : x \in Others(q) \cup {k} /\ keys[x] \in Key
      <4>1. Arranged(q, Cardinality(Others(q)), Listed(q), Into(q), Order(q))
        BY <2>2, <3>2, OrderIs
      <4>2. QED
        BY <2>2, <3>2, <4>1, NewKeysAre DEF keys
    <3>4. \A x \in DOMAIN keys : x \in DOMAIN row /\ x[1] = "recipe" /\ keys[x] \in Key
      BY <2>2, <2>3, <3>3 DEF Others, Scope
    <3>5. /\ Published(q, keys) \subseteq DOMAIN row
          /\ \A x \in DOMAIN keys : x \notin Published(q, keys) => keys[x] = row[x].key
      BY <2>2, <3>3, <3>4 DEF Published
    <3>6. QED
      BY <2>1, <2>2, <2>4, <3>1, <3>3, <3>4, <3>5, MoveStep
  <2>5. CASE ~Wins(<<k, "placement">>, StampOf(c, q))
    <3>1. row' = row /\ Conclude(c, q, "partially_superseded", {}, << >>)
      BY <1>2, <2>5 DEF Move
    <3>2. IsRequest(q) /\ \A f : AimsAt(q, f) <=> f = <<k, "placement">>
      BY <2>1 DEF IsRequest, FieldKinds, AimsAt
    <3>3. DOMAIN << >> = {}
      OBVIOUS
    <3> HIDE DEF k
    <3>4. QED
      BY <2>2, <2>5, <3>1, <3>2, <3>3, UnwonStep
  <2>6. QED
    BY <2>4, <2>5
<1>3. QED
  BY <1>1, <1>2 DEF Move

-----------------------------------------------------------------------------
(* The invariant, and what follows from it. *)

LEMMA PerformInv ==
    ASSUME IInv, NEW c \in Command, Fresh(c), Perform(c), UNCHANGED tags
    PROVE  IInv'
<1>1. CASE \E q \in Asked("create", CreateRequests) : CreateEvent(c, q)
  BY <1>1, CreateEventInv DEF Asked
<1>2. CASE \E q \in Asked("update", UpdateRequests) : UpdateEvent(c, q)
  BY <1>2, UpdateEventInv DEF Asked
<1>3. CASE \E q \in Asked("create_day", CreateDayRequests) : CreateDay(c, q)
  BY <1>3, CreateDayInv DEF Asked
<1>4. CASE \E q : FieldStep(c, q)
  BY <1>4, FieldStepInv
<1>5. CASE \E q \in Asked("create_role", CreateRoleRequests) : CreateRole(c, q)
  BY <1>5, CreateRoleInv DEF Asked
<1>6. CASE \E q \in Asked("schedule", ScheduleRequests) : Schedule(c, q)
  BY <1>6, ScheduleInv DEF Asked
<1>7. CASE \E q \in Asked("place", PlaceRequests) : Place(c, q)
  BY <1>7, PlaceInv DEF Asked
<1>8. CASE \E q \in Asked("move", MoveRequests) : Move(c, q)
  BY <1>8, MoveInv DEF Asked
<1>9. CASE \E q \in Asked("add_exception", AddExceptionRequests) : AddException(c, q)
  BY <1>9, AddExceptionInv DEF Asked
<1>10. CASE \E q \in Asked("update_exception", UpdateExceptionRequests) : UpdateException(c, q)
  BY <1>10, UpdateExceptionInv DEF Asked
<1>11. CASE \E q \in Asked("duplicate", DuplicateRequests) : Duplicate(c, q)
  BY <1>11, DuplicateInv DEF Asked
<1>12. ASSUME NEW kind, NEW requests, NEW q \in Asked(kind, requests)
       PROVE  q \in requests
  BY DEF Asked
<1>13. QED
  BY <1>1, <1>2, <1>3, <1>4, <1>5, <1>6, <1>7, <1>8, <1>9, <1>10, <1>11, <1>12
     DEF Perform, FieldStep

LEMMA NextInv ==
    ASSUME IInv, [Next]_vars
    PROVE  IInv'
<1>1. ASSUME NEW c \in Command, Fresh(c), Perform(c), UNCHANGED <<tags, kinds>>
      PROVE  IInv'
  BY <1>1, PerformInv
<1>2. ASSUME NEW c \in Command, Malformed(c) \/ Retry(c), UNCHANGED <<planVars, tags, kinds>>
      PROVE  IInv'
  BY <1>2, OthersInv
<1>3. CASE Archive
  BY <1>3, ArchiveInv
<1>4. CASE RetireTag \/ UNCHANGED vars
  BY <1>4, OthersInv
<1>5. QED
  BY <1>1, <1>2, <1>3, <1>4 DEF Next

LEMMA InvariantHolds == Spec => []IInv
<1>1. Init => IInv
  BY InitInv
<1>2. IInv /\ [Next]_vars => IInv'
  BY NextInv
<1>3. QED
  BY <1>1, <1>2, PTL DEF Spec

(* The tables hold rows of their kind, and the event and the clocks have their    *)
(* types, whatever the clients and the other services do.                    *)
THEOREM PlanTypes == Spec => []TypeOK
<1>1. IInv => TypeOK
  BY DEF IInv
<1>2. QED
  BY <1>1, InvariantHolds, PTL

(* Every row that a service changes is published as it is, but for the place of a *)
(* recipe: rows that are renumbered or retired with another's edit too.      *)
THEOREM FeedTellsThePlan == Spec => []FeedCarriesPlan
<1>1. IInv => FeedCarriesPlan
  BY DEF IInv
<1>2. QED
  BY <1>1, InvariantHolds, PTL

-----------------------------------------------------------------------------
(* Last writer wins. *)

LEMMA FieldLatest ==
    ASSUME IInv, NEW f, ~OfTag(f), NEW cs, cs = Writes(f), cs # {}
    PROVE  /\ Latest(cs) \in cs
           /\ Reading(event, row, f) = Asking(request[Latest(cs)], f)
<1>1. Remembers(clock, request, f, cs)
  BY DEF IInv, ClocksRemember
<1>2. cs \subseteq Command /\ \A c \in cs : request[c].time \in Nat
  BY IInvIs DEF Writes, Applied, IsRequest
<1>3. Latest(cs) = clock[f][2] /\ clock[f][2] \in cs
  BY <1>1, <1>2, LatestIs
<1>4. f \in DOMAIN clock
  BY <1>1 DEF Remembers
<1>5. QED
  BY <1>3, <1>4 DEF IInv, FieldsHold

(* The commands that write a field, by their kinds. *)
LEMMA AimsAre ==
    ASSUME NEW q, IsRequest(q)
    PROVE  /\ \A x \in {"start_date", "end_date"} :
                 AimsAt(q, <<Ev, x>>) <=> q.kind = "create" \/ (q.kind = "update" /\ q.start # 0)
           /\ AimsAt(q, <<Ev, "name">>) <=> q.kind = "update"
           /\ \A s : AimsAt(q, <<S(s), "placement">>) <=>
                 q.kind \in {"schedule", "place", "move"} /\ q.recipe = s
           /\ \A x : AimsAt(q, <<E(x), "tags">>) <=>
                 q.kind = "update_exception" /\ q.exception = x
           /\ \A x : AimsAt(q, <<E(x), "name">>) <=>
                 q.kind \in {"add_exception", "update_exception"} /\ q.exception = x
<1>1. /\ Ev[1] = "event" /\ \A s : S(s)[1] = "recipe" /\ S(s)[2] = s
      /\ \A x : E(x)[1] = "exception" /\ E(x)[2] = x
  BY KeyIs
<1>2. q.kind \in FieldKinds => /\ RowOf(q)[1] = TableOf(q.kind)
                               /\ FieldOf(q.kind) \in {"note", "visible", "name", "key", "retired"}
                               /\ FieldOf(q.kind) = "name" => TableOf(q.kind) = "role"
                               /\ TableOf(q.kind) # "event"
  BY DEF IsRequest, FieldKinds, FieldOf, TableOf
<1>3. \A x \in {"start_date", "end_date"} :
         AimsAt(q, <<Ev, x>>) <=> q.kind = "create" \/ (q.kind = "update" /\ q.start # 0)
  BY <1>1, <1>2 DEF AimsAt, UpdateFields
<1>4. AimsAt(q, <<Ev, "name">>) <=> q.kind = "update"
  BY <1>1, <1>2 DEF AimsAt, UpdateFields
<1>5. \A s : AimsAt(q, <<S(s), "placement">>) <=>
         q.kind \in {"schedule", "place", "move"} /\ q.recipe = s
  BY <1>1, <1>2 DEF AimsAt, UpdateFields
<1>6. \A x : AimsAt(q, <<E(x), "tags">>) <=> q.kind = "update_exception" /\ q.exception = x
  BY <1>1, <1>2 DEF AimsAt, UpdateFields
<1>7. \A x : AimsAt(q, <<E(x), "name">>) <=>
         q.kind \in {"add_exception", "update_exception"} /\ q.exception = x
  BY <1>1, <1>2 DEF AimsAt, UpdateFields
<1>8. QED
  BY <1>3, <1>4, <1>5, <1>6, <1>7

LEMMA LatestHold ==
    ASSUME IInv
    PROVE  LatestWriteHolds
<1>1. \A c \in Applied : IsRequest(request[c])
  BY IInvIs
<1>2. \A ks : AppliedOf(ks) = {c \in Applied : request[c].kind \in ks}
  BY DEF AppliedOf
<1>3. /\ Ev[1] = "event" /\ \A s : S(s)[1] = "recipe" /\ S(s)[2] = s
      /\ \A x : E(x)[1] = "exception" /\ E(x)[2] = x
  BY KeyIs
<1>4. LET writes == AppliedOf({"create"}) \cup
                       {c \in AppliedOf({"update"}) : request[c].start # 0}
          names == AppliedOf({"update"})
      IN  /\ writes # {} => /\ event.start = request[Latest(writes)].start
                            /\ event.end = request[Latest(writes)].end
          /\ names # {} => event.name = request[Latest(names)].name
  <2> DEFINE writes == AppliedOf({"create"}) \cup
                         {c \in AppliedOf({"update"}) : request[c].start # 0}
             names == AppliedOf({"update"})
  <2>1. writes = Writes(<<Ev, "start_date">>) /\ writes = Writes(<<Ev, "end_date">>)
    BY <1>1, <1>2, AimsAre DEF Writes
  <2>2. names = Writes(<<Ev, "name">>)
    BY <1>1, <1>2, AimsAre DEF Writes
  <2>3. ~OfTag(<<Ev, "start_date">>) /\ ~OfTag(<<Ev, "end_date">>) /\ ~OfTag(<<Ev, "name">>)
    BY <1>3 DEF OfTag
  <2> HIDE DEF writes, names
  <2>4. writes # {} => /\ event.start = request[Latest(writes)].start
                       /\ event.end = request[Latest(writes)].end
    <3>1. SUFFICES ASSUME writes # {}
                   PROVE  /\ event.start = request[Latest(writes)].start
                          /\ event.end = request[Latest(writes)].end
      OBVIOUS
    <3>2. /\ Reading(event, row, <<Ev, "start_date">>)
               = Asking(request[Latest(writes)], <<Ev, "start_date">>)
          /\ Reading(event, row, <<Ev, "end_date">>)
               = Asking(request[Latest(writes)], <<Ev, "end_date">>)
      BY <2>1, <2>3, <3>1, FieldLatest
    <3>3. QED
      BY <3>2 DEF Reading, Asking
  <2>5. names # {} => event.name = request[Latest(names)].name
    <3>1. SUFFICES ASSUME names # {} PROVE event.name = request[Latest(names)].name
      OBVIOUS
    <3>2. Reading(event, row, <<Ev, "name">>) = Asking(request[Latest(names)], <<Ev, "name">>)
      BY <2>2, <2>3, <3>1, FieldLatest
    <3>3. QED
      BY <3>2 DEF Reading, Asking
  <2>6. QED
    BY <2>4, <2>5 DEF writes, names
<1>5. ASSUME NEW c \in AppliedOf(FieldKinds)
      PROVE  LET k == RowOf(request[c])
                 f == FieldOf(request[c].kind)
             IN  row[k][f] = Written(request[Latest(WroteField(k, f))])
  <2> DEFINE k == RowOf(request[c])
             f == FieldOf(request[c].kind)
             cs == WroteField(k, f)
  <2>1. IsRequest(request[c]) /\ request[c].kind \in FieldKinds /\ c \in Applied
    BY <1>1, <1>2
  <2>2. /\ k[1] = TableOf(request[c].kind)
        /\ f \in {"note", "visible", "name", "key", "retired"}
        /\ f = "name" => k[1] = "role"
        /\ k[1] \in {"day", "role", "recipe", "exception"}
    BY <2>1 DEF IsRequest, FieldKinds, FieldOf, TableOf
  <2>3. k # Ev /\ ~OfTag(<<k, f>>)
    BY <1>3, <2>2 DEF OfTag
  <2> HIDE DEF k, f
  <2>4. \A d \in Applied : AimsAt(request[d], <<k, f>>) <=>
           /\ request[d].kind \in FieldKinds
           /\ RowOf(request[d]) = k /\ FieldOf(request[d].kind) = f
    BY <1>3, <2>2, <2>3 DEF AimsAt, UpdateFields
  <2>5. cs = Writes(<<k, f>>)
    BY <1>2, <2>4 DEF WroteField, Writes
  <2>6. c \in cs
    BY <1>2, <2>1 DEF WroteField, k, f
  <2> DEFINE w == Latest(cs)
  <2>7. w \in cs /\ Reading(event, row, <<k, f>>) = Asking(request[w], <<k, f>>)
    <3> HIDE DEF cs
    <3>1. cs # {}
      BY <2>6
    <3>2. QED
      BY <2>3, <2>5, <3>1, FieldLatest
  <2>8. request[w].kind \in FieldKinds /\ <<k, f>> = <<RowOf(request[w]), FieldOf(request[w].kind)>>
    BY <1>2, <2>7 DEF WroteField
  <2> HIDE DEF w
  <2>9. Reading(event, row, <<k, f>>) = row[k][f]
    BY <2>2, <2>3 DEF Reading
  <2>10. Asking(request[w], <<k, f>>) = Written(request[w])
    BY <2>2, <2>3, <2>8 DEF Asking
  <2>11. QED
    BY <2>7, <2>9, <2>10 DEF w, k, f
<1>6. ASSUME NEW k \in Rows("recipe")
      PROVE  LET writes == {c \in AppliedOf({"schedule", "place", "move"}) :
                              request[c].recipe = k[2]}
             IN  writes # {} => /\ row[k].day = request[Latest(writes)].day
                                /\ row[k].role = request[Latest(writes)].role
  <2> DEFINE writes == {c \in AppliedOf({"schedule", "place", "move"}) :
                          request[c].recipe = k[2]}
             f == <<k, "placement">>
  <2>1. k = S(k[2])
    BY IInvIs, RowIs DEF Rows, S
  <2>2. writes = Writes(f)
    <3>1. \A c \in Applied : AimsAt(request[c], <<S(k[2]), "placement">>) <=>
             request[c].kind \in {"schedule", "place", "move"} /\ request[c].recipe = k[2]
      BY <1>1, AimsAre
    <3>2. QED
      BY <1>2, <2>1, <3>1 DEF Writes
  <2>3. ~OfTag(f) /\ k # Ev
    BY <1>3, <2>1 DEF OfTag
  <2> HIDE DEF writes
  <2>4. writes # {} => Reading(event, row, f) = Asking(request[Latest(writes)], f)
    BY <2>2, <2>3, FieldLatest
  <2>5. Reading(event, row, f) = <<row[k].day, row[k].role>>
    BY <2>3 DEF Reading
  <2>6. \A q : Asking(q, f) = <<q.day, q.role>>
    BY <2>3 DEF Asking
  <2>7. ASSUME writes # {}
        PROVE  /\ row[k].day = request[Latest(writes)].day
               /\ row[k].role = request[Latest(writes)].role
    <3>1. <<row[k].day, row[k].role>>
            = <<request[Latest(writes)].day, request[Latest(writes)].role>>
      BY <2>4, <2>5, <2>6, <2>7
    <3>2. QED
      BY <3>1
  <2>8. QED
    BY <2>7 DEF writes
<1>7. ASSUME NEW x \in Exception
      PROVE  LET edits == {c \in AppliedOf({"update_exception"}) : request[c].exception = x}
                 named == {c \in AppliedOf({"add_exception"}) : request[c].exception = x}
                            \cup edits
             IN  /\ edits # {} => TagsOf(x) = request[Latest(edits)].tags
                 /\ named # {} => row[E(x)].name = request[Latest(named)].name
  <2> DEFINE edits == {c \in AppliedOf({"update_exception"}) : request[c].exception = x}
             named == {c \in AppliedOf({"add_exception"}) : request[c].exception = x} \cup edits
  <2>1. edits = Writes(<<E(x), "tags">>) /\ named = Writes(<<E(x), "name">>)
    BY <1>1, <1>2, AimsAre DEF Writes
  <2>2. ~OfTag(<<E(x), "tags">>) /\ ~OfTag(<<E(x), "name">>) /\ E(x) # Ev
    BY <1>3 DEF OfTag
  <2> HIDE DEF edits, named
  <2>3. edits # {} => TagsOf(x) = request[Latest(edits)].tags
    <3>1. SUFFICES ASSUME edits # {} PROVE TagsOf(x) = request[Latest(edits)].tags
      OBVIOUS
    <3>2. Reading(event, row, <<E(x), "tags">>) = Asking(request[Latest(edits)], <<E(x), "tags">>)
      BY <2>1, <2>2, <3>1, FieldLatest
    <3>3. TagsOf(x) = TagsIn(row, x)
      BY DEF TagsOf, TagsIn, Live, Has
    <3>4. QED
      BY <1>3, <2>2, <3>2, <3>3 DEF Reading, Asking
  <2>4. named # {} => row[E(x)].name = request[Latest(named)].name
    <3>1. SUFFICES ASSUME named # {} PROVE row[E(x)].name = request[Latest(named)].name
      OBVIOUS
    <3> DEFINE w == Latest(named)
    <3>2. w \in named
          /\ Reading(event, row, <<E(x), "name">>) = Asking(request[w], <<E(x), "name">>)
      BY <2>1, <2>2, <3>1, FieldLatest
    <3>3. request[w].kind \in {"add_exception", "update_exception"}
      BY <1>2, <3>2 DEF named, edits
    <3> HIDE DEF w
    <3>4. ~(request[w].kind \in FieldKinds
              /\ <<E(x), "name">> = <<RowOf(request[w]), FieldOf(request[w].kind)>>)
      BY <3>3 DEF FieldKinds, FieldOf
    <3>5. Asking(request[w], <<E(x), "name">>) = request[w].name
      BY <2>2, <3>4 DEF Asking
    <3>6. Reading(event, row, <<E(x), "name">>) = row[E(x)].name
      BY <2>2 DEF Reading
    <3>7. QED
      BY <3>2, <3>5, <3>6 DEF w
  <2>5. QED
    BY <2>3, <2>4 DEF edits, named
<1>8. QED
  BY <1>4, <1>5, <1>6, <1>7 DEF LatestWriteHolds

(* Each field of the plan is that of its latest write, in whatever order the      *)
(* writes arrive.                                                            *)
THEOREM LastWriterWins == Spec => []LatestWriteHolds
<1>1. IInv => LatestWriteHolds
  BY LatestHold
<1>2. QED
  BY <1>1, InvariantHolds, PTL

-----------------------------------------------------------------------------
(* What a command does when it is applied. *)

Settled(c) == retained[c] = "none" /\ retained'[c] \notin {"none", "rejected"}

(* The step decides c, if any command, and c asked for q. *)
Settles(c, q) ==
    /\ \A d \in Command : d # c => retained'[d] = retained[d]
    /\ Settled(c) => request'[c] = q

LEMMA LogSettles ==
    ASSUME IInv, NEW c \in Command, Fresh(c), NEW q
    PROVE  /\ Reject(c) => Settles(c, q)
           /\ Abort(c) => Settles(c, q)
           /\ \A outcome, won, records : Conclude(c, q, outcome, won, records) => Settles(c, q)
<1>1. /\ retained \in [Command -> Outcome \cup {"none"}] /\ DOMAIN request = Command
      /\ retained[c] = "none"
  BY IInvIs DEF Fresh
<1>2. Reject(c) => Settles(c, q)
  BY <1>1 DEF Reject, Settles, Settled
<1>3. Abort(c) => Settles(c, q)
  BY <1>1 DEF Abort, Settles, Settled
<1>4. ASSUME NEW outcome, NEW won, NEW records, Conclude(c, q, outcome, won, records)
      PROVE  Settles(c, q)
  <2>1. /\ retained' = [retained EXCEPT ![c] = outcome]
        /\ request' = [request EXCEPT ![c] = q]
    BY <1>4 DEF Conclude
  <2>2. QED
    BY <1>1, <2>1 DEF Settles
<1>5. QED
  BY <1>2, <1>3, <1>4

LEMMA DecideSettles ==
    ASSUME IInv, NEW c \in Command, Fresh(c), NEW q, NEW refused, NEW f,
           Decide(c, q, refused, f)
    PROVE  Settles(c, q)
<1>1. Reject(c) \/ SetField(c, q, f)
  BY DEF Decide
<1>2. QED
  BY <1>1, LogSettles DEF SetField

(* Which request a command made whose step this is. *)
LEMMA PerformedIs ==
    ASSUME IInv, NEW c \in Command, Fresh(c), Perform(c)
    PROVE  \E q : /\ Settles(c, q)
                  /\ q.kind = "create" => q \in CreateRequests /\ CreateEvent(c, q)
                  /\ q.kind = "update" => q \in UpdateRequests /\ UpdateEvent(c, q)
                  /\ q.kind = "move" => q \in MoveRequests /\ Move(c, q)
<1> DEFINE Found(q) == /\ Settles(c, q)
                       /\ q.kind = "create" => q \in CreateRequests /\ CreateEvent(c, q)
                       /\ q.kind = "update" => q \in UpdateRequests /\ UpdateEvent(c, q)
                       /\ q.kind = "move" => q \in MoveRequests /\ Move(c, q)
           Other(q) == q.kind \notin {"create", "update", "move"}
<1>1. ASSUME NEW kind, NEW requests, NEW q \in Asked(kind, requests)
      PROVE  q \in requests
  BY DEF Asked
<1>2. ASSUME NEW q \in CreateRequests, CreateEvent(c, q) PROVE Found(q)
  <2>1. q.kind = "create"
    BY DEF CreateRequests
  <2>2. Settles(c, q)
    BY <1>2, LogSettles DEF CreateEvent
  <2>3. QED
    BY <1>2, <2>1, <2>2
<1>3. ASSUME NEW q \in UpdateRequests, UpdateEvent(c, q) PROVE Found(q)
  <2>1. q.kind = "update"
    BY DEF UpdateRequests
  <2>2. Settles(c, q)
    BY <1>3, LogSettles DEF UpdateEvent
  <2>3. QED
    BY <1>3, <2>1, <2>2
<1>4. ASSUME NEW q \in MoveRequests, Move(c, q) PROVE Found(q)
  <2>1. q.kind = "move"
    BY DEF MoveRequests
  <2>2. Settles(c, q)
    BY <1>4, LogSettles DEF Move
  <2>3. QED
    BY <1>4, <2>1, <2>2
<1>5. ASSUME NEW q, Settles(c, q), Other(q) PROVE Found(q)
  BY <1>5
<1>6. ASSUME NEW q \in CreateDayRequests, CreateDay(c, q) PROVE Found(q)
  <2>1. Settles(c, q)
    BY <1>6, LogSettles DEF CreateDay, Insert
  <2>2. Other(q)
    BY DEF CreateDayRequests
  <2> HIDE DEF Found
  <2>3. QED
    BY <1>5, <2>1, <2>2
<1>7. ASSUME NEW q, FieldStep(c, q) PROVE Found(q)
  <2>2. ASSUME NEW refused, NEW f, Decide(c, q, refused, f) PROVE Settles(c, q)
    BY <2>2, DecideSettles
  <2>3. Settles(c, q)
    <3>1. (\E refused, f : Decide(c, q, refused, f)) \/ Abort(c)
      BY <1>7 DEF FieldStep, SetDayNote, SetDayVisibility, SetDayLifecycle, SetRoleName,
         SetRolePosition, SetRoleLifecycle, SetRecipeNote, SetRecipeLifecycle,
         SetExceptionLifecycle
    <3>2. QED
      BY <2>2, <3>1, LogSettles
  <2>4. Other(q)
    BY <1>7 DEF FieldStep, DayNoteRequests, DayVisibilityRequests, DayLifecycleRequests,
       RoleNameRequests, RolePositionRequests, RoleLifecycleRequests, RecipeNoteRequests,
       RecipeLifecycleRequests, ExceptionLifecycleRequests
  <2> HIDE DEF Found
  <2>5. QED
    BY <1>5, <2>3, <2>4
<1>8. ASSUME NEW q \in CreateRoleRequests, CreateRole(c, q) PROVE Found(q)
  <2>1. Settles(c, q)
    BY <1>8, LogSettles DEF CreateRole, Insert
  <2>2. Other(q)
    BY DEF CreateRoleRequests
  <2> HIDE DEF Found
  <2>3. QED
    BY <1>5, <2>1, <2>2
<1>9. ASSUME NEW q \in ScheduleRequests, Schedule(c, q) PROVE Found(q)
  <2>1. Settles(c, q)
    BY <1>9, LogSettles DEF Schedule, Insert
  <2>2. Other(q)
    BY DEF ScheduleRequests
  <2> HIDE DEF Found
  <2>3. QED
    BY <1>5, <2>1, <2>2
<1>10. ASSUME NEW q \in PlaceRequests, Place(c, q) PROVE Found(q)
  <2>1. Settles(c, q)
    BY <1>10, LogSettles DEF Place
  <2>2. Other(q)
    BY DEF PlaceRequests
  <2> HIDE DEF Found
  <2>3. QED
    BY <1>5, <2>1, <2>2
<1>11. ASSUME NEW q \in AddExceptionRequests, AddException(c, q) PROVE Found(q)
  <2>1. Settles(c, q)
    BY <1>11, LogSettles DEF AddException
  <2>2. Other(q)
    BY DEF AddExceptionRequests
  <2> HIDE DEF Found
  <2>3. QED
    BY <1>5, <2>1, <2>2
<1>12. ASSUME NEW q \in UpdateExceptionRequests, UpdateException(c, q) PROVE Found(q)
  <2>1. Settles(c, q)
    BY <1>12, LogSettles DEF UpdateException
  <2>2. Other(q)
    BY DEF UpdateExceptionRequests
  <2> HIDE DEF Found
  <2>3. QED
    BY <1>5, <2>1, <2>2
<1>13. ASSUME NEW q \in DuplicateRequests, Duplicate(c, q) PROVE Found(q)
  <2>1. Settles(c, q)
    BY <1>13, LogSettles DEF Duplicate
  <2>2. Other(q)
    BY DEF DuplicateRequests
  <2> HIDE DEF Found
  <2>3. QED
    BY <1>5, <2>1, <2>2
<1>14. QED
  <2> HIDE DEF Found
  <2>1. \E q : Found(q)
    BY <1>1, <1>2, <1>3, <1>4, <1>6, <1>7, <1>8, <1>9, <1>10, <1>11, <1>12, <1>13
       DEF Perform, FieldStep
  <2>2. QED
    BY <2>1 DEF Found

(* When a creation, an update or a move of the event is applied, its step is that *)
(* of its service.                                                           *)
LEMMA SettledIs ==
    ASSUME IInv, [Next]_vars, NEW c \in Command, Settled(c), NEW q, q = request'[c]
    PROVE  /\ Fresh(c)
           /\ q.kind = "create" => q \in CreateRequests /\ CreateEvent(c, q)
           /\ q.kind = "update" => q \in UpdateRequests /\ UpdateEvent(c, q)
           /\ q.kind = "move" => q \in MoveRequests /\ Move(c, q)
<1>1. retained \in [Command -> Outcome \cup {"none"}] /\ Fresh(c)
      /\ retained'[c] # retained[c] /\ retained'[c] # "rejected"
  BY IInvIs DEF Settled, Fresh
<1>2. ~(UNCHANGED retained)
  BY <1>1
<1>3. ~Archive /\ ~RetireTag /\ ~(UNCHANGED vars)
  BY <1>2 DEF Archive, RetireTag, vars, logVars
<1>4. ASSUME NEW d \in Command, Malformed(d) \/ Retry(d) PROVE FALSE
  <2>1. CASE Retry(d)
    BY <1>2, <2>1 DEF Retry, logVars
  <2>2. CASE Malformed(d)
    BY <1>1, <2>2 DEF Malformed, Reject
  <2>3. QED
    BY <1>4, <2>1, <2>2
<1>5. PICK d \in Command : Fresh(d) /\ Perform(d)
  BY <1>3, <1>4 DEF Next
<1>6. PICK r : /\ Settles(d, r)
               /\ r.kind = "create" => r \in CreateRequests /\ CreateEvent(d, r)
               /\ r.kind = "update" => r \in UpdateRequests /\ UpdateEvent(d, r)
               /\ r.kind = "move" => r \in MoveRequests /\ Move(d, r)
  BY <1>5, PerformedIs
<1>7. d = c /\ r = q
  BY <1>1, <1>6 DEF Settles
<1>8. QED
  BY <1>1, <1>6, <1>7

-----------------------------------------------------------------------------
(* The days of the event's range. *)

(* The active days of a date, as the property counts them. *)
ActiveOn(rows, date) ==
    {k \in DOMAIN rows : k[1] = "day" /\ rows[k].date = date /\ ~rows[k].retired}

(* A plan has at most one active day for a date, so one that has any has one. *)
LEMMA OneDay ==
    ASSUME NEW e, NEW rows, IsPlan(e, rows), NEW date, NEW k \in ActiveOn(rows, date)
    PROVE  Cardinality(ActiveOn(rows, date)) = 1
<1>1. \A l \in ActiveOn(rows, date) : l = k
  BY PlanIs DEF ActiveOn, DaysIn
<1>2. ActiveOn(rows, date) = {k}
  BY <1>1
<1>3. QED
  BY <1>2, FS_Singleton

LEMMA CreateCovers ==
    ASSUME IInv, NEW c \in Command, Settled(c), NEW q \in CreateRequests, CreateEvent(c, q),
           NEW date \in event'.start .. event'.end
    PROVE  ActiveOn(row', date) # {}
<1> DEFINE new == [start |-> q.start, end |-> q.end, name |-> q.name, lifecycle |-> "active"]
           roles == [k \in {R(ro) : ro \in DOMAIN Presets} |-> Presets[k[2]]]
           dates == q.start .. q.end
<1>1. retained \in [Command -> Outcome \cup {"none"}]
  BY IInvIs
<1>2. ~Reject(c)
  BY <1>1 DEF Reject, Settled
<1>3. /\ event' = new /\ row' = Overlaid(roles, DaysFor(dates)) /\ ~CreateEventRefused(q)
  BY <1>2 DEF CreateEvent
<1>4. DOMAIN row = {}
  BY <1>3, IInvIs, PlanIs DEF CreateEventRefused
<1>5. dates \in SUBSET Date /\ date \in dates
  BY <1>3, DateAssumption DEF CreateRequests, Date
<1>6. \A x \in dates : \A k \in DaysOf(x) : row[k].retired
  BY <1>4 DEF DaysOf, DaysOn, DaysIn
<1> DEFINE k == D(<<date, Cardinality(DaysOf(date))>>)
<1> HIDE DEF dates, roles, new
<1>7. k \in DOMAIN DaysFor(dates) /\ DaysFor(dates)[k] = NewDay(k[2][1]) /\ k[1] = "day"
  BY <1>5, <1>6, DaysForAre
<1>8. k \in DOMAIN row' /\ row'[k] = NewDay(k[2][1])
  BY <1>3, <1>7 DEF Overlaid
<1>9. k[2][1] = date
  BY KeyIs
<1>10. k \in ActiveOn(row', date)
  <2> HIDE DEF k
  <2>1. QED
    BY <1>7, <1>8, <1>9 DEF ActiveOn, NewDay
<1>11. QED
  BY <1>10

LEMMA UpdateCovers ==
    ASSUME IInv, NEW c \in Command, Settled(c), NEW q \in UpdateRequests, UpdateEvent(c, q),
           NEW date \in event'.start .. event'.end
    PROVE  ActiveOn(row', date) # {}
<1> DEFINE won == UpdateWon(c, q)
           dates == WithoutDay(event'.start, event'.end)
<1>1. retained \in [Command -> Outcome \cup {"none"}]
  BY IInvIs
<1>2. ~Reject(c) /\ ~Abort(c)
  BY <1>1 DEF Reject, Abort, Settled
<1>3. /\ ~UpdateRefused(c, q) /\ (won = {} \/ won = UpdateFields(q))
      /\ event' = Updated(c, q, won) /\ row' = Overlaid(row, DaysFor(dates))
  <2>1. \E outcome : ClocksHold(outcome, won) /\ outcome = IF won = UpdateFields(q)
                        THEN "accepted" ELSE "partially_superseded"
    BY <1>2 DEF UpdateEvent, UpdateWon
  <2>2. won = {} \/ won = UpdateFields(q)
    BY <2>1 DEF ClocksHold
  <2>3. /\ ~UpdateRefused(c, q) /\ event' = Updated(c, q, won)
        /\ row' = Overlaid(row, DaysFor(dates))
    BY <1>2 DEF UpdateEvent, UpdateWon, Updated
  <2>4. QED
    BY <2>2, <2>3
<1> HIDE DEF won
<1>4. event'.start \in Date /\ event'.end \in Date
  BY <1>3, UpdateIs DEF won
<1>5. event'.start .. event'.end \subseteq Date
  BY <1>4, DateAssumption DEF Date
<1>6. dates \in SUBSET Date /\ \A x \in dates : \A k \in DaysOf(x) : row[k].retired
  BY <1>5 DEF WithoutDay
<1> DEFINE k == D(<<date, Cardinality(DaysOf(date))>>)
<1>7. CASE date \in dates
  <2> HIDE DEF dates
  <2>1. k \in DOMAIN DaysFor(dates) /\ DaysFor(dates)[k] = NewDay(k[2][1]) /\ k[1] = "day"
    BY <1>6, <1>7, DaysForAre
  <2>2. k \in DOMAIN row' /\ row'[k] = NewDay(k[2][1])
    BY <1>3, <2>1 DEF Overlaid
  <2>3. k[2][1] = date
    BY KeyIs
  <2>4. k \in ActiveOn(row', date)
    <3> HIDE DEF k
    <3>1. QED
      BY <2>1, <2>2, <2>3 DEF ActiveOn, NewDay
  <2>5. QED
    BY <2>4
<1>8. CASE date \notin dates
  <2>1. PICK l \in DaysOf(date) : ~row[l].retired
    BY <1>8 DEF WithoutDay
  <2>2. l \in DOMAIN row /\ l[1] = "day" /\ row[l].date = date
    BY DEF DaysOf, DaysOn, DaysIn
  <2> HIDE DEF dates
  <2>3. l \notin DOMAIN DaysFor(dates)
    BY <1>6, <2>2, DaysForAre
  <2>4. l \in DOMAIN row' /\ row'[l] = row[l]
    BY <1>3, <2>2, <2>3, OverlaidIs
  <2>5. l \in ActiveOn(row', date)
    BY <2>1, <2>2, <2>4 DEF ActiveOn
  <2>6. QED
    BY <2>5
<1>9. QED
  BY <1>7, <1>8

(* A created or updated event has one active day for each date of its range,     *)
(* whichever days were added, retired or restored before.                    *)
THEOREM RangeIsCovered == Spec => ChangeCoversTheRange
<1>1. ASSUME IInv, [Next]_vars, NEW c \in Command, Settled(c),
             request'[c].kind \in {"create", "update"},
             NEW date \in event'.start .. event'.end
      PROVE  Cardinality(ActiveOn(row', date)) = 1
  <2>1. ActiveOn(row', date) # {}
    <3> DEFINE q == request'[c]
    <3>1. /\ q.kind = "create" => q \in CreateRequests /\ CreateEvent(c, q)
          /\ q.kind = "update" => q \in UpdateRequests /\ UpdateEvent(c, q)
      BY <1>1, SettledIs
    <3>2. CASE q.kind = "create"
      BY <1>1, <3>1, <3>2, CreateCovers
    <3>3. CASE q.kind = "update"
      BY <1>1, <3>1, <3>3, UpdateCovers
    <3>4. QED
      BY <1>1, <3>2, <3>3
  <2>2. IsPlan(event', row')
    <3>1. IInv'
      BY <1>1, NextInv
    <3>2. QED
      BY <3>1 DEF IInv
  <2>3. QED
    BY <2>1, <2>2, OneDay
<1>2. IInv /\ [Next]_vars =>
        [\A c \in Command :
           /\ retained[c] = "none" /\ retained'[c] # "rejected" /\ retained'[c] # "none"
           /\ request'[c].kind \in {"create", "update"}
           => \A date \in event'.start .. event'.end :
                 Cardinality({k \in DOMAIN row' : /\ k[1] = "day" /\ row'[k].date = date
                                                  /\ ~row'[k].retired}) = 1]_vars
  BY <1>1 DEF Settled, ActiveOn
<1>3. QED
  BY <1>2, InvariantHolds, PTL DEF Spec, ChangeCoversTheRange

-----------------------------------------------------------------------------
(* A relative move lands where it was asked for. *)

LEMMA NumbersAscend ==
    ASSUME NEW a \in Int, NEW b \in Int, a < b
    PROVE  Less(<<a>>, <<b>>)
<1>1. Len(<<b>>) = 1 /\ Low(<<a>>, 1) = a /\ <<b>>[1] = b
  BY DEF Low
<1>2. Low(<<a>>, 1) < <<b>>[1] /\ \A i \in 1 .. 1 - 1 : Low(<<a>>, i) = <<b>>[i]
  BY <1>1
<1> DEFINE k == <<a>>
           l == <<b>>
<1>3. Len(l) = 1 /\ Low(k, 1) < l[1] /\ \A i \in 1 .. 1 - 1 : Low(k, i) = l[i]
  BY <1>1, <1>2
<1> HIDE DEF k, l
<1>4. Less(k, l)
  BY <1>3 DEF Less
<1>5. QED
  BY <1>4 DEF k, l

(* The recipe with a key between its neighbours keeps the order ascending. *)
LEMMA FitsBetween ==
    ASSUME NEW q, NEW n, NEW o, NEW i, NEW order, Arranged(q, n, o, i, order),
           NEW rows, \A x \in Others(q) : rows[x].key = row[x].key,
           rows[S(q.recipe)].key \in Key,
           i > 0 => Less(row[o[i]].key, rows[S(q.recipe)].key),
           i < n => Less(rows[S(q.recipe)].key, row[o[i + 1]].key),
           NEW j \in 1 .. n + 1, NEW h \in 1 .. n + 1, j < h
    PROVE  Precedes(rows, order[j], order[h])
<1> DEFINE k == S(q.recipe)
           m == rows[k].key
<1>1. /\ n \in Nat /\ i \in 0 .. n /\ o \in [1 .. n -> Others(q)]
      /\ \A g \in 1 .. n : row[o[g]].key \in Key /\ o[g] \in Others(q)
      /\ \A a, b \in 1 .. n : a < b => Precedes(row, o[a], o[b])
  BY DEF Arranged, Orderable
<1>2. \A g \in 1 .. n + 1 :
         order[g] = IF g <= i THEN o[g] ELSE IF g = i + 1 THEN k ELSE o[g - 1]
  BY DEF Arranged
<1>3. \A g \in 1 .. n : rows[o[g]].key = row[o[g]].key
  BY <1>1
<1> HIDE DEF k, m
<1>4. \A a, b \in 1 .. n : a < b => Precedes(rows, o[a], o[b])
  BY <1>1, <1>3 DEF Precedes
<1>5. \A a, b, d \in Key : Less(a, b) /\ Less(b, d) => Less(a, d)
  BY LessIsStrict DEF Bounds
<1>6. m \in Key
  BY DEF m, k
<1>7. CASE j <= i /\ h = i + 1
  <2>1. i \in 1 .. n /\ j \in 1 .. n /\ Less(row[o[i]].key, m)
    BY <1>1, <1>7 DEF m, k
  <2>2. j = i \/ Less(row[o[j]].key, row[o[i]].key) \/ row[o[j]].key = row[o[i]].key
    BY <1>1, <1>7, <2>1 DEF Precedes
  <2>3. Less(row[o[j]].key, m)
    BY <1>1, <1>5, <1>6, <2>1, <2>2
  <2>4. order[j] = o[j] /\ order[h] = k
    BY <1>1, <1>2, <1>7
  <2>5. QED
    BY <1>3, <2>1, <2>3, <2>4 DEF Precedes, m
<1>8. CASE j = i + 1
  <2> DEFINE g == h - 1
  <2>1. g \in 1 .. n /\ i + 1 \in 1 .. n /\ i + 1 <= g /\ order[h] = o[g] /\ order[j] = k
    BY <1>1, <1>2, <1>8
  <2> HIDE DEF g
  <2>2. Less(m, row[o[i + 1]].key)
    BY <1>1, <2>1 DEF m, k
  <2>3. g = i + 1 \/ Less(row[o[i + 1]].key, row[o[g]].key) \/ row[o[i + 1]].key = row[o[g]].key
    BY <1>1, <2>1 DEF Precedes
  <2>4. Less(m, row[o[g]].key)
    BY <1>1, <1>5, <1>6, <2>1, <2>2, <2>3
  <2>5. QED
    BY <1>3, <2>1, <2>4 DEF Precedes, m
<1>9. CASE j # i + 1 /\ h # i + 1
  <2>1. \E a, b \in 1 .. n : a < b /\ order[j] = o[a] /\ order[h] = o[b]
    <3> DEFINE a == IF j <= i THEN j ELSE j - 1
               b == IF h <= i THEN h ELSE h - 1
    <3>1. a \in 1 .. n /\ b \in 1 .. n /\ a < b /\ order[j] = o[a] /\ order[h] = o[b]
      BY <1>1, <1>2, <1>9
    <3>2. QED
      BY <3>1
  <2>2. QED
    BY <1>4, <2>1
<1>10. QED
  BY <1>1, <1>7, <1>8, <1>9

LEMMA MovedAscends ==
    ASSUME IInv, NEW q \in MoveRequests, S(q.recipe) \in DOMAIN row, ~TargetElsewhere(q),
           NEW n, NEW o, o = Listed(q), NEW i, i = Into(q), NEW order, order = Order(q),
           Arranged(q, n, o, i, order), NEW keys, keys = NewKeys(q), NEW rows,
           \A x \in Others(q) \cup {S(q.recipe)} :
              rows[x].key = IF x \in DOMAIN keys THEN keys[x] ELSE row[x].key,
           NEW j \in 1 .. n + 1, NEW h \in 1 .. n + 1, j < h
    PROVE  Precedes(rows, order[j], order[h])
<1> DEFINE k == S(q.recipe)
<1>1. /\ k \in DOMAIN keys
      /\ \A x \in DOMAIN keys : x \in Others(q) \cup {k} /\ keys[x] \in Key
      /\ \/ /\ DOMAIN keys = {k}
            /\ i > 0 => Less(row[o[i]].key, keys[k])
            /\ i < n => Less(keys[k], row[o[i + 1]].key)
         \/ \A g \in 1 .. n + 1 : order[g] \in DOMAIN keys /\ keys[order[g]] = <<g - 1>>
  BY NewKeysAre
<1>2. k \notin Others(q) /\ rows[k].key = keys[k] /\ rows[k].key \in Key /\ n \in Nat
  BY <1>1 DEF Others, Arranged
<1>3. CASE /\ DOMAIN keys = {k}
           /\ i > 0 => Less(row[o[i]].key, keys[k])
           /\ i < n => Less(keys[k], row[o[i + 1]].key)
  <2>1. \A x \in Others(q) : rows[x].key = row[x].key
    BY <1>2, <1>3
  <2>2. /\ i > 0 => Less(row[o[i]].key, rows[k].key)
        /\ i < n => Less(rows[k].key, row[o[i + 1]].key)
    BY <1>2, <1>3
  <2>3. QED
    BY <1>2, <2>1, <2>2, FitsBetween
<1>4. CASE \A g \in 1 .. n + 1 : order[g] \in DOMAIN keys /\ keys[order[g]] = <<g - 1>>
  <2>1. rows[order[j]].key = <<j - 1>> /\ rows[order[h]].key = <<h - 1>>
    BY <1>1, <1>4
  <2>2. Less(<<j - 1>>, <<h - 1>>)
    <3>1. j - 1 \in Int /\ h - 1 \in Int /\ j - 1 < h - 1
      BY <1>2
    <3>2. QED
      BY <3>1, NumbersAscend
  <2>3. QED
    BY <2>1, <2>2 DEF Precedes
<1>5. QED
  BY <1>1, <1>3, <1>4

(* An accepted move writes the new keys and no others. *)
LEMMA MoveApplied ==
    ASSUME IInv, NEW c \in Command, Settled(c), retained'[c] = "accepted",
           NEW q \in MoveRequests, Move(c, q)
    PROVE  /\ S(q.recipe) \in DOMAIN row /\ ~row[S(q.recipe)].retired
           /\ q.day \in DayIds /\ q.role \in RoleIds
           /\ ~TargetElsewhere(q) /\ row' = Moved(q, NewKeys(q))
<1> DEFINE f == <<S(q.recipe), "placement">>
<1>1. retained \in [Command -> Outcome \cup {"none"}]
  BY IInvIs
<1>2. ~Reject(c)
  BY <1>1 DEF Reject, Settled
<1>3. ~Conclude(c, q, "partially_superseded", {}, << >>)
  BY <1>1 DEF Conclude
<1>4. ~MoveRefused(q) /\ ~TargetElsewhere(q) /\ row' = Moved(q, NewKeys(q))
  BY <1>2, <1>3 DEF Move
<1>5. q.day \in DayIds /\ q.role \in RoleIds
  BY DEF MoveRequests
<1>6. QED
  BY <1>4, <1>5 DEF MoveRefused, Live, Has

LEMMA MoveLands ==
    ASSUME IInv, NEW c \in Command, Settled(c), retained'[c] = "accepted",
           NEW q \in MoveRequests, Move(c, q)
    PROVE  Ordered(row', Scope(row', q.day, q.role)) = Order(q)
<1> DEFINE k == S(q.recipe)
           ks == Others(q)
           n == Cardinality(ks)
           keys == NewKeys(q)
           order == Order(q)
<1>1. /\ k \in DOMAIN row /\ ~row[k].retired /\ q.day \in DayIds /\ q.role \in RoleIds
      /\ ~TargetElsewhere(q) /\ row' = Moved(q, keys)
  BY MoveApplied
<1>2. Arranged(q, n, Listed(q), Into(q), order)
  BY <1>1, OrderIs
<1>3. /\ k \in DOMAIN keys
      /\ \A x \in DOMAIN keys : x \in ks \cup {k} /\ keys[x] \in Key
  BY <1>1, <1>2, NewKeysAre
<1>4. k[1] = "recipe" /\ \A x \in ks : x \in DOMAIN row /\ x[1] = "recipe"
  BY KeyIs DEF Others, Scope
<1> HIDE DEF keys
<1>5. \A x \in DOMAIN keys : x \in DOMAIN row /\ x[1] = "recipe" /\ keys[x] \in Key
  BY <1>1, <1>3, <1>4
<1>6. /\ DOMAIN row' = DOMAIN row
      /\ row'[k].day = q.day /\ row'[k].role = q.role
      /\ \A x \in DOMAIN row : x # k /\ x[1] = "recipe" =>
            row'[x].day = row[x].day /\ row'[x].role = row[x].role
      /\ \A x \in DOMAIN row : x[1] = "recipe" =>
            /\ row'[x].retired = row[x].retired
            /\ row'[x].key = IF x \in DOMAIN keys THEN keys[x] ELSE row[x].key
  BY <1>1, <1>3, <1>5, MovedIs
<1>7. Scope(row', q.day, q.role) = ks \cup {k}
  <2> HIDE DEF k
  <2>1. \A x : x # k => (x \in Scope(row', q.day, q.role) <=> x \in Scope(row, q.day, q.role))
    BY <1>6 DEF Scope
  <2>2. k \in Scope(row', q.day, q.role)
    BY <1>1, <1>4, <1>6 DEF Scope
  <2>3. ks = Scope(row, q.day, q.role) \ {k}
    BY DEF Others, k
  <2> HIDE DEF ks
  <2>4. QED
    BY <2>1, <2>2, <2>3
<1>8. /\ n \in Nat /\ order \in [1 .. n + 1 -> ks \cup {k}] /\ IsFiniteSet(ks)
      /\ \A x \in ks \cup {k} : \E j \in 1 .. n + 1 : order[j] = x
      /\ \A x \in ks : x = S(x[2]) /\ x[2] \in Nat /\ row[x].key \in Key
  BY <1>2 DEF Arranged, Orderable
<1>9. \A x \in ks \cup {k} : row'[x].key = IF x \in DOMAIN keys THEN keys[x] ELSE row[x].key
  BY <1>1, <1>4, <1>6
<1>10. \A j, h \in 1 .. n + 1 : j < h => Precedes(row', order[j], order[h])
  <2>1. ASSUME NEW j \in 1 .. n + 1, NEW h \in 1 .. n + 1, j < h
        PROVE  Precedes(row', order[j], order[h])
    BY <1>1, <1>2, <1>9, <2>1, MovedAscends DEF keys
  <2>2. QED
    BY <2>1
<1>11. Orderable(row', ks \cup {k})
  <2>1. IsFiniteSet(ks \cup {k})
    BY <1>8, FS_AddElement
  <2>2. k = S(k[2]) /\ k[2] \in Nat
    <3>1. k \in DOMAIN row /\ k[1] = "recipe" /\ IsRow(k, row[k])
      BY <1>1, <1>4, IInvIs
    <3> HIDE DEF k
    <3>2. QED
      BY <3>1, RowIs, IdentityAssumption DEF S
  <2>3. \A x \in ks \cup {k} : row'[x].key \in Key
    BY <1>3, <1>8, <1>9
  <2>4. QED
    BY <1>8, <2>1, <2>2, <2>3 DEF Orderable
<1> HIDE DEF k, ks, n, order
<1>12. order = Ordered(row', ks \cup {k})
  <2>1. n + 1 \in Nat
    BY <1>8
  <2>2. QED
    BY <1>8, <1>10, <1>11, <2>1, OrderedOnly
<1>13. QED
  BY <1>7, <1>12 DEF order

(* An accepted relative move leaves the scope in the order that was asked for,     *)
(* through equal keys and renumberings.                                      *)
THEOREM MovesLand == Spec => MoveLandsInPlace
<1>1. ASSUME IInv, [Next]_vars, NEW c \in Command, retained[c] = "none",
             retained'[c] = "accepted", request'[c].kind = "move"
      PROVE  Ordered(row', Scope(row', request'[c].day, request'[c].role)) = Order(request'[c])
  <2>1. Settled(c)
    BY <1>1 DEF Settled
  <2>2. request'[c] \in MoveRequests /\ Move(c, request'[c])
    BY <1>1, <2>1, SettledIs
  <2>3. QED
    BY <1>1, <2>1, <2>2, MoveLands
<1>2. IInv /\ [Next]_vars =>
        [\A c \in Command :
           /\ retained[c] = "none" /\ retained'[c] = "accepted" /\ request'[c].kind = "move"
           => LET q == request'[c]
                  before == Ordered(row, Scope(row, q.day, q.role) \ {S(q.recipe)})
              IN  Ordered(row', Scope(row', q.day, q.role))
                    = InsertAt(before, Index(q, before) + 1, S(q.recipe))]_vars
  BY <1>1 DEF Order, Into, Listed, Others
<1>3. QED
  BY <1>2, InvariantHolds, PTL DEF Spec, MoveLandsInPlace
=============================================================================
