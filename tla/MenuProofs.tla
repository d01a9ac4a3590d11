----------------------------- MODULE MenuProofs -----------------------------
(***************************************************************************)
(* Theorems of Menu, for any recipe versions, diners, clients, estimates and  *)
(* scenarios.                                                               *)
(*                                                                         *)
(* The inductive invariant says which choice the clock of each contended      *)
(* field remembers, that the rows have what was chosen, that no line has two   *)
(* overrides and that the feed carries every row.                            *)
(***************************************************************************)
EXTENDS Menu, TLAPS

-----------------------------------------------------------------------------
(* The inductive invariant. *)

(* In the clocks ck and the requests rq, field f has the stamp of the latest of *)
(* the commands cs, and no stamp without one.                               *)
Remembers(ck, rq, f, cs) ==
    /\ f \in DOMAIN ck <=> cs # {}
    /\ f \in DOMAIN ck =>
          /\ ck[f][2] \in cs
          /\ ck[f] = StampOf(ck[f][2], rq[ck[f][2]])
          /\ \A d \in cs : d # ck[f][2] => Later(ck[f], StampOf(d, rq[d]))

(* What members contend for: the scale of a scheduled recipe, what replaces a    *)
(* line of it, and each addition to it.                                     *)
How == {"replace", "add"}
What == Line \cup Identity
ContextField(s) == <<S(s), "context">>
ChoiceField(s, how, x) == <<S(s), how, x>>

(* A request aims at one such field or at none. *)
Aim(q) == IF q.how = "replace" THEN q.line ELSE q.override
AimsAt(q, f) ==
    \/ q.kind = "context" /\ f = ContextField(q.schedule)
    \/ q.kind = "override" /\ f = ChoiceField(q.schedule, q.how, Aim(q))
Writes(f) == {c \in Applied : AimsAt(request[c], f)}

(* What the applied commands asked for, of a scheduled recipe that is there. *)
Asks(q, scheduled) ==
    /\ q.time \in Nat
    /\ q.kind \in {"context", "override", "update"} => q.schedule \in scheduled
    /\ q.kind = "override" => q.how \in How /\ Aim(q) \in What

Shaped ==
    /\ DOMAIN request = Command
    /\ scene.commands \subseteq Command
    /\ \A c \in Applied : Asks(request[c], Scheduled)

ClocksRemember ==
    \A s \in Schedule :
       /\ Remembers(clock, request, ContextField(s), Writes(ContextField(s)))
       /\ \A how \in How, x \in What :
             Remembers(clock, request, ChoiceField(s, how, x), Writes(ChoiceField(s, how, x)))

(* Of the rows rw, those in which a choice is made. *)
Slots(rw, s, how, x) ==
    {k \in DOMAIN rw : /\ k[1] = "override" /\ rw[k].of = s /\ rw[k].how = how
                       /\ IF how = "replace" THEN rw[k].line = x ELSE k = O(x)}

(* The rows rw have what q chose. *)
ScaledAs(rw, s, q) ==
    /\ S(s) \in DOMAIN rw
    /\ rw[S(s)].consumption = q.consumption /\ rw[S(s)].mode = q.op
    /\ rw[S(s)].scale = IF q.op = "manual" THEN q.amount
                        ELSE Suggested(Versions[rw[S(s)].version], q.consumption)
ChosenAs(rw, s, how, x, q) ==
    /\ Slots(rw, s, how, x) # {}
    /\ \A k \in Slots(rw, s, how, x) :
          IF q.op = "clear" THEN rw[k].retired
          ELSE ~rw[k].retired /\ rw[k].quantity = q.quantity

(* The request whose stamp a field has. *)
LastOf(f) == request[clock[f][2]]

(* Until the recipe is brought to another version. *)
ChoicesHold ==
    \A s \in Schedule : AppliedOf("update", s) = {} =>
       /\ ContextField(s) \in DOMAIN clock => ScaledAs(row, s, LastOf(ContextField(s)))
       /\ \A how \in How, x \in What :
             ChoiceField(s, how, x) \in DOMAIN clock =>
                ChosenAs(row, s, how, x, LastOf(ChoiceField(s, how, x)))

IInv ==
    /\ TypeOK /\ Shaped /\ ReplacedOnce(row)
    /\ ClocksRemember /\ ChoicesHold /\ FeedCarriesMenu

-----------------------------------------------------------------------------
(* Overlays, stamps and keys. *)

LEMMA OverlaidIs ==
    ASSUME NEW f, NEW g
    PROVE  /\ DOMAIN Overlaid(f, g) = DOMAIN f \cup DOMAIN g
           /\ \A x \in DOMAIN g : Overlaid(f, g)[x] = g[x]
           /\ \A x \in DOMAIN f : x \notin DOMAIN g => Overlaid(f, g)[x] = f[x]
  BY DEF Overlaid

LEMMA OnlyIs ==
    ASSUME NEW x, NEW r
    PROVE  DOMAIN Only(x, r) = {x} /\ Only(x, r)[x] = r
  BY DEF Only

LEMMA OnlyIsMenu ==
    ASSUME NEW k, NEW r, IsRow(k, r)
    PROVE  IsMenu(Only(k, r))
  BY DEF Only, IsMenu

(* Later is a strict total order on stamps. *)
LEMMA LaterIsStrict ==
    ASSUME NEW s \in Stamp, NEW t \in Stamp
    PROVE  /\ ~Later(s, s)
           /\ ~(Later(s, t) /\ Later(t, s))
           /\ s # t => Later(s, t) \/ Later(t, s)
           /\ \A u \in Stamp : Later(s, t) /\ Later(t, u) => Later(s, u)
  BY DEF Stamp, Later

LEMMA StampTypes ==
    ASSUME NEW c \in Command, NEW q, q.time \in Nat
    PROVE  StampOf(c, q) \in Stamp /\ StampOf(c, q)[2] = c
  BY CommandAssumption DEF StampOf, Stamp

LEMMA KeysAre ==
    /\ \A s : S(s)[1] = "schedule" /\ S(s)[2] = s
    /\ \A o : O(o)[1] = "override" /\ O(o)[2] = o
    /\ \A i : P(i)[1] = "price" /\ P(i)[2] = i
  BY DEF S, O, P

(* Fields of different choices differ. *)
LEMMA FieldsDiffer ==
    /\ \A s, t : ContextField(s) = ContextField(t) => s = t
    /\ \A s, t, how, x : ContextField(s) # ChoiceField(t, how, x)
    /\ \A s, t, how, by, x, y :
          ChoiceField(s, how, x) = ChoiceField(t, by, y) => s = t /\ how = by /\ x = y
<1>1. \A s, t : ContextField(s) = ContextField(t) => s = t
  BY DEF ContextField, S
<1>2. ASSUME NEW s, NEW t, NEW how, NEW x, ContextField(s) = ChoiceField(t, how, x)
      PROVE  FALSE
  <2>1. DOMAIN ContextField(s) = 1 .. 2 /\ DOMAIN ChoiceField(t, how, x) = 1 .. 3
    BY DEF ContextField, ChoiceField
  <2>2. 3 \in DOMAIN ChoiceField(t, how, x) /\ 3 \notin DOMAIN ContextField(s)
    BY <2>1
  <2>3. QED
    BY <1>2, <2>2
<1>3. ASSUME NEW s, NEW t, NEW how, NEW by, NEW x, NEW y,
             ChoiceField(s, how, x) = ChoiceField(t, by, y)
      PROVE  s = t /\ how = by /\ x = y
  BY <1>3 DEF ChoiceField, S
<1>4. QED
  BY <1>1, <1>2, <1>3

LEMMA RowTypes ==
    ASSUME NEW rw, IsMenu(rw), NEW k \in DOMAIN rw
    PROVE  /\ k[1] \in {"schedule", "override", "price"}
           /\ k[1] = "schedule" => k[2] \in Schedule /\ k = S(k[2]) /\ rw[k] \in ScheduleRow
           /\ k[1] = "override" => k[2] \in Identity /\ k = O(k[2]) /\ IsOverride(rw[k])
           /\ k[1] = "price" => k[2] \in Ingredient /\ k = P(k[2]) /\ rw[k] \in Stream
  BY DEF IsMenu, IsRow, S, O, P

-----------------------------------------------------------------------------
(* What a step does to the log. *)

(* What the latest command of some is, when a clock remembers it. *)
LEMMA LatestIs ==
    ASSUME NEW f, NEW cs \in SUBSET Command, \A c \in cs : request[c].time \in Nat,
           Remembers(clock, request, f, cs), cs # {}
    PROVE  Latest(cs) = clock[f][2] /\ clock[f][2] \in cs
<1> DEFINE w == clock[f][2]
           Best(c) == \A d \in cs \ {c} : Later(StampOf(c, request[c]), StampOf(d, request[d]))
<1>1. w \in cs /\ Best(w)
  BY DEF Remembers
<1>2. ASSUME NEW c \in cs, Best(c)
      PROVE  c = w
  <2>1. StampOf(c, request[c]) \in Stamp /\ StampOf(w, request[w]) \in Stamp
    BY <1>1, StampTypes
  <2>2. QED
    BY <1>1, <1>2, <2>1, LaterIsStrict
<1>3. Latest(cs) = CHOOSE c \in cs : Best(c)
  BY DEF Latest
<1> HIDE DEF Best
<1>4. QED
  BY <1>1, <1>2, <1>3

(* An applied command c adds its request and the clocks of the fields it won. *)
Logs(c, q, won) ==
    /\ c \in Command \ Applied
    /\ Applied' = Applied \cup {c}
    /\ request'[c] = q
    /\ \A d \in Applied : request'[d] = request[d]
    /\ DOMAIN clock' = DOMAIN clock \cup won
    /\ \A f \in won : clock'[f] = StampOf(c, q)
    /\ \A f \in DOMAIN clock : f \notin won => clock'[f] = clock[f]

LEMMA ConcludeLogs ==
    ASSUME IInv, NEW c \in Command, Fresh(c), NEW q, NEW won, NEW records,
           NEW outcome \in {"accepted", "partially_superseded"},
           Conclude(c, q, outcome, won, records)
    PROVE  /\ Logs(c, q, won)
           /\ shown' = Overlaid(shown, records) /\ aborted' = aborted
           /\ retained' \in [Command -> Outcome \cup {"none"}]
           /\ DOMAIN request' = Command
<1>1. /\ retained' = [retained EXCEPT ![c] = outcome]
      /\ request' = [request EXCEPT ![c] = q]
      /\ clock' = Overlaid(clock, [f \in won |-> StampOf(c, q)])
      /\ shown' = Overlaid(shown, records) /\ aborted' = aborted
  BY DEF Conclude
<1>2. retained \in [Command -> Outcome \cup {"none"}] /\ DOMAIN request = Command
  BY DEF IInv, TypeOK, Shaped
<1>3. c \notin Applied /\ Applied' = Applied \cup {c}
  BY <1>1, <1>2 DEF Fresh, Applied
<1>4. /\ request'[c] = q /\ DOMAIN request' = Command
      /\ \A d \in Applied : request'[d] = request[d]
  BY <1>1, <1>2, <1>3
<1>5. retained' \in [Command -> Outcome \cup {"none"}]
  BY <1>1, <1>2 DEF Outcome
<1>6. /\ DOMAIN clock' = DOMAIN clock \cup won
      /\ \A f \in won : clock'[f] = StampOf(c, q)
      /\ \A f \in DOMAIN clock : f \notin won => clock'[f] = clock[f]
  <2> DEFINE stamps == [f \in won |-> StampOf(c, q)]
  <2>1. /\ DOMAIN stamps = won /\ \A f \in won : stamps[f] = StampOf(c, q)
        /\ clock' = Overlaid(clock, stamps)
    BY <1>1
  <2> HIDE DEF stamps
  <2>2. /\ DOMAIN Overlaid(clock, stamps) = DOMAIN clock \cup DOMAIN stamps
        /\ \A f \in DOMAIN stamps : Overlaid(clock, stamps)[f] = stamps[f]
        /\ \A f \in DOMAIN clock : f \notin DOMAIN stamps =>
              Overlaid(clock, stamps)[f] = clock[f]
    BY OverlaidIs
  <2>3. QED
    BY <2>1, <2>2
<1>7. QED
  BY <1>1, <1>3, <1>4, <1>5, <1>6 DEF Logs

LEMMA KeepsRemembering ==
    ASSUME NEW c, NEW q, NEW won, Logs(c, q, won), NEW f, f \notin won,
           NEW cs \in SUBSET Applied, Remembers(clock, request, f, cs)
    PROVE  Remembers(clock', request', f, cs)
  BY DEF Logs, Remembers

LEMMA RemembersWrite ==
    ASSUME Shaped, NEW c, NEW q, NEW won, Logs(c, q, won), q.time \in Nat,
           NEW f, f \in won <=> Wins(f, StampOf(c, q)),
           NEW cs \in SUBSET Applied, Remembers(clock, request, f, cs)
    PROVE  Remembers(clock', request', f, cs \cup {c})
<1> DEFINE s == StampOf(c, q)
<1>1. s \in Stamp /\ s[2] = c /\ c \notin cs
  BY StampTypes DEF Logs
<1>2. \A d \in cs : StampOf(d, request[d]) \in Stamp /\ request'[d] = request[d]
  BY StampTypes DEF Shaped, Asks, Logs, Applied
<1>3. StampOf(c, request'[c]) = s
  BY DEF Logs
<1>4. f \in DOMAIN clock => clock[f] \in Stamp
  BY <1>2 DEF Remembers
<1>5. CASE Wins(f, s)
  <2>1. f \in DOMAIN clock' /\ clock'[f] = s
    BY <1>5 DEF Logs
  <2>2. \A d \in cs : Later(s, StampOf(d, request[d]))
    BY <1>1, <1>2, <1>4, <1>5, LaterIsStrict DEF Wins, Remembers
  <2>3. QED
    BY <1>1, <1>2, <1>3, <2>1, <2>2 DEF Remembers
<1>6. CASE ~Wins(f, s)
  <2>1. f \in DOMAIN clock /\ f \in DOMAIN clock' /\ clock'[f] = clock[f]
    BY <1>6 DEF Wins, Logs
  <2>2. Later(clock[f], s)
    <3>1. clock[f] # s
      BY <1>1, <2>1 DEF Remembers
    <3>2. QED
      BY <1>1, <1>4, <1>6, <2>1, <3>1, LaterIsStrict DEF Wins
  <2>3. QED
    BY <1>1, <1>2, <1>3, <2>1, <2>2 DEF Remembers
<1>7. QED
  BY <1>5, <1>6

-----------------------------------------------------------------------------
(* What a step does to the clocks: a request moves that of the field it aims at, *)
(* where it wins.                                                           *)

MovesClock(c, q, won, f) == f \in won <=> AimsAt(q, f) /\ Wins(f, StampOf(c, q))
Wrote(c, q, won) ==
    \A s \in Schedule :
       /\ MovesClock(c, q, won, ContextField(s))
       /\ \A how \in How, x \in What : MovesClock(c, q, won, ChoiceField(s, how, x))

LEMMA WritersAre ==
    ASSUME NEW c, NEW q, NEW won, Logs(c, q, won), NEW f
    PROVE  /\ Writes(f) \subseteq Applied
           /\ AimsAt(q, f) => Writes(f)' = Writes(f) \cup {c}
           /\ ~AimsAt(q, f) => Writes(f)' = Writes(f)
<1>1. /\ Applied' = Applied \cup {c} /\ c \notin Applied /\ request'[c] = q
      /\ \A d \in Applied : request'[d] = request[d]
  BY DEF Logs
<1>2. Writes(f)' = {d \in Applied' : AimsAt(request'[d], f)}
  BY DEF Writes, AimsAt
<1>3. QED
  BY <1>1, <1>2 DEF Writes

LEMMA ClocksStep ==
    ASSUME Shaped, ClocksRemember, NEW c, NEW q, q.time \in Nat,
           NEW won, Logs(c, q, won), Wrote(c, q, won)
    PROVE  ClocksRemember'
<1>1. ASSUME NEW f, Remembers(clock, request, f, Writes(f)), MovesClock(c, q, won, f)
      PROVE  Remembers(clock', request', f, Writes(f)')
  <2>1. CASE AimsAt(q, f)
    <3>1. Remembers(clock', request', f, Writes(f) \cup {c})
      BY <1>1, <2>1, WritersAre, RemembersWrite DEF MovesClock
    <3>2. QED
      BY <2>1, <3>1, WritersAre
  <2>2. CASE ~AimsAt(q, f)
    <3>1. Remembers(clock', request', f, Writes(f))
      BY <1>1, <2>2, WritersAre, KeepsRemembering DEF MovesClock
    <3>2. QED
      BY <2>2, <3>1, WritersAre
  <2>3. QED
    BY <2>1, <2>2
<1>2. \A s \in Schedule :
         /\ Remembers(clock', request', ContextField(s), Writes(ContextField(s))')
         /\ \A how \in How, x \in What :
               Remembers(clock', request', ChoiceField(s, how, x),
                         Writes(ChoiceField(s, how, x))')
  BY <1>1 DEF ClocksRemember, Wrote
<1>3. QED
  BY <1>2 DEF ClocksRemember

-----------------------------------------------------------------------------
(* What a step does to the choices: it makes those whose field it won, and keeps *)
(* the others.                                                              *)

KeepsScale(s) ==
    S(s) \in DOMAIN row =>
       /\ S(s) \in DOMAIN row'
       /\ \A x \in {"version", "consumption", "mode", "scale"} : row'[S(s)][x] = row[S(s)][x]
KeepsSlots(s, how, x) ==
    /\ Slots(row', s, how, x) = Slots(row, s, how, x)
    /\ \A k \in Slots(row, s, how, x) :
          row'[k].retired = row[k].retired /\ row'[k].quantity = row[k].quantity

(* Of what members contend for in s. *)
Honours(q, won, s) ==
    /\ IF ContextField(s) \in won THEN ScaledAs(row', s, q) ELSE KeepsScale(s)
    /\ \A how \in How, x \in What :
          IF ChoiceField(s, how, x) \in won THEN ChosenAs(row', s, how, x, q)
          ELSE KeepsSlots(s, how, x)

LEMMA ChoicesStep ==
    ASSUME ClocksRemember, ChoicesHold, NEW c, NEW q, NEW won, Logs(c, q, won),
           \A s \in Schedule : (q.kind = "update" => q.schedule # s) => Honours(q, won, s)
    PROVE  ChoicesHold'
<1>1. ASSUME NEW f, f \in DOMAIN clock', Remembers(clock, request, f, Writes(f))
      PROVE  IF f \in won THEN LastOf(f)' = q
             ELSE f \in DOMAIN clock /\ LastOf(f)' = LastOf(f)
  <2>1. CASE f \in won
    <3>1. clock'[f][2] = c /\ request'[c] = q
      BY <2>1 DEF Logs, StampOf
    <3>2. QED
      BY <2>1, <3>1 DEF LastOf
  <2>2. CASE f \notin won
    <3>1. f \in DOMAIN clock /\ clock'[f] = clock[f]
      BY <1>1, <2>2 DEF Logs
    <3>2. clock[f][2] \in Applied
      BY <1>1, <3>1 DEF Remembers, Writes
    <3>3. QED
      BY <2>2, <3>1, <3>2 DEF LastOf, Logs
  <2>3. QED
    BY <2>1, <2>2
<1>2. ASSUME NEW s, AppliedOf("update", s)' = {}
      PROVE  AppliedOf("update", s) = {} /\ (q.kind = "update" => q.schedule # s)
  BY <1>2 DEF AppliedOf, Logs
<1>3. ASSUME NEW s \in Schedule, AppliedOf("update", s)' = {},
             ContextField(s) \in DOMAIN clock'
      PROVE  ScaledAs(row', s, LastOf(ContextField(s))')
  <2> DEFINE f == ContextField(s)
  <2>1. Remembers(clock, request, f, Writes(f))
    BY DEF ClocksRemember
  <2>2. Honours(q, won, s) /\ AppliedOf("update", s) = {}
    BY <1>2, <1>3
  <2>3. CASE f \in won
    BY <1>1, <1>3, <2>1, <2>2, <2>3 DEF Honours
  <2>4. CASE f \notin won
    <3>1. f \in DOMAIN clock /\ LastOf(f)' = LastOf(f)
      BY <1>1, <1>3, <2>1, <2>4
    <3>2. ScaledAs(row, s, LastOf(f)) /\ KeepsScale(s)
      BY <2>2, <2>4, <3>1 DEF ChoicesHold, Honours
    <3> DEFINE r == LastOf(f)
    <3> HIDE DEF f, r
    <3>3. ScaledAs(row', s, r)
      BY <3>2 DEF ScaledAs, KeepsScale, r
    <3>4. QED
      BY <3>1, <3>3 DEF r, f
  <2>5. QED
    BY <2>3, <2>4
<1>4. ASSUME NEW s \in Schedule, AppliedOf("update", s)' = {}, NEW how \in How, NEW x \in What,
             ChoiceField(s, how, x) \in DOMAIN clock'
      PROVE  ChosenAs(row', s, how, x, LastOf(ChoiceField(s, how, x))')
  <2> DEFINE f == ChoiceField(s, how, x)
  <2>1. Remembers(clock, request, f, Writes(f))
    BY DEF ClocksRemember
  <2>2. Honours(q, won, s) /\ AppliedOf("update", s) = {}
    BY <1>2, <1>4
  <2>3. CASE f \in won
    BY <1>1, <1>4, <2>1, <2>2, <2>3 DEF Honours
  <2>4. CASE f \notin won
    <3>1. f \in DOMAIN clock /\ LastOf(f)' = LastOf(f)
      BY <1>1, <1>4, <2>1, <2>4
    <3>2. ChosenAs(row, s, how, x, LastOf(f)) /\ KeepsSlots(s, how, x)
      BY <2>2, <2>4, <3>1 DEF ChoicesHold, Honours
    <3> DEFINE r == LastOf(f)
    <3> HIDE DEF f, r
    <3>3. ChosenAs(row', s, how, x, r)
      BY <3>2 DEF ChosenAs, KeepsSlots, r
    <3>4. QED
      BY <3>1, <3>3 DEF r, f
  <2>5. QED
    BY <2>3, <2>4
<1>5. QED
  BY <1>2, <1>3, <1>4 DEF ChoicesHold
-----------------------------------------------------------------------------
(* Steps that write nothing, and steps that commit. *)

LEMMA QuietStep ==
    ASSUME IInv, retained' \in [Command -> Outcome \cup {"none"}], Applied' = Applied,
           aborted' \subseteq Command, UNCHANGED <<request, clock, shown, row, scene>>,
           event' \in [active : BOOLEAN, places : SUBSET Place], catalog' \in Catalog
    PROVE  IInv'
<1>1. TypeOK' /\ ReplacedOnce(row')
  BY DEF IInv, TypeOK
<1>2. Shaped' /\ ClocksRemember'
  <2>1. /\ Scheduled' = Scheduled
        /\ \A f : Writes(f)' = Writes(f)
    BY DEF Scheduled, Rows, Writes
  <2>2. QED
    BY <2>1 DEF IInv, Shaped, ClocksRemember
<1>3. \A s : AppliedOf("update", s)' = AppliedOf("update", s)
  BY DEF AppliedOf
<1>4. ChoicesHold'
  BY <1>3 DEF IInv, ChoicesHold, LastOf
<1>5. FeedCarriesMenu'
  BY DEF IInv, FeedCarriesMenu, Shown
<1>6. QED
  BY <1>1, <1>2, <1>4, <1>5 DEF IInv

LEMMA RefusedStep ==
    ASSUME IInv, NEW c \in Command, Fresh(c), Reject(c) \/ Abort(c),
           UNCHANGED <<row, event, catalog, scene>>
    PROVE  IInv'
<1>1. /\ retained \in [Command -> Outcome \cup {"none"}] /\ aborted \subseteq Command
      /\ event \in [active : BOOLEAN, places : SUBSET Place] /\ catalog \in Catalog
  BY DEF IInv, TypeOK
<1>2. /\ Applied' = Applied /\ retained' \in [Command -> Outcome \cup {"none"}]
      /\ UNCHANGED <<request, clock, shown>> /\ aborted' \subseteq Command
  BY <1>1 DEF Fresh, Reject, Abort, Applied, Outcome
<1>3. QED
  BY <1>1, <1>2, QuietStep

(* Whoever replays the feed is told of the rows that changed. *)
LEMMA FeedStep ==
    ASSUME FeedCarriesMenu, NEW rows, NEW told, row' = Overlaid(row, rows),
           shown' = Overlaid(shown, [k \in told |-> row'[k]]), DOMAIN rows \subseteq told
    PROVE  FeedCarriesMenu'
<1> DEFINE records == [k \in told |-> row'[k]]
<1>1. /\ DOMAIN records = told /\ \A k \in told : records[k] = row'[k]
      /\ shown' = Overlaid(shown, records)
  OBVIOUS
<1> HIDE DEF records
<1>2. /\ DOMAIN shown' = DOMAIN shown \cup told
      /\ \A k \in told : shown'[k] = row'[k]
      /\ \A k \in DOMAIN shown : k \notin told => shown'[k] = shown[k]
  BY <1>1 DEF Overlaid
<1>3. /\ DOMAIN row' = DOMAIN row \cup DOMAIN rows
      /\ \A k \in DOMAIN row : k \notin told => row'[k] = row[k]
  BY OverlaidIs
<1>4. ASSUME NEW k \in DOMAIN row'
      PROVE  k \in DOMAIN shown' /\ shown'[k] = row'[k]
  BY <1>2, <1>3 DEF FeedCarriesMenu, Shown
<1>5. QED
  BY <1>4 DEF FeedCarriesMenu, Shown

LEMMA OverlaidMenu ==
    ASSUME NEW rw, NEW rows, IsMenu(rw), IsMenu(rows)
    PROVE  IsMenu(Overlaid(rw, rows))
<1>1. ASSUME NEW k \in DOMAIN Overlaid(rw, rows)
      PROVE  IsRow(k, Overlaid(rw, rows)[k])
  <2>1. /\ k \in DOMAIN rows \/ (k \in DOMAIN rw /\ k \notin DOMAIN rows)
        /\ k \in DOMAIN rows => Overlaid(rw, rows)[k] = rows[k]
        /\ k \in DOMAIN rw /\ k \notin DOMAIN rows => Overlaid(rw, rows)[k] = rw[k]
    BY DEF Overlaid
  <2>2. QED
    BY <2>1 DEF IsMenu
<1>2. QED
  BY <1>1 DEF IsMenu

LEMMA CommitStep ==
    ASSUME IInv, NEW c \in Command, Fresh(c), NEW q, NEW rows, NEW told, NEW won,
           NEW outcome \in {"accepted", "partially_superseded"},
           Commit(c, q, outcome, rows, told, won), UNCHANGED <<event, catalog, scene>>,
           Asks(q, Scheduled'), IsMenu(rows), ReplacedOnce(row'), DOMAIN rows \subseteq told,
           Wrote(c, q, won),
           \A s \in Schedule : (q.kind = "update" => q.schedule # s) => Honours(q, won, s)
    PROVE  IInv'
<1>1. row' = Overlaid(row, rows) /\ Conclude(c, q, outcome, won, [k \in told |-> row'[k]])
  BY DEF Commit
<1>2. /\ Logs(c, q, won) /\ shown' = Overlaid(shown, [k \in told |-> row'[k]])
      /\ aborted' = aborted /\ retained' \in [Command -> Outcome \cup {"none"}]
      /\ DOMAIN request' = Command
  <2> DEFINE records == [k \in told |-> row'[k]]
  <2>1. Conclude(c, q, outcome, won, records)
    BY <1>1
  <2> HIDE DEF records
  <2>2. /\ Logs(c, q, won) /\ shown' = Overlaid(shown, records)
        /\ aborted' = aborted /\ retained' \in [Command -> Outcome \cup {"none"}]
        /\ DOMAIN request' = Command
    BY <2>1, ConcludeLogs
  <2>3. QED
    BY <2>2 DEF records
<1>3. TypeOK'
  <2>1. IsMenu(row')
    BY <1>1, OverlaidMenu DEF IInv, TypeOK
  <2>2. ASSUME NEW f \in DOMAIN clock'
        PROVE  clock'[f] \in Stamp
    <3>1. StampOf(c, q) \in Stamp
      BY StampTypes DEF Asks
    <3>2. \A g \in DOMAIN clock : clock[g] \in Stamp
      BY DEF IInv, TypeOK
    <3>3. QED
      BY <1>2, <3>1, <3>2 DEF Logs
  <2>3. /\ aborted \subseteq Command /\ catalog \in Catalog
        /\ event \in [active : BOOLEAN, places : SUBSET Place]
    BY DEF IInv, TypeOK
  <2>4. QED
    BY <1>2, <2>1, <2>2, <2>3 DEF TypeOK
<1>4. Shaped'
  <2>1. Scheduled \subseteq Scheduled'
    BY <1>1, OverlaidIs DEF Scheduled, Rows
  <2>2. ASSUME NEW d \in Applied'
        PROVE  Asks(request'[d], Scheduled')
    <3>1. CASE d = c
      BY <1>2, <3>1 DEF Logs
    <3>2. CASE d \in Applied
      BY <1>2, <2>1, <3>2 DEF Logs, IInv, Shaped, Asks
    <3>3. QED
      BY <1>2, <3>1, <3>2 DEF Logs
  <2>3. QED
    BY <1>2, <2>2 DEF IInv, Shaped
<1>5. ClocksRemember'
  BY <1>2, ClocksStep DEF IInv, Asks
<1>6. ChoicesHold'
  BY <1>2, ChoicesStep DEF IInv
<1>7. FeedCarriesMenu'
  BY <1>1, <1>2, FeedStep DEF IInv
<1>8. QED
  BY <1>3, <1>4, <1>5, <1>6, <1>7 DEF IInv

-----------------------------------------------------------------------------
(* Prices. *)

LEMMA CapturesAre ==
    ASSUME IInv, NEW is \in SUBSET Ingredient
    PROVE  /\ IsMenu(Captures(is)) /\ DOMAIN Captures(is) \cap DOMAIN row = {}
           /\ \A k \in DOMAIN Captures(is) : k[1] = "price"
<1>1. DOMAIN Captures(is) = {P(i) : i \in {j \in is : ~Has(P(j))}}
  BY DEF Captures
<1>2. ASSUME NEW k \in DOMAIN Captures(is)
      PROVE  k[1] = "price" /\ k \notin DOMAIN row /\ IsRow(k, Captures(is)[k])
  <2>1. PICK i \in is : k = P(i) /\ ~Has(P(i))
    BY <1>1
  <2>2. Captures(is)[k] = <<catalog.estimate[i]>>
    BY <1>1, <2>1, KeysAre DEF Captures
  <2>3. catalog.estimate[i] \in 0 .. Newest
    BY DEF IInv, TypeOK, Catalog
  <2>4. <<catalog.estimate[i]>> \in Stream
    BY <2>3 DEF Stream
  <2>5. QED
    BY <2>1, <2>2, <2>4, KeysAre DEF IsRow, P, Has
<1>3. QED
  BY <1>2 DEF IsMenu

LEMMA CapturesAgainAre ==
    ASSUME IInv, NEW is \in SUBSET Ingredient
    PROVE  /\ DOMAIN CaptureAgain(is) = {P(i) : i \in is}
           /\ \A i \in is : /\ CaptureAgain(is)[P(i)] \in Stream
                            /\ Last(CaptureAgain(is)[P(i)]) = catalog.estimate[i]
<1>1. DOMAIN CaptureAgain(is) = {P(i) : i \in is}
  BY DEF CaptureAgain
<1>2. ASSUME NEW i \in is
      PROVE  /\ CaptureAgain(is)[P(i)] \in Stream
             /\ Last(CaptureAgain(is)[P(i)]) = catalog.estimate[i]
  <2> DEFINE old == IF Has(P(i)) THEN row[P(i)] ELSE << >>
             e == catalog.estimate[i]
  <2>1. CaptureAgain(is)[P(i)] = Append(old, e)
    BY <1>1, KeysAre DEF CaptureAgain
  <2>2. e \in 0 .. Newest
    BY DEF IInv, TypeOK, Catalog
  <2>3. old \in Seq(0 .. Newest)
    <3>1. Has(P(i)) => row[P(i)] \in Stream
      BY KeysAre, RowTypes DEF IInv, TypeOK, Has
    <3>2. CASE Has(P(i))
      BY <3>1, <3>2 DEF Stream
    <3>3. CASE ~Has(P(i))
      BY <3>3
    <3>4. QED
      BY <3>2, <3>3
  <2> HIDE DEF old, e
  <2>4. Append(old, e) \in Seq(0 .. Newest) /\ Append(old, e) # << >> /\ Last(Append(old, e)) = e
    BY <2>2, <2>3 DEF Last
  <2>5. QED
    BY <2>1, <2>4 DEF Stream, e
<1>3. QED
  BY <1>1, <1>2
-----------------------------------------------------------------------------
(* What leaves choices alone. *)

(* The overrides of s stay as they are. *)
SameOverrides(s) ==
    \A k \in DOMAIN row \cup DOMAIN row' : k[1] = "override" =>
       \/ k \in DOMAIN row /\ k \in DOMAIN row' /\ row'[k] = row[k]
       \/ (k \in DOMAIN row => row[k].of # s) /\ (k \in DOMAIN row' => row'[k].of # s)

LEMMA SlotsKept ==
    ASSUME NEW s, SameOverrides(s)
    PROVE  \A how, x : KeepsSlots(s, how, x)
<1>1. ASSUME NEW how, NEW x
      PROVE  KeepsSlots(s, how, x)
  <2>1. ASSUME NEW k \in Slots(row, s, how, x)
        PROVE  k \in Slots(row', s, how, x) /\ row'[k] = row[k]
    BY DEF Slots, SameOverrides
  <2>2. ASSUME NEW k \in Slots(row', s, how, x)
        PROVE  k \in Slots(row, s, how, x)
    BY DEF Slots, SameOverrides
  <2>3. QED
    BY <2>1, <2>2 DEF KeepsSlots
<1>2. QED
  BY <1>1

(* A step that writes no override keeps them all. *)
LEMMA OverridesKept ==
    ASSUME NEW rows, row' = Overlaid(row, rows), ReplacedOnce(row),
           \A k \in DOMAIN rows : k[1] # "override"
    PROVE  ReplacedOnce(row') /\ \A s : SameOverrides(s)
<1>1. /\ DOMAIN row' = DOMAIN row \cup DOMAIN rows
      /\ \A k \in DOMAIN row : k \notin DOMAIN rows => row'[k] = row[k]
  BY DEF Overlaid
<1>2. \A k \in DOMAIN row' : k[1] = "override" => k \in DOMAIN row /\ row'[k] = row[k]
  BY <1>1
<1>3. \A k \in DOMAIN row : k[1] = "override" => k \in DOMAIN row' /\ row'[k] = row[k]
  BY <1>1
<1>4. QED
  BY <1>2, <1>3 DEF ReplacedOnce, SameOverrides

(* A step that neither aims at what members contend for nor moves its clocks. *)
Aside(q, won) ==
    /\ q.kind \notin {"context", "override"}
    /\ \A s \in Schedule : /\ ContextField(s) \notin won
                           /\ \A how \in How, x \in What : ChoiceField(s, how, x) \notin won

LEMMA AsideWrites ==
    ASSUME NEW c, NEW q, NEW won, Aside(q, won)
    PROVE  /\ Wrote(c, q, won)
           /\ \A s \in Schedule : KeepsScale(s) /\ SameOverrides(s) => Honours(q, won, s)
<1>1. Wrote(c, q, won)
  BY DEF Aside, Wrote, MovesClock, AimsAt
<1>2. QED
  BY <1>1, SlotsKept DEF Aside, Honours

(* A clock that is named otherwise is not contended for. *)
LEMMA PairsDiffer ==
    ASSUME NEW a, NEW b, b # "context"
    PROVE  \A s, how, x : <<a, b>> # ContextField(s) /\ <<a, b>> # ChoiceField(s, how, x)
<1>1. ASSUME NEW s, NEW how, NEW x, <<a, b>> = ChoiceField(s, how, x)
      PROVE  FALSE
  <2>1. DOMAIN <<a, b>> = 1 .. 2 /\ DOMAIN ChoiceField(s, how, x) = 1 .. 3
    BY DEF ChoiceField
  <2>2. 3 \in DOMAIN ChoiceField(s, how, x) /\ 3 \notin DOMAIN <<a, b>>
    BY <2>1
  <2>3. QED
    BY <1>1, <2>2
<1>2. QED
  BY <1>1 DEF ContextField

LEMMA ScheduledTypes ==
    ASSUME IInv, NEW s \in Scheduled
    PROVE  /\ s \in Schedule /\ S(s) \in DOMAIN row /\ row[S(s)] \in ScheduleRow
           /\ row[S(s)].version \in DOMAIN Versions
           /\ IsVersion(Pinned(s)) /\ Pinned(s) = Versions[row[S(s)].version]
<1>1. PICK k \in DOMAIN row : k[1] = "schedule" /\ k[2] = s
  BY DEF Scheduled, Rows
<1>2. s \in Schedule /\ k = S(s) /\ row[S(s)] \in ScheduleRow
  BY <1>1, RowTypes DEF IInv, TypeOK
<1>3. QED
  BY <1>1, <1>2, VersionsAssumption DEF Pinned, ScheduleRow

LEMMA SuggestedIsNat ==
    ASSUME NEW v, IsVersion(v), NEW p \in Nat
    PROVE  Suggested(v, p) \in Nat
<1> DEFINE capacity == IF v.unit = "person" THEN 1 ELSE v.capacity
           amount == (Diners * p) \div capacity
<1>1. Suggested(v, p) = IF capacity \in {None, 0} THEN v.base
                        ELSE IF v.round THEN ((amount + 99) \div 100) * 100 ELSE amount
  BY DEF Suggested
<1>2. CASE capacity \in {None, 0}
  BY <1>1, <1>2 DEF IsVersion
<1>3. CASE capacity \notin {None, 0}
  <2>1. capacity \in Nat /\ capacity > 0
    BY <1>3 DEF IsVersion
  <2>2. Diners * p \in Nat
    BY ScaleAssumption
  <2> HIDE DEF capacity
  <2>3. amount \in Nat
    BY <2>1, <2>2
  <2> HIDE DEF amount
  <2>4. (amount + 99) \div 100 \in Nat
    BY <2>3
  <2>5. ((amount + 99) \div 100) * 100 \in Nat
    BY <2>4
  <2>6. QED
    BY <1>1, <1>3, <2>3, <2>5
<1>4. QED
  BY <1>2, <1>3

-----------------------------------------------------------------------------
(* The scheduling of a recipe, its scale and the prices. *)

LEMMA ResolvedTypes ==
    ASSUME IInv
    PROVE  Resolved \subseteq Ingredient /\ {k[2] : k \in Rows("price")} \subseteq Ingredient
<1>1. ASSUME NEW s \in Scheduled, NEW l \in DOMAIN Pinned(s).lines
      PROVE  Pinned(s).lines[l].ingredient[1] \in Ingredient
  BY ScheduledTypes DEF IsVersion, IsLine, IngredientVersion
<1>2. ASSUME NEW s, NEW k \in ActiveOf(s)
      PROVE  row[k].ingredient[1] \in Ingredient
  <2>1. k \in DOMAIN row /\ k[1] = "override"
    BY DEF ActiveOf, OverridesOf, Rows
  <2>2. IsOverride(row[k])
    BY <2>1, RowTypes DEF IInv, TypeOK
  <2>3. QED
    BY <2>2 DEF IsOverride, OverrideRow, IngredientVersion
<1>3. {k[2] : k \in Rows("price")} \subseteq Ingredient
  BY RowTypes DEF IInv, TypeOK, Rows
<1>4. ASSUME NEW i \in Resolved
      PROVE  i \in Ingredient
  <2>1. PICK s \in Scheduled :
           \/ i \in {Pinned(s).lines[l].ingredient[1] : l \in DOMAIN Pinned(s).lines}
           \/ i \in {row[k].ingredient[1] : k \in ActiveOf(s)}
    BY DEF Resolved
  <2>2. QED
    BY <1>1, <1>2, <2>1
<1>5. QED
  BY <1>3, <1>4

LEMMA RefreshStep ==
    ASSUME IInv, NEW c \in Command, Fresh(c), NEW q \in RefreshRequests, RefreshPrices(c, q),
           UNCHANGED <<event, catalog, scene>>
    PROVE  IInv'
<1> DEFINE targets == {k[2] : k \in Rows("price")} \cup Resolved
           prices == CaptureAgain(targets)
<1>1. CASE Refuse(c)
  BY <1>1, RefusedStep DEF Refuse
<1>2. CASE Commit(c, q, "accepted", prices, DOMAIN prices, {})
  <2>1. targets \subseteq Ingredient
    BY ResolvedTypes
  <2>2. /\ DOMAIN prices = {P(i) : i \in targets}
        /\ \A i \in targets : prices[P(i)] \in Stream
    BY <2>1, CapturesAgainAre
  <2> HIDE DEF prices, targets
  <2>3. IsMenu(prices) /\ \A k \in DOMAIN prices : k[1] = "price"
    <3>1. ASSUME NEW k \in DOMAIN prices
          PROVE  IsRow(k, prices[k]) /\ k[1] = "price"
      <4>1. PICK i \in targets : k = P(i)
        BY <2>2
      <4>2. QED
        BY <2>1, <2>2, <4>1 DEF IsRow, P
    <3>2. QED
      BY <3>1 DEF IsMenu
  <2>4. row' = Overlaid(row, prices)
    BY <1>2 DEF Commit
  <2>5. ReplacedOnce(row') /\ \A s : SameOverrides(s)
    BY <2>3, <2>4, OverridesKept DEF IInv
  <2>6. \A s : KeepsScale(s)
    <3>1. \A k \in DOMAIN row : k \notin DOMAIN prices => k \in DOMAIN row' /\ row'[k] = row[k]
      BY <2>4, OverlaidIs
    <3>2. QED
      BY <2>3, <3>1, KeysAre DEF KeepsScale
  <2>7. q.kind = "refresh" /\ q.time \in Nat
    BY WallTimesAssumption DEF RefreshRequests
  <2>8. Aside(q, {}) /\ Asks(q, Scheduled')
    BY <2>7 DEF Aside, Asks
  <2>9. QED
    BY <1>2, <2>3, <2>5, <2>6, <2>8, AsideWrites, CommitStep
<1>3. QED
  BY <1>1, <1>2 DEF RefreshPrices

LEMMA ScheduleStep ==
    ASSUME IInv, NEW c \in Command, Fresh(c), NEW q \in ScheduleRequests, ScheduleRecipe(c, q),
           UNCHANGED <<event, catalog, scene>>
    PROVE  IInv'
<1> DEFINE version == Versions[q.version]
           scale == Suggested(version, q.consumption)
           new == [version |-> q.version, place |-> q.place, consumption |-> q.consumption,
                   scale |-> scale, mode |-> "suggested", retired |-> FALSE]
           is == NonzeroIngredients(version, scale)
           k == S(q.schedule)
           rows == Overlaid(Only(k, new), Captures(is))
           won == {<<k, "placement">>}
<1>1. CASE Refuse(c)
  BY <1>1, RefusedStep DEF Refuse
<1>2. CASE ~ScheduleRefused(q) /\ Commit(c, q, "accepted", rows, DOMAIN rows, won)
  <2>1. /\ q.kind = "schedule" /\ q.time \in Nat /\ q.schedule \in Schedule
        /\ q.version \in DOMAIN Versions /\ q.place \in Place /\ q.consumption \in Nat
    BY WallTimesAssumption, ScaleAssumption DEF ScheduleRequests, IInv, TypeOK, Catalog
  <2>2. IsVersion(version) /\ scale \in Nat
    BY <2>1, VersionsAssumption, SuggestedIsNat
  <2>3. is \subseteq Ingredient
    BY <2>2 DEF NonzeroIngredients, IsVersion, IsLine, IngredientVersion
  <2>4. /\ IsMenu(Captures(is)) /\ DOMAIN Captures(is) \cap DOMAIN row = {}
        /\ \A j \in DOMAIN Captures(is) : j[1] = "price"
    BY <2>3, CapturesAre
  <2>5. new \in ScheduleRow
    BY <2>1, <2>2 DEF ScheduleRow
  <2>6. IsMenu(Only(k, new))
    <3>1. IsRow(k, new)
      BY <2>1, <2>5 DEF IsRow, S
    <3>2. QED
      BY <3>1, OnlyIsMenu
  <2> HIDE DEF new, is
  <2>7. IsMenu(rows)
    BY <2>4, <2>6, OverlaidMenu
  <2>8. \A j \in DOMAIN rows : j \notin DOMAIN row /\ j[1] # "override"
    <3>1. DOMAIN rows = {k} \cup DOMAIN Captures(is)
      BY OnlyIs DEF Overlaid
    <3>2. k \notin DOMAIN row /\ k[1] = "schedule"
      BY <1>2, KeysAre DEF ScheduleRefused, Has
    <3>3. QED
      BY <2>4, <3>1, <3>2
  <2> HIDE DEF rows
  <2>9. row' = Overlaid(row, rows)
    BY <1>2 DEF Commit
  <2>10. ReplacedOnce(row') /\ \A s : SameOverrides(s)
    BY <2>8, <2>9, OverridesKept DEF IInv
  <2>11. \A s : KeepsScale(s)
    <3>1. \A j \in DOMAIN row : j \in DOMAIN row' /\ row'[j] = row[j]
      BY <2>8, <2>9 DEF Overlaid
    <3>2. QED
      BY <3>1 DEF KeepsScale
  <2>12. Aside(q, won) /\ Asks(q, Scheduled')
    BY <2>1, PairsDiffer DEF Aside, Asks
  <2>13. QED
    BY <1>2, <2>7, <2>10, <2>11, <2>12, AsideWrites, CommitStep
<1>3. QED
  BY <1>1, <1>2 DEF ScheduleRecipe
(* A command that wins nothing writes no row. *)
LEMMA NothingWritten ==
    ASSUME IInv, row' = Overlaid(row, << >>)
    PROVE  /\ IsMenu(<< >>) /\ DOMAIN << >> = {} /\ ReplacedOnce(row') /\ Scheduled' = Scheduled
           /\ \A s : KeepsScale(s) /\ \A how, x : KeepsSlots(s, how, x)
<1>1. DOMAIN << >> = {}
  OBVIOUS
<1>2. DOMAIN row' = DOMAIN row /\ \A k \in DOMAIN row : row'[k] = row[k]
  BY <1>1 DEF Overlaid
<1>3. ReplacedOnce(row') /\ \A s : SameOverrides(s)
  BY <1>1, OverridesKept DEF IInv
<1>4. \A s : KeepsScale(s)
  BY <1>2 DEF KeepsScale
<1>5. Scheduled' = Scheduled
  BY <1>2 DEF Scheduled, Rows
<1>6. QED
  BY <1>1, <1>3, <1>4, <1>5, SlotsKept DEF IsMenu

LEMMA ContextStep ==
    ASSUME IInv, NEW c \in Command, Fresh(c), NEW q \in ContextRequests, SetContext(c, q),
           UNCHANGED <<event, catalog, scene>>
    PROVE  IInv'
<1> DEFINE k == S(q.schedule)
           f == ContextField(q.schedule)
<1>1. /\ q.kind = "context" /\ q.time \in Nat /\ q.schedule \in Scheduled
      /\ q.op \in {"manual", "suggested"} /\ q.consumption \in Nat /\ q.amount \in Nat
  <2>1. /\ WallTimes \subseteq Nat /\ Percentages \subseteq Nat /\ Amounts \subseteq Nat
    BY WallTimesAssumption, ScaleAssumption
  <2>2. CASE q \in [kind : {"context"}, op : {"manual"}, time : WallTimes, schedule : Scheduled,
                    consumption : Percentages, amount : Amounts]
    BY <2>1, <2>2
  <2>3. CASE q \in [kind : {"context"}, op : {"suggested"}, time : WallTimes,
                    schedule : Scheduled, consumption : Percentages, amount : {0}]
    <3>1. q.kind = "context" /\ q.op = "suggested" /\ q.amount = 0 /\ q.time \in WallTimes
      BY <2>3
    <3>2. q.schedule \in Scheduled /\ q.consumption \in Percentages
      BY <2>3
    <3>3. q.amount \in Nat
      BY <3>1
    <3>4. q.time \in Nat /\ q.consumption \in Nat
      BY <2>1, <3>1, <3>2
    <3>5. QED
      BY <3>1, <3>2, <3>3, <3>4
  <2>4. QED
    BY <2>2, <2>3 DEF ContextRequests
<1>2. /\ q.schedule \in Schedule /\ k \in DOMAIN row /\ row[k] \in ScheduleRow
      /\ IsVersion(Pinned(q.schedule)) /\ Pinned(q.schedule) = Versions[row[k].version]
  BY <1>1, ScheduledTypes
<1>3. \A g : AimsAt(q, g) <=> g = f
  BY <1>1 DEF AimsAt
<1>4. /\ \A s : ContextField(s) = f <=> s = q.schedule
      /\ \A s, how, x : ChoiceField(s, how, x) # f
  BY FieldsDiffer
<1>5. CASE Refuse(c)
  BY <1>5, RefusedStep DEF Refuse
<1>6. CASE Wins(f, StampOf(c, q)) /\ Commit(c, q, "accepted", Only(k, Rescaled(q)), {k}, {f})
  <2> DEFINE r == Rescaled(q)
             scale == IF q.op = "manual" THEN q.amount
                      ELSE Suggested(Pinned(q.schedule), q.consumption)
  <2>1. scale \in Nat
    BY <1>1, <1>2, SuggestedIsNat
  <2> HIDE DEF scale
  <2>2. r = [row[k] EXCEPT !.consumption = q.consumption, !.mode = q.op, !.scale = scale]
    BY DEF Rescaled, scale
  <2>3. /\ r \in ScheduleRow /\ r.consumption = q.consumption /\ r.mode = q.op
        /\ r.scale = scale /\ r.version = row[k].version
    BY <1>1, <1>2, <2>1, <2>2 DEF ScheduleRow
  <2> HIDE DEF r
  <2>4. IsMenu(Only(k, r))
    <3>1. IsRow(k, r)
      BY <1>2, <2>3 DEF IsRow, S
    <3>2. QED
      BY <3>1, OnlyIsMenu
  <2>5. DOMAIN Only(k, r) = {k} /\ Only(k, r)[k] = r /\ k[1] = "schedule"
    BY OnlyIs, KeysAre
  <2>6. row' = Overlaid(row, Only(k, r))
    BY <1>6 DEF Commit, r
  <2>7. ReplacedOnce(row') /\ \A s : SameOverrides(s)
    BY <2>5, <2>6, OverridesKept DEF IInv
  <2>8. /\ DOMAIN row' = DOMAIN row /\ row'[k] = r
        /\ \A j \in DOMAIN row : j # k => row'[j] = row[j]
    BY <1>2, <2>5, <2>6 DEF Overlaid
  <2>9. Asks(q, Scheduled')
    <3>1. Scheduled' = Scheduled
      BY <2>8 DEF Scheduled, Rows
    <3>2. QED
      BY <1>1, <3>1 DEF Asks
  <2>10. Wrote(c, q, {f})
    BY <1>3, <1>4, <1>6 DEF Wrote, MovesClock
  <2>11. ASSUME NEW s \in Schedule
         PROVE  Honours(q, {f}, s)
    <3>1. \A how, x : KeepsSlots(s, how, x)
      BY <2>7, SlotsKept
    <3>2. CASE s = q.schedule
      <4>1. ScaledAs(row', s, q)
        BY <1>2, <2>3, <2>8, <3>2 DEF ScaledAs, scale
      <4>2. QED
        BY <1>4, <3>1, <3>2, <4>1 DEF Honours
    <3>3. CASE s # q.schedule
      <4>1. S(s) # k
        BY <3>3, KeysAre
      <4>2. KeepsScale(s)
        BY <2>8, <4>1 DEF KeepsScale
      <4>3. QED
        BY <1>4, <3>1, <3>3, <4>2 DEF Honours
    <3>4. QED
      BY <3>2, <3>3
  <2>12. Commit(c, q, "accepted", Only(k, r), {k}, {f})
    BY <1>6 DEF r
  <2>13. QED
    BY <2>4, <2>5, <2>7, <2>9, <2>10, <2>11, <2>12, CommitStep
<1>7. CASE ~Wins(f, StampOf(c, q)) /\ Commit(c, q, "partially_superseded", << >>, {k}, {})
  <2>1. row' = Overlaid(row, << >>)
    BY <1>7 DEF Commit
  <2>2. Wrote(c, q, {})
    BY <1>3, <1>7 DEF Wrote, MovesClock
  <2>3. Asks(q, Scheduled') /\ \A s : Honours(q, {}, s)
    BY <1>1, <2>1, NothingWritten DEF Asks, Honours
  <2>4. QED
    BY <1>7, <2>1, <2>2, <2>3, NothingWritten, CommitStep
<1>8. QED
  BY <1>5, <1>6, <1>7 DEF SetContext, ContextField

-----------------------------------------------------------------------------
(* The update of a scheduled recipe, which no choice survives by its clock. *)

LEMMA UpdateRequestTypes ==
    ASSUME IInv, NEW q \in UpdateRequests
    PROVE  /\ q.kind = "update" /\ q.time \in Nat /\ q.schedule \in Scheduled
           /\ q.target \in DOMAIN Versions /\ q.preserve \in BOOLEAN
  BY WallTimesAssumption DEF UpdateRequests, IInv, TypeOK, Catalog

LEMMA RepinnedTypes ==
    ASSUME IInv, NEW q \in UpdateRequests
    PROVE  Repinned(q) \in ScheduleRow
<1> DEFINE old == row[S(q.schedule)]
           scale == Suggested(Versions[q.target], old.consumption)
<1>1. old \in ScheduleRow /\ q.target \in DOMAIN Versions
  BY UpdateRequestTypes, ScheduledTypes
<1>2. scale \in Nat
  BY <1>1, VersionsAssumption, SuggestedIsNat DEF ScheduleRow
<1>3. \/ Repinned(q) = [old EXCEPT !.version = q.target]
      \/ Repinned(q) = [old EXCEPT !.version = q.target, !.mode = "suggested", !.scale = scale]
  BY DEF Repinned
<1> HIDE DEF old, scale
<1>4. QED
  BY <1>1, <1>2, <1>3 DEF ScheduleRow

(* An override that is carried stays one, of the same scheduled recipe. *)
LEMMA CarriedTypes ==
    ASSUME IInv, NEW q, NEW o, IsOverride(o)
    PROVE  /\ IsOverride(Carried(o, q)) /\ Carried(o, q).of = o.of
           /\ Carried(o, q).how = "replace" => o.how = "replace" /\ Carried(o, q).line = o.line
<1>1. o \in OverrideRow /\ (o.how = "add" <=> o.line = None)
  BY DEF IsOverride
<1>2. CASE Carried(o, q) = [o EXCEPT !.retired = TRUE]
  BY <1>1, <1>2 DEF IsOverride, OverrideRow
<1>3. CASE Carried(o, q) = [o EXCEPT !.how = "add", !.line = None]
  BY <1>1, <1>3 DEF IsOverride, OverrideRow
<1>4. CASE Carried(o, q) = o
  BY <1>1, <1>4 DEF IsOverride
<1>5. QED
  BY <1>2, <1>3, <1>4 DEF Carried, Retire

(* The rows that an update writes. *)
UpdatedRows(q) ==
    Overlaid([j \in ActiveOf(q.schedule) |-> Carried(row[j], q)],
             Only(S(q.schedule), Repinned(q)))

LEMMA UpdatedRowsAre ==
    ASSUME IInv, NEW q \in UpdateRequests
    PROVE  LET k == S(q.schedule)
               rows == UpdatedRows(q)
           IN  /\ \A j \in ActiveOf(q.schedule) :
                     /\ j \in DOMAIN row /\ j[1] = "override" /\ row[j].of = q.schedule
                     /\ j[2] \in Identity /\ j = O(j[2]) /\ IsOverride(row[j])
                     /\ rows[j] = Carried(row[j], q)
               /\ k \in DOMAIN row /\ k[1] = "schedule" /\ rows[k] = Repinned(q)
               /\ DOMAIN rows = ActiveOf(q.schedule) \cup {k}
<1> DEFINE k == S(q.schedule)
           overrides == [j \in ActiveOf(q.schedule) |-> Carried(row[j], q)]
<1>1. k \in DOMAIN row /\ k[1] = "schedule"
  BY UpdateRequestTypes, ScheduledTypes, KeysAre
<1>2. ASSUME NEW j \in ActiveOf(q.schedule)
      PROVE  /\ j \in DOMAIN row /\ j[1] = "override" /\ row[j].of = q.schedule
             /\ j[2] \in Identity /\ j = O(j[2]) /\ IsOverride(row[j])
  <2>1. j \in DOMAIN row /\ j[1] = "override" /\ row[j].of = q.schedule
    BY DEF ActiveOf, OverridesOf, Rows
  <2>2. QED
    BY <2>1, RowTypes DEF IInv, TypeOK
<1>3. /\ DOMAIN overrides = ActiveOf(q.schedule)
      /\ \A j \in ActiveOf(q.schedule) : overrides[j] = Carried(row[j], q)
  OBVIOUS
<1>4. UpdatedRows(q) = Overlaid(overrides, Only(k, Repinned(q)))
  BY DEF UpdatedRows
<1>5. DOMAIN Only(k, Repinned(q)) = {k} /\ Only(k, Repinned(q))[k] = Repinned(q)
  BY OnlyIs
<1>6. k \notin ActiveOf(q.schedule)
  BY <1>1, <1>2
<1> HIDE DEF overrides
<1>7. /\ DOMAIN UpdatedRows(q) = ActiveOf(q.schedule) \cup {k}
      /\ UpdatedRows(q)[k] = Repinned(q)
      /\ \A j \in ActiveOf(q.schedule) : UpdatedRows(q)[j] = Carried(row[j], q)
  BY <1>3, <1>4, <1>5, <1>6 DEF Overlaid
<1>8. QED
  BY <1>1, <1>2, <1>7

LEMMA UpdateStep ==
    ASSUME IInv, NEW c \in Command, Fresh(c), NEW q \in UpdateRequests, UpdateCatalog(c, q),
           UNCHANGED <<event, catalog, scene>>
    PROVE  IInv'
<1> DEFINE k == S(q.schedule)
           rows == UpdatedRows(q)
<1>1. CASE Refuse(c) \/ Break(c)
  BY <1>1, RefusedStep DEF Refuse, Break
<1>2. CASE Commit(c, q, "accepted", rows, ToldByUpdate(q), UpdateClocks(q))
  <2>1. /\ q.kind = "update" /\ q.time \in Nat /\ q.schedule \in Scheduled
        /\ q.schedule \in Schedule /\ k \in DOMAIN row /\ k[1] = "schedule"
    BY UpdateRequestTypes, ScheduledTypes, KeysAre
  <2>2. \A j \in ActiveOf(q.schedule) :
           /\ j \in DOMAIN row /\ j[1] = "override" /\ row[j].of = q.schedule
           /\ j[2] \in Identity /\ j = O(j[2]) /\ IsOverride(row[j])
    BY UpdatedRowsAre
  <2>3. /\ DOMAIN rows = ActiveOf(q.schedule) \cup {k} /\ rows[k] = Repinned(q)
        /\ \A j \in ActiveOf(q.schedule) : rows[j] = Carried(row[j], q)
    BY UpdatedRowsAre
  <2> HIDE DEF rows
  <2>4. IsMenu(rows)
    <3>1. IsRow(k, rows[k])
      BY <2>1, <2>3, RepinnedTypes DEF IsRow, S
    <3>2. ASSUME NEW j \in ActiveOf(q.schedule)
          PROVE  IsRow(j, rows[j])
      <4>1. IsOverride(rows[j]) /\ j[2] \in Identity /\ j = O(j[2])
        BY <2>2, <2>3, CarriedTypes
      <4>2. QED
        BY <4>1 DEF IsRow, O
    <3>3. QED
      BY <2>3, <3>1, <3>2 DEF IsMenu
  <2>5. row' = Overlaid(row, rows)
    BY <1>2 DEF Commit
  <2>6. /\ DOMAIN row' = DOMAIN row
        /\ \A j \in DOMAIN row : row'[j] = IF j \in DOMAIN rows THEN rows[j] ELSE row[j]
    BY <2>1, <2>2, <2>3, <2>5 DEF Overlaid
  <2>7. ASSUME NEW j \in DOMAIN row, j[1] = "override"
        PROVE  /\ row'[j].of = row[j].of
               /\ row[j].of # q.schedule => row'[j] = row[j]
               /\ row'[j].how = "replace" => row[j].how = "replace" /\ row'[j].line = row[j].line
    <3>1. CASE j \in ActiveOf(q.schedule)
      BY <2>2, <2>3, <2>6, <3>1, CarriedTypes
    <3>2. CASE j \notin ActiveOf(q.schedule)
      BY <2>1, <2>3, <2>6, <2>7, <3>2
    <3>3. QED
      BY <3>1, <3>2
  <2>8. ReplacedOnce(row')
    BY <2>6, <2>7 DEF IInv, ReplacedOnce
  <2>9. ASSUME NEW s \in Schedule, s # q.schedule
        PROVE  KeepsScale(s) /\ SameOverrides(s)
    <3>1. S(s) \notin DOMAIN rows
      BY <2>2, <2>3, <2>9, KeysAre
    <3>2. KeepsScale(s)
      BY <2>6, <3>1 DEF KeepsScale
    <3>3. SameOverrides(s)
      BY <2>6, <2>7, <2>9 DEF SameOverrides
    <3>4. QED
      BY <3>2, <3>3
  <2>10. Aside(q, UpdateClocks(q))
    <3>1. ASSUME NEW g \in UpdateClocks(q)
          PROVE  \A s, how, x : g # ContextField(s) /\ g # ChoiceField(s, how, x)
      <4>1. \E a : \E b \in {"recipe_version_id", "selected_scale_amount", "scale_mode",
                              "catalog_update"} : g = <<a, b>>
        BY DEF UpdateClocks
      <4>2. QED
        BY <4>1, PairsDiffer
    <3>2. QED
      BY <2>1, <3>1 DEF Aside
  <2>11. Asks(q, Scheduled')
    <3>1. Scheduled' = Scheduled
      BY <2>6 DEF Scheduled, Rows
    <3>2. QED
      BY <2>1, <3>1 DEF Asks
  <2>12. DOMAIN rows \subseteq ToldByUpdate(q)
    BY <2>3 DEF ToldByUpdate
  <2>13. Wrote(c, q, UpdateClocks(q))
    BY <2>10, AsideWrites
  <2>14. \A s \in Schedule :
            (q.kind = "update" => q.schedule # s) => Honours(q, UpdateClocks(q), s)
    BY <2>1, <2>9, <2>10, AsideWrites
  <2>15. QED
    BY <1>2, <2>4, <2>8, <2>11, <2>12, <2>13, <2>14, CommitStep
<1>3. QED
  BY <1>1, <1>2 DEF UpdateCatalog, UpdatedRows
-----------------------------------------------------------------------------
(* The choice of an override. *)

OverrideRequests == ReplaceRequests \cup AddRequests \cup ClearRequests

LEMMA OverrideRequestTypes ==
    ASSUME IInv, NEW q \in OverrideRequests
    PROVE  /\ q.kind = "override" /\ q.time \in Nat /\ q.schedule \in Schedule
           /\ q.how \in How /\ q.op \in {"set", "clear"} /\ Aim(q) \in What
           /\ q.op = "set" => q.quantity \in Nat /\ q.override \in Identity
           /\ q.op = "set" /\ q.how = "replace" => q.line \in Line
           /\ q.op = "set" /\ q.how = "add" => q.line = None /\ q.ingredient \in IngredientVersion
<1>1. \A s \in Scheduled : s \in Schedule
  BY ScheduledTypes
<1>2. WallTimes \subseteq Nat /\ Quantities \subseteq Nat
  BY WallTimesAssumption, ScaleAssumption
<1>3. CASE q \in ReplaceRequests
  <2>1. PICK t \in WallTimes, s \in Scheduled, l \in Line, n \in Quantities, x \in 1 .. Clients :
           q = [kind |-> "override", how |-> "replace", op |-> "set", time |-> t,
                schedule |-> s, line |-> l, ingredient |-> None, quantity |-> n,
                override |-> <<s, l, x>>]
    BY <1>3 DEF ReplaceRequests
  <2>2. q.override \in Identity
    BY <1>1, <2>1 DEF Identity
  <2>3. QED
    BY <1>1, <1>2, <2>1, <2>2 DEF How, Aim, What
<1>4. CASE q \in AddRequests
  <2>1. PICK t \in WallTimes, s \in Scheduled, v \in catalog.known, n \in Quantities,
              x \in 1 .. Clients :
           q = [kind |-> "override", how |-> "add", op |-> "set", time |-> t,
                schedule |-> s, line |-> None, ingredient |-> v, quantity |-> n,
                override |-> <<s, v[1], x>>]
    BY <1>4 DEF AddRequests
  <2>2. v \in IngredientVersion
    BY DEF IInv, TypeOK, Catalog
  <2>3. q.override \in Identity
    BY <1>1, <2>1, <2>2 DEF Identity, IngredientVersion
  <2>4. QED
    BY <1>1, <1>2, <2>1, <2>2, <2>3 DEF How, Aim, What
<1>5. CASE q \in ClearRequests
  <2>1. PICK t \in WallTimes, k \in Rows("override") :
           q = [kind |-> "override", how |-> row[k].how, op |-> "clear", time |-> t,
                schedule |-> row[k].of, line |-> row[k].line, ingredient |-> None,
                quantity |-> 0, override |-> k[2]]
    BY <1>5 DEF ClearRequests
  <2>2. IsOverride(row[k]) /\ k[2] \in Identity
    BY RowTypes DEF Rows, IInv, TypeOK
  <2>3. /\ row[k].of \in Schedule /\ row[k].how \in {"replace", "add"}
        /\ row[k].how = "replace" => row[k].line \in Line
    BY <2>2 DEF IsOverride, OverrideRow
  <2>4. QED
    BY <1>2, <2>1, <2>2, <2>3 DEF How, Aim, What
<1>6. QED
  BY <1>3, <1>4, <1>5 DEF OverrideRequests

LEMMA ChoiceIs ==
    ASSUME NEW q
    PROVE  /\ Choice(q) = ChoiceField(q.schedule, q.how, Aim(q))
           /\ RowOf(q) = Slots(row, q.schedule, q.how, Aim(q))
  BY DEF Choice, ChoiceField, Aim, RowOf, Slots, OverridesOf, Rows

(* The row of a choice that is neither refused nor broken. *)
Target(q) == IF RowOf(q) = {} THEN O(q.override) ELSE CHOOSE x \in RowOf(q) : TRUE

LEMMA ChosenIs ==
    ASSUME IInv, NEW q \in OverrideRequests, ~OverrideRefused(q), ~OverrideBreaks(q, TRUE)
    PROVE  LET k == Target(q)
               new == Chosen(q)
           IN  /\ IsRow(k, new) /\ k[1] = "override" /\ new.ingredient[1] \in Ingredient
               /\ IF RowOf(q) = {} THEN k \notin DOMAIN row ELSE k \in RowOf(q)
               /\ new.of = q.schedule /\ new.how = q.how
               /\ IF q.how = "replace" THEN new.line = q.line ELSE k = O(q.override)
               /\ IF q.op = "clear" THEN new.retired
                  ELSE ~new.retired /\ new.quantity = q.quantity
<1> DEFINE k == Target(q)
           new == Chosen(q)
<1>1. /\ q.schedule \in Schedule /\ q.how \in {"replace", "add"} /\ q.op \in {"set", "clear"}
      /\ q.op = "set" => q.quantity \in Nat /\ q.override \in Identity
      /\ q.op = "set" /\ q.how = "replace" => q.line \in Line
      /\ q.op = "set" /\ q.how = "add" => q.line = None /\ q.ingredient \in IngredientVersion
  BY OverrideRequestTypes DEF How
<1>2. CASE RowOf(q) # {}
  <2>1. k \in RowOf(q) /\ k = CHOOSE x \in RowOf(q) : TRUE
    BY <1>2 DEF Target
  <2>2. /\ k \in DOMAIN row /\ k[1] = "override" /\ row[k].of = q.schedule
        /\ row[k].how = q.how
        /\ IF q.how = "replace" THEN row[k].line = q.line ELSE k = O(q.override)
    BY <2>1 DEF RowOf, OverridesOf, Rows
  <2>3. IsOverride(row[k]) /\ k[2] \in Identity /\ k = O(k[2])
    BY <2>2, RowTypes DEF IInv, TypeOK
  <2>4. new = IF q.op = "clear" THEN [row[k] EXCEPT !.retired = TRUE]
              ELSE [row[k] EXCEPT !.quantity = q.quantity, !.retired = FALSE]
    BY <1>2, <2>1 DEF Chosen
  <2> HIDE DEF k, new
  <2>5. /\ IsOverride(new) /\ new.of = row[k].of /\ new.how = row[k].how
        /\ new.line = row[k].line
        /\ IF q.op = "clear" THEN new.retired ELSE ~new.retired /\ new.quantity = q.quantity
    BY <1>1, <2>3, <2>4 DEF IsOverride, OverrideRow
  <2>6. IsRow(k, new) /\ new.ingredient[1] \in Ingredient
    BY <2>3, <2>5 DEF IsRow, O, IsOverride, OverrideRow, IngredientVersion
  <2>7. QED
    BY <1>2, <2>1, <2>2, <2>5, <2>6 DEF k, new
<1>3. CASE RowOf(q) = {}
  <2> DEFINE ingredient == IF q.how = "replace" THEN Pinned(q.schedule).lines[q.line].ingredient
                           ELSE q.ingredient
  <2>1. q.op = "set"
    BY <1>1, <1>3 DEF OverrideRefused
  <2>2. k = O(q.override) /\ k \notin DOMAIN row
    BY <1>3 DEF Target, OverrideBreaks, Has
  <2>3. new = [of |-> q.schedule, how |-> q.how, line |-> q.line, ingredient |-> ingredient,
               quantity |-> q.quantity, retired |-> FALSE]
    BY <1>3, <2>1 DEF Chosen
  <2>4. ingredient \in IngredientVersion
    <3>1. CASE q.how = "replace"
      <4>1. q.line \in DOMAIN Pinned(q.schedule).lines /\ S(q.schedule) \in DOMAIN row
        BY <3>1 DEF OverrideRefused, Live, Has
      <4>2. q.schedule \in Scheduled
        BY <4>1, KeysAre DEF Scheduled, Rows
      <4>3. IsVersion(Pinned(q.schedule))
        BY <4>2, ScheduledTypes
      <4>4. QED
        BY <3>1, <4>1, <4>3 DEF IsVersion, IsLine
    <3>2. CASE q.how = "add"
      BY <1>1, <2>1, <3>2
    <3>3. QED
      BY <1>1, <3>1, <3>2
  <2> HIDE DEF ingredient, new, k
  <2>5. IsOverride(new)
    <3>1. q.line \in Line \cup {None} /\ (q.how = "add" <=> q.line = None)
      BY <1>1, <2>1, NoneAssumption
    <3>2. q.quantity \in Nat /\ q.schedule \in Schedule
      BY <1>1, <2>1
    <3>3. QED
      BY <1>1, <2>3, <2>4, <3>1, <3>2 DEF IsOverride, OverrideRow
  <2>6. IsRow(k, new) /\ k[1] = "override"
    BY <1>1, <2>1, <2>2, <2>5, KeysAre DEF IsRow, O
  <2>7. new.ingredient[1] \in Ingredient
    BY <2>5 DEF IsOverride, OverrideRow, IngredientVersion
  <2>8. QED
    BY <1>1, <1>3, <2>1, <2>2, <2>3, <2>6, <2>7 DEF k, new
<1>4. QED
  BY <1>2, <1>3
(* The rows after a choice won: its own row k has it, and no other override moved. *)
LEMMA ChoiceWon ==
    ASSUME IInv, NEW c, NEW q \in OverrideRequests, NEW k, NEW new, NEW rows,
           k[1] = "override", IF RowOf(q) = {} THEN k \notin DOMAIN row ELSE k \in RowOf(q),
           new.of = q.schedule, new.how = q.how,
           IF q.how = "replace" THEN new.line = q.line ELSE k = O(q.override),
           IF q.op = "clear" THEN new.retired ELSE ~new.retired /\ new.quantity = q.quantity,
           k \in DOMAIN rows, rows[k] = new,
           \A j \in DOMAIN rows : j # k => j[1] = "price",
           row' = Overlaid(row, rows)
    PROVE  ReplacedOnce(row') /\ \A s \in Schedule : Honours(q, {Choice(q)}, s)
<1> DEFINE f == Choice(q)
<1>1. /\ k \in DOMAIN row' /\ row'[k] = new
      /\ \A j \in DOMAIN row : j \in DOMAIN row' /\ (j \notin DOMAIN rows => row'[j] = row[j])
      /\ \A j \in DOMAIN row' : j \notin DOMAIN rows => j \in DOMAIN row /\ row'[j] = row[j]
  BY DEF Overlaid
<1>2. \A j : j[1] = "override" /\ j # k => (j \in DOMAIN row <=> j \in DOMAIN row') /\
                                              (j \in DOMAIN row => row'[j] = row[j])
  BY <1>1
<1>3. /\ q.how \in How /\ Aim(q) \in What /\ q.schedule \in Schedule
      /\ f = ChoiceField(q.schedule, q.how, Aim(q))
      /\ RowOf(q) = Slots(row, q.schedule, q.how, Aim(q))
  BY OverrideRequestTypes, ChoiceIs
<1>4. ASSUME NEW j \in DOMAIN row, j[1] = "override", row[j].of = q.schedule,
             row[j].how = q.how,
             IF q.how = "replace" THEN row[j].line = q.line ELSE j = O(q.override)
      PROVE  j = k
  <2>1. j \in RowOf(q)
    BY <1>4 DEF RowOf, OverridesOf, Rows
  <2>2. /\ k \in DOMAIN row /\ row[k].of = q.schedule /\ row[k].how = q.how
        /\ IF q.how = "replace" THEN row[k].line = q.line ELSE k = O(q.override)
    BY <2>1 DEF RowOf, OverridesOf, Rows
  <2>3. CASE q.how = "replace"
    BY <1>4, <2>2, <2>3 DEF IInv, ReplacedOnce
  <2>4. CASE q.how # "replace"
    BY <1>4, <2>2, <2>4
  <2>5. QED
    BY <2>3, <2>4
<1>5. ReplacedOnce(row')
  <2>1. ASSUME NEW j \in DOMAIN row', j # k, j[1] = "override", row'[j].how = "replace",
               new.how = "replace", row'[j].of = new.of, row'[j].line = new.line
        PROVE  FALSE
    BY <1>2, <1>4, <2>1
  <2>2. ASSUME NEW i \in DOMAIN row', NEW j \in DOMAIN row',
               i[1] = "override", j[1] = "override", row'[i].how = "replace",
               row'[j].how = "replace", row'[i].of = row'[j].of, row'[i].line = row'[j].line
        PROVE  i = j
    <3>1. CASE i = k \/ j = k
      BY <1>1, <2>1, <2>2, <3>1
    <3>2. CASE i # k /\ j # k
      BY <1>2, <2>2, <3>2 DEF IInv, ReplacedOnce
    <3>3. QED
      BY <3>1, <3>2
  <2>3. QED
    BY <2>2 DEF ReplacedOnce
<1>6. \A s : KeepsScale(s)
  <2>1. \A s : S(s) \notin DOMAIN rows
    BY KeysAre
  <2>2. QED
    BY <1>1, <2>1 DEF KeepsScale
<1>7. ChosenAs(row', q.schedule, q.how, Aim(q), q)
  <2>1. k \in Slots(row', q.schedule, q.how, Aim(q))
    BY <1>1 DEF Slots, Aim
  <2>2. ASSUME NEW j \in Slots(row', q.schedule, q.how, Aim(q)), j # k
        PROVE  FALSE
    <3>1. /\ j \in DOMAIN row /\ j[1] = "override" /\ row[j].of = q.schedule
          /\ row[j].how = q.how
          /\ IF q.how = "replace" THEN row[j].line = q.line ELSE j = O(q.override)
      BY <1>2, <2>2 DEF Slots, Aim
    <3>2. QED
      BY <1>4, <2>2, <3>1
  <2>3. QED
    BY <1>1, <2>1, <2>2 DEF ChosenAs
<1>8. ASSUME NEW s, NEW how, NEW x, ChoiceField(s, how, x) # f
      PROVE  KeepsSlots(s, how, x)
  <2>1. k \notin Slots(row', s, how, x)
    <3>1. ASSUME k \in Slots(row', s, how, x)
          PROVE  s = q.schedule /\ how = q.how /\ x = Aim(q)
      <4>1. /\ row'[k].of = s /\ row'[k].how = how
            /\ IF how = "replace" THEN row'[k].line = x ELSE k = O(x)
        BY <3>1 DEF Slots
      <4>2. s = q.schedule /\ how = q.how
        BY <1>1, <4>1
      <4>3. x = Aim(q)
        BY <1>1, <4>1, <4>2, KeysAre DEF Aim
      <4>4. QED
        BY <4>2, <4>3
    <3>2. QED
      BY <1>3, <1>8, <3>1
  <2>2. k \notin Slots(row, s, how, x)
    <3>1. ASSUME k \in Slots(row, s, how, x)
          PROVE  s = q.schedule /\ how = q.how /\ x = Aim(q)
      <4>1. /\ row[k].of = s /\ row[k].how = how
            /\ IF how = "replace" THEN row[k].line = x ELSE k = O(x)
        BY <3>1 DEF Slots
      <4>2. k \in RowOf(q)
        BY <3>1 DEF Slots
      <4>3. /\ row[k].of = q.schedule /\ row[k].how = q.how
            /\ IF q.how = "replace" THEN row[k].line = q.line ELSE k = O(q.override)
        BY <4>2 DEF RowOf, OverridesOf
      <4>4. x = Aim(q)
        BY <4>1, <4>3, KeysAre DEF Aim
      <4>5. QED
        BY <4>1, <4>3, <4>4
    <3>2. QED
      BY <1>3, <1>8, <3>1
  <2>3. ASSUME NEW j, j # k
        PROVE  /\ j \in Slots(row', s, how, x) <=> j \in Slots(row, s, how, x)
               /\ j \in Slots(row, s, how, x) => row'[j] = row[j]
    BY <1>2, <2>3 DEF Slots
  <2>4. Slots(row', s, how, x) = Slots(row, s, how, x)
    BY <2>1, <2>2, <2>3
  <2>5. \A j \in Slots(row, s, how, x) : row'[j] = row[j]
    BY <2>2, <2>3
  <2>6. QED
    BY <2>4, <2>5 DEF KeepsSlots
<1>9. ASSUME NEW s \in Schedule
      PROVE  Honours(q, {f}, s)
  <2>1. ContextField(s) # f
    BY <1>3, FieldsDiffer
  <2>2. ASSUME NEW how \in How, NEW x \in What
        PROVE  IF ChoiceField(s, how, x) \in {f} THEN ChosenAs(row', s, how, x, q)
               ELSE KeepsSlots(s, how, x)
    <3>1. CASE ChoiceField(s, how, x) = f
      <4>1. s = q.schedule /\ how = q.how /\ x = Aim(q)
        BY <1>3, <3>1, FieldsDiffer
      <4>2. QED
        BY <1>7, <3>1, <4>1
    <3>2. CASE ChoiceField(s, how, x) # f
      BY <1>8, <3>2
    <3>3. QED
      BY <3>1, <3>2
  <2>3. QED
    BY <1>6, <2>1, <2>2 DEF Honours
<1>10. QED
  BY <1>5, <1>9

LEMMA OverrideStep ==
    ASSUME IInv, NEW c \in Command, Fresh(c), NEW q \in OverrideRequests, SetOverride(c, q),
           UNCHANGED <<event, catalog, scene>>
    PROVE  IInv'
<1> DEFINE k == Target(q)
           new == Chosen(q)
           f == Choice(q)
           first == IF ~new.retired /\ new.quantity > 0 /\ Previous(q) = 0
                    THEN {new.ingredient[1]} ELSE {}
           rows == Overlaid(Only(k, new), Captures(first))
<1>1. /\ q.kind = "override" /\ q.time \in Nat /\ q.schedule \in Schedule
      /\ q.how \in How /\ Aim(q) \in What
      /\ f = ChoiceField(q.schedule, q.how, Aim(q))
  BY OverrideRequestTypes, ChoiceIs
<1>2. CASE Refuse(c) \/ Break(c)
  BY <1>2, RefusedStep DEF Refuse, Break
<1>3. ASSUME NEW won \in SUBSET {f}, f \in won <=> Wins(f, StampOf(c, q))
      PROVE  Wrote(c, q, won)
  <2>1. \A g : AimsAt(q, g) <=> g = f
    BY <1>1 DEF AimsAt
  <2>2. QED
    BY <1>3, <2>1 DEF Wrote, MovesClock
<1>4. ~OverrideRefused(q) => S(q.schedule) \in DOMAIN row
  BY DEF OverrideRefused, Live, Has
<1>5. ASSUME DOMAIN row \subseteq DOMAIN row', S(q.schedule) \in DOMAIN row
      PROVE  Asks(q, Scheduled')
  <2>1. q.schedule \in Scheduled'
    BY <1>5, KeysAre DEF Scheduled, Rows
  <2>2. QED
    BY <1>1, <2>1 DEF Asks
<1>6. CASE /\ ~OverrideRefused(q) /\ ~OverrideBreaks(q, TRUE) /\ Wins(f, StampOf(c, q))
           /\ Commit(c, q, "accepted", rows, DOMAIN rows, {f})
  <2>1. /\ IsRow(k, new) /\ k[1] = "override" /\ new.ingredient[1] \in Ingredient
        /\ IF RowOf(q) = {} THEN k \notin DOMAIN row ELSE k \in RowOf(q)
        /\ new.of = q.schedule /\ new.how = q.how
        /\ IF q.how = "replace" THEN new.line = q.line ELSE k = O(q.override)
        /\ IF q.op = "clear" THEN new.retired ELSE ~new.retired /\ new.quantity = q.quantity
    BY <1>6, ChosenIs
  <2>2. first \in SUBSET Ingredient
    BY <2>1
  <2> HIDE DEF new, k, first
  <2>3. IsMenu(Captures(first)) /\ \A j \in DOMAIN Captures(first) : j[1] = "price"
    BY <2>2, CapturesAre
  <2>4. IsMenu(rows)
    BY <2>1, <2>3, OnlyIsMenu, OverlaidMenu
  <2>5. /\ k \in DOMAIN rows /\ rows[k] = new
        /\ \A j \in DOMAIN rows : j # k => j[1] = "price"
    <3>1. DOMAIN Only(k, new) = {k} /\ Only(k, new)[k] = new
      BY OnlyIs
    <3>2. k \notin DOMAIN Captures(first)
      BY <2>1, <2>3
    <3>3. QED
      BY <2>3, <3>1, <3>2 DEF Overlaid
  <2> HIDE DEF rows
  <2>6. row' = Overlaid(row, rows)
    BY <1>6 DEF Commit
  <2>7. ReplacedOnce(row') /\ \A s \in Schedule : Honours(q, {f}, s)
    BY <2>1, <2>5, <2>6, ChoiceWon
  <2>8. Asks(q, Scheduled')
    <3>1. DOMAIN row \subseteq DOMAIN row'
      BY <2>6 DEF Overlaid
    <3>2. QED
      BY <1>4, <1>5, <1>6, <3>1
  <2>9. Wrote(c, q, {f})
    BY <1>3, <1>6
  <2>10. QED
    BY <1>6, <2>4, <2>7, <2>8, <2>9, CommitStep
<1>7. CASE /\ ~OverrideRefused(q) /\ ~Wins(f, StampOf(c, q))
           /\ Commit(c, q, "partially_superseded", << >>, {k}, {})
  <2>1. row' = Overlaid(row, << >>)
    BY <1>7 DEF Commit
  <2>2. Asks(q, Scheduled')
    <3>1. DOMAIN row \subseteq DOMAIN row'
      BY <2>1 DEF Overlaid
    <3>2. QED
      BY <1>4, <1>5, <1>7, <3>1
  <2>3. Wrote(c, q, {})
    BY <1>3, <1>7
  <2>4. \A s : Honours(q, {}, s)
    BY <2>1, NothingWritten DEF Honours
  <2>5. QED
    BY <1>7, <2>1, <2>2, <2>3, <2>4, NothingWritten, CommitStep
<1>8. QED
  <2>1. /\ Wins(f, StampOf(c, q)) => OverrideBreaks(q, Wins(f, StampOf(c, q)))
                                        = OverrideBreaks(q, TRUE)
        /\ k = IF RowOf(q) = {} THEN O(q.override) ELSE CHOOSE x \in RowOf(q) : TRUE
    BY DEF Target, OverrideBreaks
  <2>2. QED
    BY <1>2, <1>6, <1>7, <2>1 DEF SetOverride
-----------------------------------------------------------------------------
(* What other services do. *)

LEMMA LifecycleStep ==
    ASSUME IInv, SetLifecycle, UNCHANGED scene
    PROVE  IInv'
<1>1. PICK k \in Rows("schedule") :
         /\ row' = [row EXCEPT ![k].retired = ~@]
         /\ shown' = Overlaid(shown, Only(k, row'[k]))
  BY DEF SetLifecycle
<1>2. UNCHANGED <<retained, request, clock, aborted, event, catalog>>
  BY DEF SetLifecycle
<1>3. k \in DOMAIN row /\ k[1] = "schedule" /\ row[k] \in ScheduleRow /\ IsMenu(row)
      /\ k \in {"schedule"} \X Schedule
  <2>1. k \in DOMAIN row /\ k[1] = "schedule"
    BY DEF Rows
  <2>2. IsMenu(row)
    BY DEF IInv, TypeOK
  <2>3. k[2] \in Schedule /\ k = S(k[2]) /\ row[k] \in ScheduleRow
    BY <2>1, <2>2, RowTypes
  <2>4. QED
    BY <2>1, <2>2, <2>3 DEF S
<1> DEFINE r == [row[k] EXCEPT !.retired = ~@]
<1>4. /\ r \in ScheduleRow
      /\ \A x \in {"version", "consumption", "mode", "scale"} : r[x] = row[k][x]
  BY <1>3 DEF ScheduleRow
<1>5. /\ DOMAIN row' = DOMAIN row /\ row'[k] = r
      /\ \A j \in DOMAIN row : j # k => row'[j] = row[j]
  BY <1>1, <1>3
<1> HIDE DEF r
<1>6. TypeOK'
  <2>1. ASSUME NEW j \in DOMAIN row'
        PROVE  IsRow(j, row'[j])
    <3>1. CASE j = k
      BY <1>3, <1>4, <1>5, <3>1 DEF IsRow
    <3>2. CASE j # k
      BY <1>3, <1>5, <3>2 DEF IsMenu
    <3>3. QED
      BY <3>1, <3>2
  <2>2. QED
    BY <1>2, <2>1 DEF IInv, TypeOK, IsMenu
<1>7. \A j \in DOMAIN row : j[1] = "override" => row'[j] = row[j]
  BY <1>3, <1>5
<1>8. ReplacedOnce(row')
  BY <1>5, <1>7 DEF IInv, ReplacedOnce
<1>9. /\ Applied' = Applied
      /\ Scheduled' = Scheduled
      /\ \A s : AppliedOf("update", s)' = AppliedOf("update", s)
  BY <1>2, <1>5 DEF Applied, Scheduled, Rows, AppliedOf
<1>10. Shaped' /\ ClocksRemember'
  <2>1. \A f : Writes(f)' = Writes(f)
    BY <1>2, <1>9 DEF Writes
  <2>2. QED
    BY <1>2, <1>9, <2>1 DEF IInv, Shaped, ClocksRemember
<1>11. ChoicesHold'
  <2>1. ASSUME NEW s, NEW q, ScaledAs(row, s, q)
        PROVE  ScaledAs(row', s, q)
    <3>1. S(s) \in DOMAIN row /\ S(s) \in DOMAIN row'
      BY <1>5, <2>1 DEF ScaledAs
    <3>2. /\ row'[S(s)].version = row[S(s)].version
          /\ row'[S(s)].consumption = row[S(s)].consumption
          /\ row'[S(s)].mode = row[S(s)].mode /\ row'[S(s)].scale = row[S(s)].scale
      BY <1>4, <1>5, <3>1
    <3>3. QED
      BY <2>1, <3>1, <3>2 DEF ScaledAs
  <2>2. ASSUME NEW s, NEW how, NEW x, NEW q, ChosenAs(row, s, how, x, q)
        PROVE  ChosenAs(row', s, how, x, q)
    <3>1. Slots(row', s, how, x) = Slots(row, s, how, x)
      BY <1>5, <1>7 DEF Slots
    <3>2. \A j \in Slots(row, s, how, x) : row'[j] = row[j]
      BY <1>7 DEF Slots
    <3>3. QED
      BY <2>2, <3>1, <3>2 DEF ChosenAs
  <2>3. QED
    BY <1>2, <1>9, <2>1, <2>2 DEF IInv, ChoicesHold, LastOf
<1>12. FeedCarriesMenu'
  <2>1. /\ DOMAIN shown' = DOMAIN shown \cup {k} /\ shown'[k] = row'[k]
        /\ \A j \in DOMAIN shown : j # k => shown'[j] = shown[j]
    BY <1>1 DEF Overlaid, Only
  <2>2. QED
    BY <1>5, <2>1 DEF IInv, FeedCarriesMenu, Shown
<1>13. QED
  BY <1>6, <1>8, <1>10, <1>11, <1>12 DEF IInv

LEMMA OthersStep ==
    ASSUME IInv, Others, UNCHANGED scene
    PROVE  IInv'
<1>1. /\ catalog \in Catalog /\ event \in [active : BOOLEAN, places : SUBSET Place]
      /\ retained \in [Command -> Outcome \cup {"none"}] /\ aborted \subseteq Command
  BY DEF IInv, TypeOK
<1>2. ASSUME UNCHANGED <<logVars, row>>, catalog' \in Catalog,
             event' \in [active : BOOLEAN, places : SUBSET Place]
      PROVE  IInv'
  <2>1. Applied' = Applied
    BY <1>2 DEF logVars, Applied
  <2>2. QED
    BY <1>1, <1>2, <2>1, QuietStep DEF logVars
<1>3. CASE PublishRecipe
  <2>1. PICK v \in DOMAIN Versions \ catalog.published :
           catalog' = [catalog EXCEPT
             !.published = @ \cup {v},
             !.offered = {x \in @ : Versions[x].recipe # Versions[v].recipe} \cup {v}]
    BY <1>3 DEF PublishRecipe
  <2>2. catalog' \in Catalog
    BY <1>1, <2>1 DEF Catalog
  <2>3. QED
    BY <1>1, <1>2, <1>3, <2>2 DEF PublishRecipe
<1>4. CASE PublishIngredient
  <2>1. PICK v \in IngredientVersion \ catalog.known :
           catalog' = [catalog EXCEPT !.known = @ \cup {v},
                                      !.sold = {x \in @ : x[1] # v[1]} \cup {v}]
    BY <1>4 DEF PublishIngredient
  <2>2. catalog' \in Catalog
    BY <1>1, <2>1 DEF Catalog
  <2>3. QED
    BY <1>1, <1>2, <1>4, <2>2 DEF PublishIngredient
<1>5. CASE RetireReferences
  <2>1. catalog' \in Catalog /\ event' \in [active : BOOLEAN, places : SUBSET Place]
    <3>1. CASE \E v : catalog' = [catalog EXCEPT !.offered = @ \ {v}] /\ UNCHANGED event
      BY <1>1, <3>1 DEF Catalog
    <3>2. CASE \E v : catalog' = [catalog EXCEPT !.sold = @ \ {v}] /\ UNCHANGED event
      BY <1>1, <3>2 DEF Catalog
    <3>3. CASE \E p : event' = [event EXCEPT !.places = @ \ {p}] /\ UNCHANGED catalog
      BY <1>1, <3>3
    <3>4. QED
      BY <1>5, <3>1, <3>2, <3>3 DEF RetireReferences
  <2>2. QED
    BY <1>2, <1>5, <2>1 DEF RetireReferences
<1>6. CASE PublishEstimate
  <2>1. PICK i \in Ingredient : catalog.estimate[i] < Newest
                                /\ catalog' = [catalog EXCEPT !.estimate[i] = @ + 1]
    BY <1>6 DEF PublishEstimate
  <2>2. catalog.estimate[i] + 1 \in 0 .. Newest
    BY <1>1, <2>1, ScaleAssumption DEF Catalog
  <2>3. catalog' \in Catalog
    BY <1>1, <2>1, <2>2 DEF Catalog
  <2>4. QED
    BY <1>1, <1>2, <1>6, <2>3 DEF PublishEstimate
<1>7. CASE Archive
  <2>1. event' \in [active : BOOLEAN, places : SUBSET Place]
    BY <1>1, <1>7 DEF Archive
  <2>2. QED
    BY <1>1, <1>2, <1>7, <2>1 DEF Archive
<1>8. CASE SetLifecycle
  BY <1>8, LifecycleStep
<1>9. QED
  BY <1>3, <1>4, <1>5, <1>6, <1>7, <1>8 DEF Others

-----------------------------------------------------------------------------
(* The invariant. *)

LEMMA InitialState == Init => IInv
<1> SUFFICES ASSUME Init PROVE IInv
  OBVIOUS
<1>1. PICK s \in Scenarios :
         scene = s.scene /\ catalog = s.catalog /\ row = s.row /\ shown = s.row
  BY DEF Init
<1>2. /\ s.scene.commands \subseteq Command /\ s.catalog \in Catalog
      /\ IsMenu(s.row) /\ ReplacedOnce(s.row)
  BY ScenariosAssumption
<1>3. /\ retained \in [Command -> Outcome \cup {"none"}]
      /\ \A c \in Command : retained[c] = "none"
      /\ DOMAIN request = Command /\ clock = << >> /\ aborted = {}
      /\ event \in [active : BOOLEAN, places : SUBSET Place]
  BY DEF Init
<1>4. Applied = {} /\ DOMAIN clock = {}
  BY <1>3 DEF Applied
<1>5. TypeOK
  BY <1>1, <1>2, <1>3, <1>4 DEF TypeOK
<1>6. Shaped /\ ReplacedOnce(row)
  BY <1>1, <1>2, <1>3, <1>4 DEF Shaped
<1>7. ClocksRemember
  BY <1>4 DEF ClocksRemember, Remembers, Writes
<1>8. ChoicesHold
  BY <1>4 DEF ChoicesHold
<1>9. FeedCarriesMenu
  BY <1>1 DEF FeedCarriesMenu, Shown
<1>10. QED
  BY <1>5, <1>6, <1>7, <1>8, <1>9 DEF IInv

LEMMA InductiveStep ==
    ASSUME IInv, [Next]_vars
    PROVE  IInv'
<1>1. ASSUME NEW c \in scene.commands, Fresh(c), Perform(c), UNCHANGED <<event, catalog, scene>>
      PROVE  IInv'
  <2>1. c \in Command
    BY DEF IInv, Shaped
  <2>2. ASSUME NEW q, SetOverride(c, q), q \in ReplaceRequests \cup AddRequests \cup ClearRequests
        PROVE  IInv'
    BY <1>1, <2>1, <2>2, OverrideStep DEF OverrideRequests
  <2>3. ASSUME NEW kind, NEW requests
        PROVE  Asked(kind, requests) \subseteq requests
    BY DEF Asked
  <2>4. CASE \E q \in ScheduleRequests : ScheduleRecipe(c, q)
    BY <1>1, <2>1, <2>4, ScheduleStep
  <2>5. CASE \E q \in ContextRequests : SetContext(c, q)
    BY <1>1, <2>1, <2>5, ContextStep
  <2>6. CASE \E q \in UpdateRequests : UpdateCatalog(c, q)
    BY <1>1, <2>1, <2>6, UpdateStep
  <2>7. CASE \E q \in RefreshRequests : RefreshPrices(c, q)
    BY <1>1, <2>1, <2>7, RefreshStep
  <2>8. CASE \E q \in ReplaceRequests \cup AddRequests \cup ClearRequests : SetOverride(c, q)
    BY <2>2, <2>8
  <2>9. QED
    BY <1>1, <2>3, <2>4, <2>5, <2>6, <2>7, <2>8 DEF Perform
<1>2. ASSUME NEW c \in scene.commands, Malformed(c) \/ Retry(c),
             UNCHANGED <<event, catalog, row, scene>>
      PROVE  IInv'
  <2>1. c \in Command
    BY DEF IInv, Shaped
  <2>2. CASE Malformed(c)
    BY <1>2, <2>1, <2>2, RefusedStep DEF Malformed
  <2>3. CASE UNCHANGED logVars
    <3>1. /\ Applied' = Applied /\ retained' \in [Command -> Outcome \cup {"none"}]
          /\ aborted' \subseteq Command /\ catalog \in Catalog
          /\ event \in [active : BOOLEAN, places : SUBSET Place]
      BY <2>3 DEF logVars, Applied, IInv, TypeOK
    <3>2. QED
      BY <1>2, <2>3, <3>1, QuietStep DEF logVars
  <2>4. QED
    BY <1>2, <2>2, <2>3 DEF Retry
<1>3. CASE UNCHANGED vars
  <2>1. /\ Applied' = Applied /\ retained' \in [Command -> Outcome \cup {"none"}]
        /\ aborted' \subseteq Command /\ catalog' \in Catalog
        /\ event' \in [active : BOOLEAN, places : SUBSET Place]
    BY <1>3 DEF vars, logVars, Applied, IInv, TypeOK
  <2>2. QED
    BY <1>3, <2>1, QuietStep DEF vars, logVars
<1>4. CASE Others /\ UNCHANGED scene
  BY <1>4, OthersStep
<1>5. QED
  BY <1>1, <1>2, <1>3, <1>4 DEF Next

LEMMA Induction == Spec => []IInv
  BY InitialState, InductiveStep, PTL DEF Spec
-----------------------------------------------------------------------------
(* The theorems. *)

(* Every row, clock and outcome has its type, whatever clients send: a choice    *)
(* that is refused or broken leaves no half-made row.                        *)
THEOREM MenuTypes == Spec => []TypeOK
<1>1. IInv => TypeOK
  BY DEF IInv
<1>2. QED
  BY <1>1, Induction, PTL

(* Whoever replays the change feed has the menu, the retired and turned overrides *)
(* and the prices included.                                                  *)
THEOREM MenuCarried == Spec => []FeedCarriesMenu
<1>1. IInv => FeedCarriesMenu
  BY DEF IInv
<1>2. QED
  BY <1>1, Induction, PTL

LEMMA LatestValues == ASSUME IInv PROVE LatestChoiceHolds
<1>1. ASSUME NEW f, Remembers(clock, request, f, Writes(f)), Writes(f) # {}
      PROVE  f \in DOMAIN clock /\ Latest(Writes(f)) = clock[f][2]
  <2>1. Writes(f) \subseteq Command /\ \A c \in Writes(f) : request[c].time \in Nat
    BY DEF IInv, Shaped, Asks, Writes, Applied
  <2>2. QED
    BY <1>1, <2>1, LatestIs DEF Remembers
<1>2. ASSUME NEW s \in Scheduled, AppliedOf("update", s) = {}, AppliedOf("context", s) # {}
      PROVE  LET q == request[Latest(AppliedOf("context", s))]
             IN  /\ row[S(s)].consumption = q.consumption /\ row[S(s)].mode = q.op
                 /\ row[S(s)].scale = IF q.op = "manual" THEN q.amount
                                      ELSE Suggested(Pinned(s), q.consumption)
  <2> DEFINE f == ContextField(s)
  <2>1. AppliedOf("context", s) = Writes(f)
    BY FieldsDiffer DEF AppliedOf, Writes, AimsAt
  <2>2. s \in Schedule
    BY ScheduledTypes
  <2>3. f \in DOMAIN clock /\ Latest(Writes(f)) = clock[f][2]
    BY <1>1, <1>2, <2>1, <2>2 DEF IInv, ClocksRemember
  <2>4. ScaledAs(row, s, LastOf(f))
    BY <1>2, <2>2, <2>3 DEF IInv, ChoicesHold
  <2>5. QED
    BY <2>1, <2>3, <2>4 DEF ScaledAs, LastOf, Pinned
<1>3. ASSUME NEW s \in Scheduled, AppliedOf("update", s) = {}, NEW c \in AppliedOf("override", s)
      PROVE  LET writes == {d \in AppliedOf("override", s) :
                              Choice(request[d]) = Choice(request[c])}
                 q == request[Latest(writes)]
             IN  {row[k].quantity : k \in RowOf(q) \cap ActiveOf(s)}
                   = IF q.op = "clear" THEN {} ELSE {q.quantity}
  <2> DEFINE r == request[c]
             how == r.how
             x == Aim(r)
             f == ChoiceField(s, how, x)
             writes == {d \in AppliedOf("override", s) : Choice(request[d]) = Choice(r)}
             q == request[Latest(writes)]
  <2>1. s \in Schedule /\ how \in How /\ x \in What /\ r.schedule = s
    BY ScheduledTypes DEF AppliedOf, IInv, Shaped, Asks
  <2>2. Choice(r) = f
    BY <2>1, ChoiceIs
  <2>3. writes = Writes(f)
    <3>1. ASSUME NEW d \in writes
          PROVE  d \in Writes(f)
      <4>1. request[d].kind = "override" /\ d \in Applied /\ Choice(request[d]) = f
        BY <2>2 DEF AppliedOf
      <4>2. QED
        BY <4>1, ChoiceIs DEF Writes, AimsAt
    <3>2. ASSUME NEW d \in Writes(f)
          PROVE  d \in writes
      <4>1. /\ d \in Applied /\ request[d].kind = "override"
            /\ f = ChoiceField(request[d].schedule, request[d].how, Aim(request[d]))
        BY FieldsDiffer DEF Writes, AimsAt
      <4>2. request[d].schedule = s /\ Choice(request[d]) = f
        BY <4>1, FieldsDiffer, ChoiceIs
      <4>3. QED
        BY <2>2, <4>1, <4>2 DEF AppliedOf
    <3>3. QED
      BY <3>1, <3>2
  <2>4. c \in writes
    BY <1>3
  <2> HIDE DEF r, how, x, writes
  <2>5. /\ f \in DOMAIN clock /\ Latest(writes) = clock[f][2] /\ clock[f][2] \in writes
    BY <1>1, <2>1, <2>3, <2>4 DEF IInv, ClocksRemember, Remembers
  <2>6. ChosenAs(row, s, how, x, q)
    BY <1>3, <2>1, <2>5 DEF IInv, ChoicesHold, LastOf
  <2>7. /\ Choice(q) = f
        /\ RowOf(q) = Slots(row, q.schedule, q.how, Aim(q))
        /\ Choice(q) = ChoiceField(q.schedule, q.how, Aim(q))
    BY <2>2, <2>5, ChoiceIs DEF writes
  <2>8. RowOf(q) = Slots(row, s, how, x)
    <3>1. ChoiceField(q.schedule, q.how, Aim(q)) = ChoiceField(s, how, x)
      BY <2>7
    <3>2. q.schedule = s /\ q.how = how /\ Aim(q) = x
      BY <3>1, FieldsDiffer
    <3>3. QED
      BY <2>7, <3>2
  <2>9. CASE q.op = "clear"
    <3>1. \A k \in RowOf(q) : row[k].retired
      BY <2>6, <2>8, <2>9 DEF ChosenAs
    <3>2. RowOf(q) \cap ActiveOf(s) = {}
      BY <3>1 DEF ActiveOf
    <3>3. QED
      BY <2>9, <3>2 DEF writes, r
  <2>10. CASE q.op # "clear"
    <3>1. RowOf(q) # {} /\ \A k \in RowOf(q) : ~row[k].retired /\ row[k].quantity = q.quantity
      BY <2>6, <2>8, <2>10 DEF ChosenAs
    <3>2. \A k \in RowOf(q) : k \in ActiveOf(s)
      BY <2>8, <3>1 DEF ActiveOf, OverridesOf, Rows, Slots
    <3>3. {row[k].quantity : k \in RowOf(q) \cap ActiveOf(s)} = {q.quantity}
      BY <3>1, <3>2
    <3>4. QED
      BY <2>10, <3>3 DEF writes, r
  <2>11. QED
    BY <2>9, <2>10
<1>4. QED
  BY <1>2, <1>3 DEF LatestChoiceHolds

(* The scale chosen last holds, and so does what was last chosen for each line    *)
(* and each addition, in whatever order the commands of the devices arrive.   *)
THEOREM LatestChoices == Spec => []LatestChoiceHolds
  BY Induction, LatestValues, PTL

-----------------------------------------------------------------------------
(* What single steps do. *)

Answers(c) == retained[c] = "none" /\ retained'[c] \in {"accepted", "partially_superseded"}

(* A command that is answered as applied is one that was performed. *)
LEMMA AppliedIsPerformed ==
    ASSUME IInv, [Next]_vars, NEW c \in Command, Answers(c)
    PROVE  Fresh(c) /\ Perform(c) /\ UNCHANGED <<event, catalog, scene>>
<1>1. retained \in [Command -> Outcome \cup {"none"}] /\ scene.commands \subseteq Command
  BY DEF IInv, TypeOK, Shaped
<1>2. retained' # retained
  BY DEF Answers
<1>3. ~(Others /\ UNCHANGED scene) /\ ~UNCHANGED vars
  BY <1>2 DEF Others, PublishRecipe, PublishIngredient, RetireReferences, PublishEstimate,
              Archive, SetLifecycle, vars, logVars
<1>4. ASSUME NEW d \in scene.commands, Malformed(d) \/ Retry(d)
      PROVE  FALSE
  <2>1. CASE UNCHANGED logVars
    BY <1>2, <2>1 DEF logVars
  <2>2. CASE Malformed(d)
    BY <1>1, <2>2 DEF Malformed, Reject, Answers
  <2>3. QED
    BY <1>4, <2>1, <2>2 DEF Retry
<1>5. PICK d \in scene.commands : Fresh(d) /\ Perform(d) /\ UNCHANGED <<event, catalog, scene>>
  BY <1>3, <1>4 DEF Next
<1>6. retained'[c] # retained[c]
  BY DEF Answers
<1>7. \E outcome : retained' = [retained EXCEPT ![d] = outcome]
  <2>1. Reject(d) => \E outcome : retained' = [retained EXCEPT ![d] = outcome]
    BY DEF Reject
  <2>2. \A q, outcome, won, records : Conclude(d, q, outcome, won, records) =>
           retained' = [retained EXCEPT ![d] = outcome]
    BY DEF Conclude
  <2>3. Abort(d) => FALSE
    BY <1>2 DEF Abort
  <2>4. \/ Reject(d) \/ Abort(d)
        \/ \E q, outcome, won, records : Conclude(d, q, outcome, won, records)
    BY <1>5 DEF Perform, ScheduleRecipe, SetOverride, SetContext, UpdateCatalog, RefreshPrices,
                Refuse, Break, Commit
  <2>5. QED
    BY <2>1, <2>2, <2>3, <2>4
<1>8. d = c
  BY <1>1, <1>6, <1>7
<1>9. QED
  BY <1>5, <1>8

(* Which request an applied command made. *)
LEMMA PerformedAs ==
    ASSUME IInv, [Next]_vars, NEW c \in Command, Answers(c)
    PROVE  /\ request'[c].kind = "refresh" =>
                 /\ request'[c] \in RefreshRequests /\ RefreshPrices(c, request'[c])
                 /\ row' = Overlaid(row, CaptureAgain({k[2] : k \in Rows("price")} \cup Resolved))
           /\ request'[c].kind = "update" =>
                 /\ request'[c] \in UpdateRequests
                 /\ row' = Overlaid(row, UpdatedRows(request'[c]))
<1>1. Fresh(c) /\ Perform(c) /\ DOMAIN request = Command
  BY AppliedIsPerformed DEF IInv, Shaped
<1>2. retained \in [Command -> Outcome \cup {"none"}]
  BY DEF IInv, TypeOK
<1>3. ~Reject(c) /\ ~Abort(c)
  BY <1>2 DEF Reject, Abort, Answers
<1>4. \A q, outcome, rows, told, won : Commit(c, q, outcome, rows, told, won) =>
         request'[c] = q /\ row' = Overlaid(row, rows)
  BY <1>1 DEF Commit, Conclude
<1>5. ASSUME NEW kind, NEW requests
      PROVE  Asked(kind, requests) \subseteq requests
  BY DEF Asked
<1>6. CASE \E q \in ScheduleRequests : ScheduleRecipe(c, q)
  <2>1. PICK q \in ScheduleRequests : ScheduleRecipe(c, q)
    BY <1>6
  <2>2. request'[c] = q /\ q.kind = "schedule"
    BY <1>3, <1>4, <2>1 DEF ScheduleRecipe, Refuse, ScheduleRequests
  <2>3. QED
    BY <2>2
<1>7. CASE \E q \in ContextRequests : SetContext(c, q)
  <2>1. PICK q \in ContextRequests : SetContext(c, q)
    BY <1>7
  <2>2. request'[c] = q /\ q.kind = "context"
    BY <1>3, <1>4, <2>1 DEF SetContext, Refuse, ContextRequests
  <2>3. QED
    BY <2>2
<1>8. CASE \E q \in ReplaceRequests \cup AddRequests \cup ClearRequests : SetOverride(c, q)
  <2>1. PICK q \in OverrideRequests : SetOverride(c, q)
    BY <1>8 DEF OverrideRequests
  <2>2. request'[c] = q
    BY <1>3, <1>4, <2>1 DEF SetOverride, Refuse, Break
  <2>3. q.kind = "override"
    BY OverrideRequestTypes
  <2>4. QED
    BY <2>2, <2>3
<1>9. CASE \E q \in UpdateRequests : UpdateCatalog(c, q)
  <2>1. PICK q \in UpdateRequests : UpdateCatalog(c, q)
    BY <1>9
  <2>2. Commit(c, q, "accepted", UpdatedRows(q), ToldByUpdate(q), UpdateClocks(q))
    BY <1>3, <2>1 DEF UpdateCatalog, Refuse, Break, UpdatedRows
  <2>3. request'[c] = q /\ row' = Overlaid(row, UpdatedRows(q)) /\ q.kind = "update"
    BY <1>4, <2>2, UpdateRequestTypes
  <2>4. QED
    BY <2>3
<1>10. CASE \E q \in RefreshRequests : RefreshPrices(c, q)
  <2>1. PICK q \in RefreshRequests : RefreshPrices(c, q)
    BY <1>10
  <2> DEFINE prices == CaptureAgain({k[2] : k \in Rows("price")} \cup Resolved)
  <2>2. Commit(c, q, "accepted", prices, DOMAIN prices, {})
    BY <1>3, <2>1 DEF RefreshPrices, Refuse
  <2>3. request'[c] = q /\ row' = Overlaid(row, prices) /\ q.kind = "refresh"
    BY <1>4, <2>2 DEF RefreshRequests
  <2>4. QED
    BY <2>1, <2>3
<1>11. QED
  BY <1>1, <1>5, <1>6, <1>7, <1>8, <1>9, <1>10 DEF Perform
-----------------------------------------------------------------------------
(* Prices move by a refresh alone, and a refresh reaches every ingredient in use. *)

LEMMA PriceStep ==
    ASSUME IInv, [Next]_vars, NEW k \in Rows("price"), row'[k] # row[k]
    PROVE  \E c \in Command : Becomes(c, "refresh")
<1>1. k \in DOMAIN row /\ k[1] = "price"
  BY DEF Rows
<1>2. row' # row
  OBVIOUS
<1>3. ASSUME NEW rows, row' = Overlaid(row, rows), k \notin DOMAIN rows
      PROVE  FALSE
  BY <1>1, <1>3 DEF Overlaid
<1>4. ASSUME NEW is \in SUBSET Ingredient, NEW j, NEW r, j[1] # "price",
             row' = Overlaid(row, Overlaid(Only(j, r), Captures(is)))
      PROVE  FALSE
  <2>1. k \notin DOMAIN Captures(is) /\ k # j
    BY <1>1, <1>4, CapturesAre
  <2>2. k \notin DOMAIN Overlaid(Only(j, r), Captures(is))
    BY <2>1 DEF Overlaid, Only
  <2>3. QED
    BY <1>3, <1>4, <2>2
<1>5. ~(Others /\ UNCHANGED scene) /\ ~UNCHANGED vars
  <2>1. ASSUME SetLifecycle
        PROVE  FALSE
    <3>1. PICK j \in Rows("schedule") : row' = [row EXCEPT ![j].retired = ~@]
      BY <2>1 DEF SetLifecycle
    <3>2. j # k
      BY <1>1 DEF Rows
    <3>3. QED
      BY <1>1, <3>1, <3>2
  <2>2. QED
    BY <1>2, <2>1 DEF Others, PublishRecipe, PublishIngredient, RetireReferences,
                      PublishEstimate, Archive, vars
<1>6. PICK c \in scene.commands : Fresh(c) /\ Perform(c) /\ UNCHANGED <<event, catalog, scene>>
  BY <1>2, <1>5 DEF Next
<1>7. c \in Command /\ retained \in [Command -> Outcome \cup {"none"}] /\ DOMAIN request = Command
  BY DEF IInv, TypeOK, Shaped
<1>8. ~Refuse(c) /\ ~Break(c)
  BY <1>2 DEF Refuse, Break
<1>9. ASSUME NEW kind, NEW requests
      PROVE  Asked(kind, requests) \subseteq requests
  BY DEF Asked
<1>10. ASSUME NEW q \in ScheduleRequests, ScheduleRecipe(c, q)
       PROVE  FALSE
  <2> DEFINE version == Versions[q.version]
             scale == Suggested(version, q.consumption)
             is == NonzeroIngredients(version, scale)
  <2>1. \E r : row' = Overlaid(row, Overlaid(Only(S(q.schedule), r), Captures(is)))
    BY <1>8, <1>10 DEF ScheduleRecipe, Commit
  <2>2. IsVersion(version)
    BY VersionsAssumption DEF ScheduleRequests, IInv, TypeOK, Catalog
  <2>3. is \in SUBSET Ingredient
    BY <2>2 DEF NonzeroIngredients, IsVersion, IsLine, IngredientVersion
  <2>4. QED
    BY <1>4, <2>1, <2>3, KeysAre
<1>11. ASSUME NEW q \in OverrideRequests, SetOverride(c, q)
       PROVE  FALSE
  <2> DEFINE new == Chosen(q)
             first == IF ~new.retired /\ new.quantity > 0 /\ Previous(q) = 0
                      THEN {new.ingredient[1]} ELSE {}
             wins == Wins(Choice(q), StampOf(c, q))
             rows == Overlaid(Only(Target(q), new), Captures(first))
  <2>1. ~OverrideRefused(q) /\ ~OverrideBreaks(q, wins)
    BY <1>8, <1>11 DEF SetOverride
  <2>2. CASE wins /\ row' = Overlaid(row, rows)
    <3>1. OverrideBreaks(q, TRUE) = OverrideBreaks(q, wins)
      BY <2>2 DEF OverrideBreaks
    <3>2. Target(q)[1] = "override" /\ new.ingredient[1] \in Ingredient
      BY <2>1, <3>1, ChosenIs
    <3>3. first \in SUBSET Ingredient
      BY <3>2
    <3>4. QED
      BY <1>4, <2>2, <3>2, <3>3
  <2>3. CASE row' = Overlaid(row, << >>)
    BY <1>3, <2>3
  <2>4. QED
    BY <1>8, <1>11, <2>2, <2>3 DEF SetOverride, Commit, Target
<1>12. ASSUME NEW q, SetContext(c, q)
       PROVE  FALSE
  <2>1. CASE \E r : row' = Overlaid(row, Only(S(q.schedule), r))
    <3>1. PICK r : row' = Overlaid(row, Only(S(q.schedule), r))
      BY <2>1
    <3>2. k # S(q.schedule)
      BY <1>1, KeysAre
    <3>3. QED
      BY <1>3, <3>1, <3>2 DEF Only
  <2>2. CASE row' = Overlaid(row, << >>)
    BY <1>3, <2>2
  <2>3. QED
    BY <1>8, <1>12, <2>1, <2>2 DEF SetContext, Commit
<1>13. ASSUME NEW q \in UpdateRequests, UpdateCatalog(c, q)
       PROVE  FALSE
  <2>1. row' = Overlaid(row, UpdatedRows(q))
    BY <1>8, <1>13 DEF UpdateCatalog, Commit, UpdatedRows
  <2>2. k \notin DOMAIN UpdatedRows(q)
    BY <1>1, UpdatedRowsAre
  <2>3. QED
    BY <1>3, <2>1, <2>2
<1>14. PICK q \in RefreshRequests : RefreshPrices(c, q)
  BY <1>6, <1>9, <1>10, <1>11, <1>12, <1>13 DEF Perform, OverrideRequests
<1>15. /\ retained'[c] = "accepted" /\ request'[c] = q /\ q.kind = "refresh"
  BY <1>7, <1>8, <1>14 DEF RefreshPrices, Commit, Conclude, RefreshRequests
<1>16. QED
  BY <1>6, <1>7, <1>15 DEF Becomes, Fresh

(* A price moves by no command but a refresh: what the catalog publishes, what     *)
(* members choose and another use of the ingredient leave it as captured.      *)
THEOREM PricesKept == Spec => PriceMovesOnlyByRefresh
<1>1. IInv /\ [Next]_vars =>
         [(\E k \in Rows("price") : row'[k] # row[k])
            => \E c \in Command : Becomes(c, "refresh")]_vars
  BY PriceStep
<1>2. QED
  BY <1>1, Induction, PTL DEF Spec, PriceMovesOnlyByRefresh

LEMMA CookedIsResolved ==
    ASSUME IInv, NEW i, CooksWith(i)
    PROVE  i \in Resolved
<1>1. PICK s \in Scheduled :
        /\ Live(S(s))
        /\ \/ \E l \in DOMAIN Pinned(s).lines :
                /\ Pinned(s).lines[l].ingredient[1] = i
                /\ IF \E k \in ActiveOf(s) : row[k].how = "replace" /\ row[k].line = l
                   THEN \E k \in ActiveOf(s) : row[k].line = l /\ row[k].quantity > 0
                   ELSE LineQuantity(Pinned(s).lines[l], row[S(s)].scale) > 0
           \/ \E k \in ActiveOf(s) : /\ row[k].how = "add" /\ row[k].ingredient[1] = i
                                     /\ row[k].quantity > 0
  BY DEF CooksWith
<1> DEFINE used == {l \in DOMAIN Pinned(s).lines :
                      IF Replacing(s, l) = {}
                      THEN LineQuantity(Pinned(s).lines[l], row[S(s)].scale) > 0
                      ELSE \E k \in Replacing(s, l) : row[k].quantity > 0}
           added == {k \in ActiveOf(s) : row[k].how = "add" /\ row[k].quantity > 0}
           here == {Pinned(s).lines[l].ingredient[1] : l \in used}
                     \cup {row[k].ingredient[1] : k \in added}
<1>2. here \subseteq Resolved
  BY <1>1 DEF Resolved
<1>3. CASE \E l \in DOMAIN Pinned(s).lines :
             /\ Pinned(s).lines[l].ingredient[1] = i
             /\ IF \E k \in ActiveOf(s) : row[k].how = "replace" /\ row[k].line = l
                THEN \E k \in ActiveOf(s) : row[k].line = l /\ row[k].quantity > 0
                ELSE LineQuantity(Pinned(s).lines[l], row[S(s)].scale) > 0
  <2>1. PICK l \in DOMAIN Pinned(s).lines :
             /\ Pinned(s).lines[l].ingredient[1] = i
             /\ IF \E k \in ActiveOf(s) : row[k].how = "replace" /\ row[k].line = l
                THEN \E k \in ActiveOf(s) : row[k].line = l /\ row[k].quantity > 0
                ELSE LineQuantity(Pinned(s).lines[l], row[S(s)].scale) > 0
    BY <1>3
  <2>2. l \in Line
    BY ScheduledTypes DEF IsVersion
  <2>3. ASSUME NEW k \in ActiveOf(s), row[k].line = l
        PROVE  k \in Replacing(s, l)
    <3>1. k \in DOMAIN row /\ k[1] = "override"
      BY DEF ActiveOf, OverridesOf, Rows
    <3>2. IsOverride(row[k])
      BY <3>1, RowTypes DEF IInv, TypeOK
    <3>3. row[k].how = "replace"
      BY <2>2, <2>3, <3>2, NoneAssumption DEF IsOverride, OverrideRow
    <3>4. QED
      BY <2>3, <3>3 DEF Replacing
  <2>4. l \in used
    BY <2>1, <2>3 DEF Replacing
  <2>5. QED
    BY <1>2, <2>1, <2>4
<1>4. CASE \E k \in ActiveOf(s) : /\ row[k].how = "add" /\ row[k].ingredient[1] = i
                                  /\ row[k].quantity > 0
  BY <1>2, <1>4
<1>5. QED
  BY <1>1, <1>3, <1>4

LEMMA RefreshReaches ==
    ASSUME IInv, [Next]_vars, NEW c \in Command, Becomes(c, "refresh"), NEW i \in Ingredient,
           CooksWith(i) \/ Has(P(i))
    PROVE  P(i) \in DOMAIN row' /\ Last(row'[P(i)]) = catalog.estimate[i]
<1> DEFINE targets == {k[2] : k \in Rows("price")} \cup Resolved
           prices == CaptureAgain(targets)
<1>1. row' = Overlaid(row, prices)
  BY PerformedAs DEF Becomes, Answers
<1>2. i \in targets
  <2>1. CASE CooksWith(i)
    BY <2>1, CookedIsResolved
  <2>2. CASE Has(P(i))
    <3>1. P(i) \in Rows("price") /\ P(i)[2] = i
      BY <2>2, KeysAre DEF Has, Rows
    <3>2. QED
      BY <3>1
  <2>3. QED
    BY <2>1, <2>2
<1>3. targets \in SUBSET Ingredient
  BY ResolvedTypes
<1> HIDE DEF targets
<1>4. DOMAIN prices = {P(j) : j \in targets} /\ Last(prices[P(i)]) = catalog.estimate[i]
  BY <1>2, <1>3, CapturesAgainAre
<1> HIDE DEF prices
<1>5. P(i) \in DOMAIN prices
  BY <1>2, <1>4
<1>6. QED
  BY <1>1, <1>4, <1>5 DEF Overlaid

(* After a refresh every ingredient that the event cooks with has a price, and     *)
(* every price is at the estimate of the moment.                            *)
THEOREM RefreshCovers == Spec => RefreshCoversTheMenu
<1>1. IInv /\ [Next]_vars =>
         [\A c \in Command : Becomes(c, "refresh") =>
            \A i \in Ingredient :
               CooksWith(i) \/ Has(P(i)) =>
                  P(i) \in DOMAIN row' /\ Last(row'[P(i)]) = catalog.estimate[i]]_vars
  BY RefreshReaches
<1>2. QED
  BY <1>1, Induction, PTL DEF Spec, RefreshCoversTheMenu

-----------------------------------------------------------------------------
(* What an update keeps. *)

LEMMA UpdateKeeps ==
    ASSUME IInv, [Next]_vars, NEW c \in Command, Becomes(c, "update")
    PROVE  LET q == request'[c]
           IN  /\ \A k \in ActiveOf(q.schedule) :
                     IF q.preserve
                     THEN /\ ~row'[k].retired /\ row'[k].quantity = row[k].quantity
                          /\ row'[k].ingredient = row[k].ingredient
                     ELSE row'[k].retired
               /\ row'[S(q.schedule)].mode = "manual" =>
                     Versions[q.target].unit = Pinned(q.schedule).unit
<1> DEFINE q == request'[c]
<1>1. q \in UpdateRequests /\ row' = Overlaid(row, UpdatedRows(q))
  BY PerformedAs DEF Becomes, Answers
<1> HIDE DEF q
<1>2. ASSUME NEW k \in ActiveOf(q.schedule)
      PROVE  IF q.preserve
             THEN /\ ~row'[k].retired /\ row'[k].quantity = row[k].quantity
                  /\ row'[k].ingredient = row[k].ingredient
             ELSE row'[k].retired
  <2>1. /\ IsOverride(row[k]) /\ k \in DOMAIN UpdatedRows(q)
        /\ UpdatedRows(q)[k] = Carried(row[k], q)
    BY <1>1, UpdatedRowsAre
  <2>2. row'[k] = Carried(row[k], q)
    BY <1>1, <2>1 DEF Overlaid
  <2>3. ~row[k].retired
    BY DEF ActiveOf
  <2>4. CASE ~q.preserve
    BY <2>1, <2>2, <2>4 DEF Carried, Retire, IsOverride, OverrideRow
  <2>5. CASE q.preserve
    <3>1. \/ row'[k] = [row[k] EXCEPT !.how = "add", !.line = None]
          \/ row'[k] = row[k]
      BY <2>2, <2>5 DEF Carried
    <3>2. QED
      BY <2>1, <2>3, <2>5, <3>1 DEF IsOverride, OverrideRow
  <2>6. QED
    BY <2>4, <2>5
<1>3. row'[S(q.schedule)].mode = "manual" => Versions[q.target].unit = Pinned(q.schedule).unit
  <2> DEFINE k == S(q.schedule)
  <2>1. k \in DOMAIN UpdatedRows(q) /\ UpdatedRows(q)[k] = Repinned(q)
    BY <1>1, UpdatedRowsAre
  <2>2. row'[k] = Repinned(q)
    BY <1>1, <2>1 DEF Overlaid
  <2>3. row[k] \in ScheduleRow
    BY <1>1, UpdateRequestTypes, ScheduledTypes
  <2>4. ASSUME Pinned(q.schedule).unit # Versions[q.target].unit
        PROVE  Repinned(q).mode = "suggested"
    BY <2>3, <2>4 DEF Repinned, ScheduleRow
  <2>5. QED
    BY <2>2, <2>4
<1>4. QED
  BY <1>2, <1>3 DEF q

(* An update that preserves the overrides keeps each with its quantity and         *)
(* ingredient, one that does not retires them all, and a scale chosen by hand     *)
(* does not outlive its unit.                                               *)
THEOREM UpdatesKeepChoices == Spec => UpdateKeepsChoices
<1>1. IInv /\ [Next]_vars =>
         [\A c \in Command : Becomes(c, "update") =>
            LET q == request'[c]
            IN  /\ \A k \in ActiveOf(q.schedule) :
                      IF q.preserve
                      THEN /\ ~row'[k].retired /\ row'[k].quantity = row[k].quantity
                           /\ row'[k].ingredient = row[k].ingredient
                      ELSE row'[k].retired
                /\ row'[S(q.schedule)].mode = "manual" =>
                      Versions[q.target].unit = Pinned(q.schedule).unit]_vars
  BY UpdateKeeps
<1>2. QED
  BY <1>1, Induction, PTL DEF Spec, UpdateKeepsChoices
=============================================================================
