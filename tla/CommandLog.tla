----------------------------- MODULE CommandLog -----------------------------
(***************************************************************************)
(* What the services that decide a synchronized command have in common.    *)
(* Each runs in one database transaction that locks the organization row   *)
(* and the mutation identity, looks for a retained outcome, and either      *)
(* retains a rejection, or changes rows, moves the clocks of the fields it  *)
(* won, publishes one group of records and retains its outcome.             *)
(*                                                                         *)
(* Commands arrive in any order, each with the wall-clock time at which its *)
(* client recorded it.  CommandService models the answers to retries and the  *)
(* server's moving clock; here a run is short against the 24 hours that a    *)
(* command may lie ahead.                                                   *)
(***************************************************************************)
EXTENDS Integers, FiniteSets

CONSTANTS
    Command,     \* mutation identities; their order is the UUID order
    WallTimes,   \* bound: client wall-clock times of commands
    Horizon      \* the latest wall-clock time the server accepts

ASSUME CommandAssumption == Command \subseteq Nat
ASSUME WallTimesAssumption == WallTimes \subseteq Nat
ASSUME HorizonAssumption == Horizon \in Nat

VARIABLES
    retained,    \* mutations: the outcome of each identity, "none" before
    request,     \* the request of each applied identity
    clock,       \* field_clocks: the winning stamp of each field with a clock
    shown,       \* the last record of each row that the change feed carries
    aborted      \* the commands whose transaction the database has refused

logVars == <<retained, request, clock, shown, aborted>>

NoRequest == [kind |-> "none"]
Outcome == {"accepted", "partially_superseded", "rejected"}
Applied == {c \in Command : retained[c] \in {"accepted", "partially_superseded"}}

(* Stamps order writes by wall-clock time, then by mutation identity. *)
Stamp == Nat \X Nat
StampOf(c, req) == <<req.time, c>>
Later(s, t) == s[1] > t[1] \/ (s[1] = t[1] /\ s[2] > t[2])

(* Bug: a tie is won by the command that arrives last. *)
WinsTies(f, s) == f \in DOMAIN clock => s[1] >= clock[f][1]

(* Without a clock row any write wins; with one, the later stamp. *)
Wins(f, s) == f \in DOMAIN clock => Later(s, clock[f])

LogInit ==
    /\ retained = [c \in Command |-> "none"]
    /\ request = [c \in Command |-> NoRequest]
    /\ clock = << >>
    /\ shown = << >>
    /\ aborted = {}

(* The identity has no retained outcome yet. *)
Fresh(c) == retained[c] = "none"

(* A retry is answered with the retained outcome and changes nothing. *)
Retry(c) == ~Fresh(c) /\ UNCHANGED logVars

TooFarAhead(req) == req.time > Horizon

(* f with the values of g where g has one. *)
Overlaid(f, g) == [x \in DOMAIN f \cup DOMAIN g |-> IF x \in DOMAIN g THEN g[x] ELSE f[x]]

(* The single row x. *)
Only(x, r) == [y \in {x} |-> r]

(* A rejected command retains its rejection and nothing else. *)
Reject(c) ==
    /\ retained' = [retained EXCEPT ![c] = "rejected"]
    /\ UNCHANGED <<request, clock, shown, aborted>>

(* A command that fails its own validation, whatever it asked for. *)
Malformed(c) == Fresh(c) /\ Reject(c)

(* The database takes a clock only from a mutation that is accepted as a whole: *)
(* one that is partly superseded may move none.                              *)
ClocksHold(outcome, fields) == fields # {} => outcome = "accepted"

(* A transaction that the database refuses leaves nothing, and its client will  *)
(* send the command again.                                                   *)
Abort(c) == aborted' = aborted \cup {c} /\ UNCHANGED <<retained, request, clock, shown>>

(* An applied one moves the clocks of the fields it won, publishes one group *)
(* of records and retains its outcome.                                       *)
Conclude(c, req, outcome, fields, records) ==
    /\ retained' = [retained EXCEPT ![c] = outcome]
    /\ request' = [request EXCEPT ![c] = req]
    /\ clock' = Overlaid(clock, [f \in fields |-> StampOf(c, req)])
    /\ shown' = Overlaid(shown, records)
    /\ UNCHANGED aborted

(* Whoever replays the feed has this row for x. *)
Shown(x, r) == x \in DOMAIN shown /\ shown[x] = r

(* The latest of some applied commands. *)
Latest(S) ==
    CHOOSE c \in S : \A d \in S \ {c} : Later(StampOf(c, request[c]), StampOf(d, request[d]))
=============================================================================
