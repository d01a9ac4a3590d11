-------------------------- MODULE ChangeFeedProofs --------------------------
(***************************************************************************)
(* Proofs about ChangeFeed, for any number of sessions, mutations and      *)
(* replicas, groups and pages of any size, and any number of lost rows.    *)
(*                                                                         *)
(* The safety properties are not inductive by themselves.  FeedInv says    *)
(* what an open transaction has taken and what it found retained;          *)
(* ReaderInv says that the head, and so every snapshot, is the end of a    *)
(* group, and that only a replica with a cursor pulls; StoredInv says what *)
(* the tables hold as long as no row was lost.                             *)
(***************************************************************************)
EXTENDS ChangeFeed, FiniteSetTheorems, WellFoundedInduction, TLAPS

(* A session with an open transaction works on a mutation of its own without *)
(* a retained outcome; one that holds the head row has the next numbers.     *)
WorkIsFresh ==
    \A s \in Session : work[s].phase # "idle" =>
       retained[work[s].mutation] = "none"

WorkIsDistinct ==
    \A s, t \in Session :
       work[s].phase # "idle" /\ work[t].phase # "idle" /\ s # t
          => work[s].mutation # work[t].mutation

RangeIsNext ==
    \A s \in Session : work[s].phase = "reserved" =>
       /\ work[s].first = NextSequence
       /\ work[s].last \in NextSequence..(NextSequence + MaxChanges - 1)
       /\ \A t \in Session : work[t].phase = "reserved" => s = t

(* The groups lie below the next number. *)
GroupsAreBelow ==
    \A t \in published : 1 <= t.first /\ t.first <= t.last /\ t.last < NextSequence

FeedInv ==
    /\ WorkIsFresh
    /\ WorkIsDistinct
    /\ RangeIsNext
    /\ GroupsAreBelow
    /\ FeedIsPartitioned
    /\ OneGroupPerMutation

(* The head is the end of a group. *)
HeadIsBoundary == CurrentSequence \in {0} \cup {t.last : t \in published}

PullersHaveCursor == \A r \in Replica : pulling[r] # 0 => cursor[r] # NoCursor

ReaderInv ==
    /\ transactions \subseteq published
    /\ HeadIsBoundary
    /\ PullersHaveCursor
    /\ CursorBetweenGroups
    /\ ReplicaIsComplete

IInv == TypeOK /\ FeedInv /\ ReaderInv

-----------------------------------------------------------------------------
(* The two readings of the head row agree. *)
LEMMA HeadNumbers ==
    ASSUME TypeOK
    PROVE  /\ NextSequence \in Nat \ {0}
           /\ CurrentSequence \in Nat
           /\ CurrentSequence = NextSequence - 1
  BY DEF TypeOK, NextSequence, CurrentSequence

(* Every step keeps the types. *)
LEMMA TypeStep ==
    ASSUME TypeOK, [Next]_vars
    PROVE  TypeOK'
<1> USE BoundsAssumption
<1>1. ASSUME NEW s \in Session, Write(s)
      PROVE  TypeOK'
  <2>1. ASSUME NEW m \in Mutation, OpenCommand(s, m) PROVE TypeOK'
    BY <2>1 DEF OpenCommand, TypeOK, Idle, readVars
  <2>2. CASE RetainRejection(s)
    BY <2>2 DEF RetainRejection, TypeOK, Idle, readVars
  <2>3. ASSUME NEW n \in 1..MaxChanges, Reserve(s, n) PROVE TypeOK'
    <3>1. NextSequence \in Nat /\ NextSequence + n - 1 \in Nat
      BY HeadNumbers
    <3>2. work' \in [Session -> [phase : {"idle", "open", "reserved"},
                                 mutation : Mutation \cup {NoMutation},
                                 first : Nat, last : Nat, written : Nat]]
      BY <2>3, <3>1 DEF Reserve, TypeOK
    <3>3. QED
      BY <2>3, <3>2 DEF Reserve, TypeOK, readVars
  <2>4. CASE WriteChange(s)
    BY <2>4 DEF WriteChange, TypeOK, readVars
  <2>5. CASE Commit(s)
    <3> DEFINE w == work[s]
    <3>1. /\ w.mutation \in Mutation
          /\ w.first \in Nat /\ w.last \in Nat /\ w.written \in Nat
      BY <2>5 DEF TypeOK, Commit
    <3>2. [mutation |-> w.mutation, first |-> w.first, last |-> w.last] \in Transaction
      BY <3>1 DEF Transaction
    <3>3. {[sequence |-> q, mutation |-> w.mutation] : q \in w.first..(w.first + w.written - 1)}
             \subseteq [sequence : Nat, mutation : Mutation]
      BY <3>1
    <3>4. transactions' \subseteq Transaction /\ published' \subseteq Transaction
      BY <2>5, <3>2 DEF Commit, TypeOK
    <3>5. changes' \subseteq [sequence : Nat, mutation : Mutation]
      BY <2>5, <3>3 DEF Commit, TypeOK
    <3>6. retained' \in [Mutation -> {"none", "rejected", "published"}] /\ head' \in Nat
      BY <2>5, <3>1 DEF Commit, TypeOK
    <3>7. QED
      BY <2>5, <3>4, <3>5, <3>6 DEF Commit, TypeOK, Idle, readVars
  <2>6. CASE Abort(s)
    BY <2>6 DEF Abort, TypeOK, Idle, readVars
  <2>7. QED
    BY <1>1, <2>1, <2>2, <2>3, <2>4, <2>5, <2>6 DEF Write
<1>2. CASE PartialRestore
  BY <1>2 DEF PartialRestore, TypeOK, readVars
<1>3. ASSUME NEW r \in Replica, Read(r)
      PROVE  TypeOK'
  <2>1. ASSUME NEW limit \in 1..MaxGroups, BeginPull(r, limit) PROVE TypeOK'
    BY <2>1 DEF BeginPull, TypeOK, feedVars
  <2>2. CASE PullPage(r)
    <3>1. PICK end \in PageEnds(Page(r, pulling[r])) :
             /\ cursor' = [cursor EXCEPT ![r] = end]
             /\ seen' = [seen EXCEPT ![r] = @ \cup
                           {c.sequence : c \in {d \in changes :
                               d.sequence > cursor[r] /\ d.sequence <= end}}]
      BY <2>2 DEF PullPage
    <3>2. end \in Nat
      BY <3>1 DEF PageEnds, Page, TypeOK, Transaction
    <3>3. cursor' \in [Replica -> Nat \cup {NoCursor}]
      BY <3>1, <3>2 DEF TypeOK
    <3>4. seen' \in [Replica -> SUBSET Nat]
      BY <3>1 DEF TypeOK
    <3>5. QED
      BY <2>2, <3>3, <3>4 DEF PullPage, TypeOK, feedVars
  <2>3. CASE Bootstrap(r)
    BY <2>3, HeadNumbers DEF Bootstrap, TypeOK, feedVars
  <2>4. QED
    BY <1>3, <2>1, <2>2, <2>3 DEF Read
<1>4. CASE UNCHANGED vars
  BY <1>4 DEF TypeOK, vars, feedVars, readVars
<1>5. QED
  BY <1>1, <1>2, <1>3, <1>4 DEF Next

(* The variables keep their types in every behaviour of the feed.            *)
THEOREM TypeCorrect == Spec => []TypeOK
<1>1. Init => TypeOK
  BY BoundsAssumption DEF Init, TypeOK, Idle
<1>2. QED
  BY <1>1, TypeStep, PTL DEF Spec

-----------------------------------------------------------------------------
(* What the feed invariant reads. *)
LEMMA FeedUnchanged ==
    ASSUME FeedInv, UNCHANGED <<head, retained, work, published>>
    PROVE  FeedInv'
  BY DEF FeedInv, WorkIsFresh, WorkIsDistinct, RangeIsNext, GroupsAreBelow,
         FeedIsPartitioned, OneGroupPerMutation, NextSequence, CurrentSequence

(* A step that touches open transactions only. *)
LEMMA GroupsUnchanged ==
    ASSUME FeedInv, UNCHANGED <<head, retained, published>>
    PROVE  /\ NextSequence' = NextSequence
           /\ GroupsAreBelow' /\ FeedIsPartitioned' /\ OneGroupPerMutation'
  BY DEF FeedInv, GroupsAreBelow, FeedIsPartitioned, OneGroupPerMutation,
         NextSequence, CurrentSequence

(* A transaction that ends or has nothing left to disturb. *)
LEMMA WorkReset ==
    ASSUME TypeOK, FeedInv, NEW s \in Session, UNCHANGED <<head, retained, published>>,
           work' = [work EXCEPT ![s] = Idle]
    PROVE  FeedInv'
<1>1. /\ work'[s].phase = "idle"
      /\ \A t \in Session : t # s => work'[t] = work[t]
  BY DEF TypeOK, Idle
<1>2. WorkIsFresh' /\ WorkIsDistinct' /\ RangeIsNext'
  BY <1>1, GroupsUnchanged DEF FeedInv, WorkIsFresh, WorkIsDistinct, RangeIsNext
<1>3. QED
  BY <1>2, GroupsUnchanged DEF FeedInv

(* The committed group takes the numbers right after the others, so the feed *)
(* stays partitioned; its mutation had no group before.                      *)
LEMMA CommitKeepsFeed ==
    ASSUME TypeOK, FeedInv, NEW s \in Session, Commit(s)
    PROVE  FeedInv'
<1> DEFINE w == work[s]
           row == [mutation |-> w.mutation, first |-> w.first, last |-> w.last]
<1>1. /\ w.mutation \in Mutation /\ w.first \in Nat /\ w.last \in Nat
      /\ retained[w.mutation] = "none"
      /\ w.first = NextSequence /\ w.first <= w.last
      /\ NextSequence \in Nat \ {0}
  BY HeadNumbers DEF Commit, TypeOK, FeedInv, WorkIsFresh, RangeIsNext
<1>2. NextSequence' = w.last + 1 /\ CurrentSequence' = w.last
  BY <1>1 DEF Commit, NextSequence, CurrentSequence
<1>3. /\ published' = published \cup {row}
      /\ retained' = [retained EXCEPT ![w.mutation] = "published"]
      /\ work'[s].phase = "idle"
      /\ \A t \in Session : t # s => work'[t] = work[t]
  BY DEF Commit, TypeOK, Idle
<1>4. \A t \in published : /\ t.mutation \in Mutation /\ t.first \in Nat /\ t.last \in Nat
                           /\ 1 <= t.first /\ t.first <= t.last /\ t.last < w.first
                           /\ t.mutation # w.mutation
  BY <1>1 DEF FeedInv, GroupsAreBelow, OneGroupPerMutation, TypeOK, Transaction
<1>5. WorkIsFresh'
  <2> SUFFICES ASSUME NEW t \in Session, work'[t].phase # "idle"
               PROVE  retained'[work'[t].mutation] = "none"
    BY DEF WorkIsFresh
  <2>1. t # s /\ work'[t] = work[t]
    BY <1>3
  <2>2. work[t].mutation \in Mutation /\ work[t].mutation # w.mutation
    BY <2>1 DEF Commit, FeedInv, WorkIsDistinct, TypeOK
  <2>3. retained[work[t].mutation] = "none"
    BY <2>1 DEF FeedInv, WorkIsFresh
  <2>4. QED
    BY <1>3, <2>1, <2>2, <2>3 DEF TypeOK
<1>6. WorkIsDistinct'
  BY <1>3 DEF FeedInv, WorkIsDistinct
<1>7. RangeIsNext'
  <2>1. \A t \in Session : work'[t].phase # "reserved"
    BY <1>3 DEF FeedInv, RangeIsNext, Commit
  <2>2. QED
    BY <2>1 DEF RangeIsNext
<1>8. GroupsAreBelow'
  BY <1>1, <1>2, <1>3, <1>4 DEF GroupsAreBelow
<1>9. FeedIsPartitioned'
  <2> SUFFICES ASSUME NEW q \in 1..w.last
               PROVE  \E t \in published' :
                         /\ q \in t.first..t.last
                         /\ \A u \in published' : q \in u.first..u.last => u = t
    BY <1>2 DEF FeedIsPartitioned
  <2>1. CASE q < w.first
    <3>1. q \in 1..CurrentSequence
      BY <2>1, <1>1, HeadNumbers
    <3>2. PICK t \in published : /\ q \in t.first..t.last
                                 /\ \A u \in published : q \in u.first..u.last => u = t
      BY <3>1 DEF FeedInv, FeedIsPartitioned
    <3>3. q \notin row.first..row.last
      BY <2>1, <1>1
    <3>4. QED
      BY <3>2, <3>3, <1>3
  <2>2. CASE q >= w.first
    <3>1. q \in row.first..row.last
      BY <2>2, <1>1
    <3>2. \A u \in published : q \notin u.first..u.last
      BY <2>2, <1>1, <1>4
    <3>3. QED
      BY <3>1, <3>2, <1>3
  <2>3. QED
    BY <2>1, <2>2, <1>1
<1>10. OneGroupPerMutation'
  <2>1. \A t, u \in published' : t.mutation = u.mutation => t = u
    BY <1>3, <1>4 DEF FeedInv, OneGroupPerMutation
  <2>2. ASSUME NEW m \in Mutation
        PROVE  retained'[m] = "published" <=> \E t \in published' : t.mutation = m
    <3>1. CASE m = w.mutation
      <4>1. row \in published' /\ row.mutation = m
        BY <3>1, <1>3
      <4>2. retained'[m] = "published"
        BY <3>1, <1>1, <1>3 DEF TypeOK
      <4>3. QED
        BY <4>1, <4>2
    <3>2. CASE m # w.mutation
      BY <3>2, <1>3 DEF TypeOK, FeedInv, OneGroupPerMutation
    <3>3. QED
      BY <3>1, <3>2
  <2>3. QED
    BY <2>1, <2>2 DEF OneGroupPerMutation
<1>11. QED
  BY <1>5, <1>6, <1>7, <1>8, <1>9, <1>10 DEF FeedInv

(* Every step keeps the feed invariant. *)
LEMMA FeedStep ==
    ASSUME TypeOK, FeedInv, [Next]_vars
    PROVE  FeedInv'
<1>1. ASSUME NEW s \in Session, Write(s)
      PROVE  FeedInv'
  <2>1. ASSUME NEW m \in Mutation, OpenCommand(s, m) PROVE FeedInv'
    <3>1. /\ work'[s].phase = "open" /\ work'[s].mutation = m
          /\ \A t \in Session : t # s => work'[t] = work[t]
          /\ UNCHANGED <<head, retained, published>>
      BY <2>1 DEF OpenCommand, TypeOK, Idle
    <3>2. WorkIsFresh' /\ WorkIsDistinct'
      BY <2>1, <3>1 DEF OpenCommand, FeedInv, WorkIsFresh, WorkIsDistinct
    <3>3. RangeIsNext'
      BY <3>1, GroupsUnchanged DEF FeedInv, RangeIsNext
    <3>4. QED
      BY <3>1, <3>2, <3>3, GroupsUnchanged DEF FeedInv
  <2>2. CASE RetainRejection(s)
    <3> DEFINE m == work[s].mutation
    <3>1. /\ m \in Mutation /\ retained[m] = "none" /\ work'[s].phase = "idle"
          /\ retained' = [retained EXCEPT ![m] = "rejected"]
          /\ \A t \in Session : t # s => work'[t] = work[t]
          /\ UNCHANGED <<head, published>>
      BY <2>2 DEF RetainRejection, TypeOK, FeedInv, WorkIsFresh, Idle
    <3>2. NextSequence' = NextSequence /\ CurrentSequence' = CurrentSequence
      BY <3>1 DEF NextSequence, CurrentSequence
    <3>3. WorkIsFresh'
      <4> SUFFICES ASSUME NEW t \in Session, work'[t].phase # "idle"
                   PROVE  retained'[work'[t].mutation] = "none"
        BY DEF WorkIsFresh
      <4>1. /\ work'[t] = work[t] /\ work[t].mutation # m
            /\ work[t].mutation \in Mutation /\ retained[work[t].mutation] = "none"
        BY <2>2, <3>1 DEF RetainRejection, FeedInv, WorkIsDistinct, WorkIsFresh, TypeOK
      <4>2. QED
        BY <3>1, <4>1 DEF TypeOK
    <3>4. WorkIsDistinct' /\ RangeIsNext'
      BY <3>1, <3>2 DEF FeedInv, WorkIsDistinct, RangeIsNext
    <3>5. GroupsAreBelow' /\ FeedIsPartitioned'
      BY <3>1, <3>2 DEF FeedInv, GroupsAreBelow, FeedIsPartitioned
    <3>6. OneGroupPerMutation'
      BY <3>1 DEF FeedInv, OneGroupPerMutation, TypeOK
    <3>7. QED
      BY <3>3, <3>4, <3>5, <3>6 DEF FeedInv
  <2>3. ASSUME NEW n \in 1..MaxChanges, Reserve(s, n) PROVE FeedInv'
    <3>1. /\ work'[s].phase = "reserved" /\ work'[s].mutation = work[s].mutation
          /\ work'[s].first = NextSequence /\ work'[s].last = NextSequence + n - 1
          /\ work[s].phase = "open"
          /\ \A t \in Session : t # s => work'[t] = work[t]
          /\ \A t \in Session : work[t].phase # "reserved"
          /\ UNCHANGED <<head, retained, published>>
      BY <2>3 DEF Reserve, HeadRowFree, TypeOK
    <3>2. WorkIsFresh' /\ WorkIsDistinct'
      BY <3>1 DEF FeedInv, WorkIsFresh, WorkIsDistinct
    <3>3. RangeIsNext'
      <4>1. NextSequence + n - 1 \in NextSequence..(NextSequence + MaxChanges - 1)
        BY HeadNumbers, BoundsAssumption
      <4>2. QED
        BY <3>1, <4>1, GroupsUnchanged DEF RangeIsNext
    <3>4. QED
      BY <3>1, <3>2, <3>3, GroupsUnchanged DEF FeedInv
  <2>4. CASE WriteChange(s)
    <3>1. /\ \A t \in Session : /\ work'[t].phase = work[t].phase
                                /\ work'[t].mutation = work[t].mutation
                                /\ work'[t].first = work[t].first
                                /\ work'[t].last = work[t].last
          /\ UNCHANGED <<head, retained, published>>
      BY <2>4 DEF WriteChange, TypeOK
    <3>2. WorkIsFresh' /\ WorkIsDistinct'
      BY <3>1 DEF FeedInv, WorkIsFresh, WorkIsDistinct
    <3>3. RangeIsNext'
      BY <3>1, GroupsUnchanged DEF FeedInv, RangeIsNext
    <3>4. QED
      BY <3>1, <3>2, <3>3, GroupsUnchanged DEF FeedInv
  <2>5. CASE Commit(s)
    BY <2>5, CommitKeepsFeed
  <2>6. CASE Abort(s)
    BY <2>6, WorkReset DEF Abort
  <2>7. QED
    BY <1>1, <2>1, <2>2, <2>3, <2>4, <2>5, <2>6 DEF Write
<1>2. CASE PartialRestore
  BY <1>2, FeedUnchanged DEF PartialRestore
<1>3. ASSUME NEW r \in Replica, Read(r)
      PROVE  FeedInv'
  BY <1>3, FeedUnchanged DEF Read, BeginPull, PullPage, Bootstrap, feedVars
<1>4. CASE UNCHANGED vars
  BY <1>4, FeedUnchanged DEF vars, feedVars
<1>5. QED
  BY <1>1, <1>2, <1>3, <1>4 DEF Next

-----------------------------------------------------------------------------
(* What the reader invariant reads; a restore may take transactions away.    *)
LEMMA ReadersUnchanged ==
    ASSUME ReaderInv, UNCHANGED <<head, published, readVars>>,
           transactions' \subseteq transactions
    PROVE  ReaderInv'
  BY DEF ReaderInv, HeadIsBoundary, PullersHaveCursor, CursorBetweenGroups,
         ReplicaIsComplete, CurrentSequence, readVars

(* A cursor is not past the head, since no group is.                         *)
LEMMA CursorIsBelowHead ==
    ASSUME TypeOK, FeedInv, ReaderInv, NEW r \in Replica
    PROVE  cursor[r] <= CurrentSequence
<1>1. \A t \in published : t.last \in Nat /\ t.last <= CurrentSequence
  BY HeadNumbers DEF FeedInv, GroupsAreBelow, TypeOK, Transaction
<1>2. QED
  BY <1>1, HeadNumbers DEF ReaderInv, CursorBetweenGroups, NoCursor, TypeOK

(* A page that is applied ends at the end of a group past the cursor, and    *)
(* carries every change in between.                                          *)
LEMMA PageMovesForward ==
    ASSUME TypeOK, FeedInv, ReaderInv, NEW r \in Replica, PullPage(r)
    PROVE  /\ cursor' = [cursor EXCEPT ![r] = cursor'[r]]
           /\ cursor'[r] \in {t.last : t \in published}
           /\ cursor'[r] \in Nat /\ cursor'[r] > cursor[r]
           /\ seen' = [seen EXCEPT ![r] = 1..cursor'[r]]
<1> DEFINE page == Page(r, pulling[r])
           sent(end) == {c.sequence : c \in {d \in changes :
                            d.sequence > cursor[r] /\ d.sequence <= end}}
<1>1. PICK end \in PageEnds(page) :
         /\ PageIsContiguous(cursor[r], page, end)
         /\ cursor' = [cursor EXCEPT ![r] = end]
         /\ seen' = [seen EXCEPT ![r] = @ \cup sent(end)]
  BY DEF PullPage
<1>2. cursor'[r] = end
  BY <1>1 DEF TypeOK
<1>3. end \in {t.last : t \in published} /\ end > cursor[r] /\ end \in Nat
  BY <1>1 DEF PageEnds, Page, ReaderInv, TypeOK, Transaction
<1>4. cursor[r] \in Nat
  BY DEF PullPage, ReaderInv, PullersHaveCursor, TypeOK, NoCursor
<1>5. sent(end) = (cursor[r] + 1)..end
  <2>1. ASSUME NEW q \in (cursor[r] + 1)..end
        PROVE  q \in sent(end)
    <3>1. PICK t \in page : [sequence |-> q, mutation |-> t.mutation] \in changes
      BY <1>1 DEF PageIsContiguous
    <3>2. QED
      BY <3>1, <1>3, <1>4
  <2>2. sent(end) \subseteq (cursor[r] + 1)..end
    BY <1>3, <1>4 DEF TypeOK
  <2>3. QED
    BY <2>1, <2>2
<1>6. seen[r] = 1..cursor[r]
  BY <1>4 DEF ReaderInv, ReplicaIsComplete, NoCursor
<1>7. 1..cursor[r] \cup (cursor[r] + 1)..end = 1..end
  BY <1>3, <1>4
<1>8. seen' = [seen EXCEPT ![r] = 1..end]
  BY <1>1, <1>5, <1>6, <1>7
<1>9. QED
  BY <1>1, <1>2, <1>3, <1>8

(* Every step keeps the reader invariant. *)
LEMMA ReaderStep ==
    ASSUME IInv, [Next]_vars
    PROVE  ReaderInv'
<1> USE DEF IInv
<1>1. ASSUME NEW s \in Session, Write(s)
      PROVE  ReaderInv'
  <2>1. CASE Commit(s)
    <3> DEFINE w == work[s]
               row == [mutation |-> w.mutation, first |-> w.first, last |-> w.last]
    <3>1. /\ transactions' = transactions \cup {row}
          /\ published' = published \cup {row}
          /\ UNCHANGED readVars
          /\ head' = w.last + 1 /\ w.last \in Nat
      BY <2>1 DEF Commit, TypeOK
    <3>2. CurrentSequence' = w.last
      BY <3>1 DEF CurrentSequence
    <3>3. QED
      BY <3>1, <3>2 DEF ReaderInv, HeadIsBoundary, PullersHaveCursor,
                        CursorBetweenGroups, ReplicaIsComplete, readVars
  <2>2. CASE ~Commit(s)
    <3>1. UNCHANGED <<head, published, readVars, transactions>>
      BY <1>1, <2>2 DEF Write, OpenCommand, RetainRejection, Reserve, WriteChange, Abort
    <3>2. QED
      BY <3>1, ReadersUnchanged
  <2>3. QED
    BY <2>1, <2>2
<1>2. CASE PartialRestore
  BY <1>2, ReadersUnchanged DEF PartialRestore
<1>3. ASSUME NEW r \in Replica, Read(r)
      PROVE  ReaderInv'
  <2>1. ASSUME NEW limit \in 1..MaxGroups, BeginPull(r, limit) PROVE ReaderInv'
    <3>1. \A u \in Replica : pulling'[u] # 0 => cursor[u] # NoCursor
      BY <2>1 DEF BeginPull, NeedsBootstrap, ReaderInv, PullersHaveCursor, TypeOK
    <3>2. QED
      BY <2>1, <3>1 DEF BeginPull, feedVars, ReaderInv, HeadIsBoundary, PullersHaveCursor,
                        CursorBetweenGroups, ReplicaIsComplete, CurrentSequence
  <2>2. CASE PullPage(r)
    <3>1. UNCHANGED feedVars /\ pulling' = [pulling EXCEPT ![r] = 0]
      BY <2>2 DEF PullPage
    <3>2. HeadIsBoundary' /\ transactions' \subseteq published'
      BY <3>1 DEF feedVars, ReaderInv, HeadIsBoundary, CurrentSequence
    <3>3. \A u \in Replica : u # r => cursor'[u] = cursor[u] /\ seen'[u] = seen[u]
      BY <2>2, PageMovesForward DEF TypeOK
    <3>4. seen'[r] = 1..cursor'[r] /\ cursor'[r] \in {t.last : t \in published'}
      BY <2>2, <3>1, PageMovesForward DEF TypeOK, feedVars
    <3>5. PullersHaveCursor'
      BY <3>1, <3>3 DEF ReaderInv, PullersHaveCursor, TypeOK
    <3>6. CursorBetweenGroups'
      BY <3>1, <3>3, <3>4 DEF ReaderInv, CursorBetweenGroups, feedVars
    <3>7. ReplicaIsComplete'
      BY <3>3, <3>4 DEF ReaderInv, ReplicaIsComplete
    <3>8. QED
      BY <3>2, <3>5, <3>6, <3>7 DEF ReaderInv
  <2>3. CASE Bootstrap(r)
    <3>1. /\ UNCHANGED feedVars
          /\ cursor'[r] = CurrentSequence /\ seen'[r] = 1..CurrentSequence
          /\ pulling'[r] = 0
          /\ \A u \in Replica : u # r => /\ cursor'[u] = cursor[u]
                                         /\ seen'[u] = seen[u]
                                         /\ pulling'[u] = pulling[u]
      BY <2>3 DEF Bootstrap, TypeOK
    <3>2. QED
      BY <3>1 DEF feedVars, ReaderInv, HeadIsBoundary, PullersHaveCursor,
                  CursorBetweenGroups, ReplicaIsComplete, CurrentSequence
  <2>4. QED
    BY <1>3, <2>1, <2>2, <2>3 DEF Read
<1>4. CASE UNCHANGED vars
  BY <1>4, ReadersUnchanged DEF vars, feedVars
<1>5. QED
  BY <1>1, <1>2, <1>3, <1>4 DEF Next

(* The inductive invariant holds in every behaviour.                         *)
LEMMA InductiveInvariant == Spec => []IInv
<1>1. Init => IInv
  <2> SUFFICES ASSUME Init PROVE IInv
    OBVIOUS
  <2>1. TypeOK
    BY BoundsAssumption DEF Init, TypeOK, Idle
  <2>2. FeedInv
    BY DEF Init, Idle, FeedInv, WorkIsFresh, WorkIsDistinct, RangeIsNext, GroupsAreBelow,
           FeedIsPartitioned, OneGroupPerMutation, NextSequence, CurrentSequence
  <2>3. ReaderInv
    BY DEF Init, ReaderInv, HeadIsBoundary, PullersHaveCursor, CursorBetweenGroups,
           ReplicaIsComplete, CurrentSequence
  <2>4. QED
    BY <2>1, <2>2, <2>3 DEF IInv
<1>2. IInv /\ [Next]_vars => IInv'
  BY TypeStep, FeedStep, ReaderStep DEF IInv
<1>3. QED
  BY <1>1, <1>2, PTL DEF Spec

(* The groups number the feed without gap or overlap, whatever aborts.       *)
THEOREM FeedPartitioned == Spec => []FeedIsPartitioned
<1>1. IInv => FeedIsPartitioned
  BY DEF IInv, FeedInv
<1>2. QED
  BY <1>1, InductiveInvariant, PTL

(* An identity publishes at most one group, and exactly when it says so.     *)
THEOREM PublishedOnce == Spec => []OneGroupPerMutation
<1>1. IInv => OneGroupPerMutation
  BY DEF IInv, FeedInv
<1>2. QED
  BY <1>1, InductiveInvariant, PTL

(* Whatever rows are lost, a replica holds every change up to its cursor.    *)
THEOREM ReplicasComplete == Spec => []ReplicaIsComplete
<1>1. IInv => ReplicaIsComplete
  BY DEF IInv, ReaderInv
<1>2. QED
  BY <1>1, InductiveInvariant, PTL

(* No page splits a command.                                                 *)
THEOREM CursorsBetweenGroups == Spec => []CursorBetweenGroups
<1>1. IInv => CursorBetweenGroups
  BY DEF IInv, ReaderInv
<1>2. QED
  BY <1>1, InductiveInvariant, PTL

-----------------------------------------------------------------------------
(* How one step may move a cursor: forward, to a boundary, alone.            *)
LEMMA CursorStep ==
    ASSUME IInv, [Next]_vars
    PROVE  \/ UNCHANGED cursor
           \/ \E r \in Replica, b \in {0} \cup {t.last : t \in published} :
                 /\ b > cursor[r]
                 /\ cursor' = [cursor EXCEPT ![r] = b]
                 /\ UNCHANGED feedVars
<1> USE DEF IInv
<1>1. ASSUME NEW r \in Replica, PullPage(r)
      PROVE  \E b \in {0} \cup {t.last : t \in published} :
                /\ b > cursor[r]
                /\ cursor' = [cursor EXCEPT ![r] = b]
                /\ UNCHANGED feedVars
  BY <1>1, PageMovesForward DEF PullPage
<1>2. ASSUME NEW r \in Replica, Bootstrap(r), cursor' # cursor
      PROVE  /\ CurrentSequence \in {0} \cup {t.last : t \in published}
             /\ CurrentSequence > cursor[r]
             /\ cursor' = [cursor EXCEPT ![r] = CurrentSequence]
             /\ UNCHANGED feedVars
  <2>1. cursor' = [cursor EXCEPT ![r] = CurrentSequence] /\ UNCHANGED feedVars
    BY <1>2 DEF Bootstrap
  <2>2. cursor[r] # CurrentSequence
    BY <1>2, <2>1 DEF TypeOK
  <2>3. CurrentSequence > cursor[r]
    BY <2>2, CursorIsBelowHead, HeadNumbers DEF TypeOK, NoCursor
  <2>4. QED
    BY <2>1, <2>3 DEF ReaderInv, HeadIsBoundary
<1>3. ASSUME NEW r \in Replica, Read(r), cursor' # cursor
      PROVE  \E b \in {0} \cup {t.last : t \in published} :
                /\ b > cursor[r]
                /\ cursor' = [cursor EXCEPT ![r] = b]
                /\ UNCHANGED feedVars
  BY <1>1, <1>2, <1>3 DEF Read, BeginPull
<1>4. ASSUME NEW s \in Session, Write(s)
      PROVE  UNCHANGED cursor
  BY <1>4 DEF Write, OpenCommand, RetainRejection, Reserve, WriteChange, Commit, Abort, readVars
<1>5. CASE PartialRestore
  BY <1>5 DEF PartialRestore, readVars
<1>6. CASE UNCHANGED vars
  BY <1>6 DEF vars, readVars
<1>7. QED
  BY <1>3, <1>4, <1>5, <1>6 DEF Next

(* No replica moves backwards, bootstraps after a restore included.          *)
THEOREM CursorsMoveForward == Spec => CursorNeverMovesBack
<1>1. IInv /\ [Next]_vars => [\A r \in Replica : cursor'[r] >= cursor[r]]_vars
  <2> SUFFICES ASSUME IInv, [Next]_vars, NEW r \in Replica
               PROVE  cursor'[r] >= cursor[r]
    OBVIOUS
  <2>1. cursor[r] \in Int
    BY DEF IInv, TypeOK, NoCursor
  <2>2. \A t \in published : t.last \in Nat
    BY DEF IInv, TypeOK, Transaction
  <2>3. QED
    BY CursorStep, <2>1, <2>2 DEF IInv, TypeOK
<1>2. QED
  BY <1>1, InductiveInvariant, PTL DEF Spec, CursorNeverMovesBack

-----------------------------------------------------------------------------
(* As long as no row was lost, the tables have every group and its changes,    *)
(* and nothing else.                                                         *)
TablesAreWhole ==
    /\ transactions = published
    /\ \A t \in published : \A q \in t.first..t.last :
          [sequence |-> q, mutation |-> t.mutation] \in changes
    /\ \A c \in changes : \E t \in published : c.sequence \in t.first..t.last

(* The head row appears with its first group; a pull in progress has groups    *)
(* to find; pages are counted in a finite set.                               *)
StoredInv ==
    /\ lost = 0 => TablesAreWhole
    /\ head # 1
    /\ \A r \in Replica : pulling[r] # 0 => cursor[r] < CurrentSequence
    /\ IsFiniteSet(published)

LEMMA StoredStep ==
    ASSUME IInv, StoredInv, [Next]_vars
    PROVE  StoredInv'
<1> USE DEF IInv
<1>1. ASSUME UNCHANGED <<feedVars, cursor, pulling>>
      PROVE  StoredInv'
  BY <1>1 DEF StoredInv, TablesAreWhole, feedVars, CurrentSequence
<1>2. ASSUME NEW s \in Session, Commit(s)
      PROVE  StoredInv'
  <2> DEFINE w == work[s]
             row == [mutation |-> w.mutation, first |-> w.first, last |-> w.last]
  <2>1. /\ w.first = NextSequence /\ w.first \in Nat \ {0} /\ w.last \in Nat
        /\ w.first <= w.last /\ w.written \in Nat /\ w.first + w.written = w.last + 1
        /\ CurrentSequence \in Nat /\ w.first = CurrentSequence + 1
    BY <1>2, HeadNumbers DEF Commit, PublicationComplete, TypeOK, FeedInv, RangeIsNext
  <2>2. /\ head' = w.last + 1 /\ CurrentSequence' = w.last
        /\ transactions' = transactions \cup {row} /\ published' = published \cup {row}
        /\ changes' = changes \cup {[sequence |-> q, mutation |-> w.mutation] :
                                       q \in w.first..w.last}
        /\ UNCHANGED <<lost, cursor, pulling>>
    BY <1>2, <2>1 DEF Commit, CurrentSequence, readVars
  <2>3. ASSUME lost = 0 PROVE TablesAreWhole'
    <3>1. TablesAreWhole
      BY <2>3 DEF StoredInv
    <3>2. transactions' = published'
      BY <2>2, <3>1 DEF TablesAreWhole
    <3>3. ASSUME NEW t \in published', NEW q \in t.first..t.last
          PROVE  [sequence |-> q, mutation |-> t.mutation] \in changes'
      <4>1. CASE t \in published
        BY <4>1, <2>2, <3>1 DEF TablesAreWhole
      <4>2. CASE t = row
        BY <4>2, <2>2
      <4>3. QED
        BY <4>1, <4>2, <2>2
    <3>4. ASSUME NEW c \in changes'
          PROVE  \E t \in published' : c.sequence \in t.first..t.last
      <4>1. CASE c \in changes
        BY <4>1, <2>2, <3>1 DEF TablesAreWhole
      <4>2. CASE c \notin changes
        <5>1. c.sequence \in row.first..row.last
          BY <4>2, <2>2
        <5>2. QED
          BY <5>1, <2>2
      <4>3. QED
        BY <4>1, <4>2
    <3>5. QED
      BY <3>2, <3>3, <3>4 DEF TablesAreWhole
  <2>4. \A r \in Replica : pulling[r] # 0 => cursor[r] < w.last
    BY <2>1 DEF StoredInv, TypeOK, NoCursor
  <2>5. IsFiniteSet(published')
    BY <2>2, FS_AddElement DEF StoredInv
  <2>6. QED
    BY <2>1, <2>2, <2>3, <2>4, <2>5 DEF StoredInv
<1>3. CASE PartialRestore
  <2>1. lost' # 0 /\ UNCHANGED <<head, published, cursor, pulling>>
    BY <1>3 DEF PartialRestore, readVars, TypeOK
  <2>2. QED
    BY <2>1 DEF StoredInv, CurrentSequence
<1>4. ASSUME NEW s \in Session, Write(s), ~Commit(s)
      PROVE  StoredInv'
  <2>1. UNCHANGED <<head, transactions, changes, published, lost, cursor, pulling>>
    BY <1>4 DEF Write, OpenCommand, RetainRejection, Reserve, WriteChange, Abort, readVars
  <2>2. QED
    BY <2>1 DEF StoredInv, TablesAreWhole, CurrentSequence
<1>5. ASSUME NEW r \in Replica, Read(r)
      PROVE  StoredInv'
  <2>1. UNCHANGED feedVars
    BY <1>5 DEF Read, BeginPull, PullPage, Bootstrap
  <2>2. \A u \in Replica : pulling'[u] # 0 => cursor'[u] < CurrentSequence
    <3>1. ASSUME NEW limit \in 1..MaxGroups, BeginPull(r, limit)
          PROVE  \A u \in Replica : pulling'[u] # 0 => cursor'[u] < CurrentSequence
      <4>1. cursor[r] < CurrentSequence
        <5>1. cursor[r] <= CurrentSequence
          BY CursorIsBelowHead
        <5>2. cursor[r] \in Int /\ CurrentSequence \in Nat /\ cursor[r] # CurrentSequence
          BY <3>1, HeadNumbers DEF BeginPull, TypeOK, NoCursor
        <5>3. QED
          BY <5>1, <5>2
      <4>2. QED
        BY <3>1, <4>1 DEF BeginPull, StoredInv, TypeOK
    <3>2. CASE PullPage(r) \/ Bootstrap(r)
      <4>1. pulling' = [pulling EXCEPT ![r] = 0] /\ \A u \in Replica \ {r} : cursor'[u] = cursor[u]
        BY <3>2 DEF PullPage, Bootstrap, TypeOK
      <4>2. QED
        BY <4>1 DEF StoredInv, TypeOK
    <3>3. QED
      BY <1>5, <3>1, <3>2 DEF Read
  <2>3. QED
    BY <2>1, <2>2 DEF StoredInv, TablesAreWhole, feedVars, CurrentSequence
<1>6. QED
  BY <1>1, <1>2, <1>3, <1>4, <1>5 DEF Next, vars, readVars

LEMMA StoredInvariant == Spec => []StoredInv
<1>1. Init => StoredInv
  BY FS_EmptySet DEF Init, StoredInv, TablesAreWhole
<1>2. QED
  BY <1>1, StoredStep, InductiveInvariant, PTL DEF Spec

-----------------------------------------------------------------------------
(* Every number up to the head belongs to a group, which lies on one side of   *)
(* each cursor.                                                              *)
LEMMA GroupOf ==
    ASSUME IInv, NEW r \in Replica, cursor[r] \in Nat,
           NEW q \in (cursor[r] + 1)..CurrentSequence
    PROVE  \E t \in published : q \in t.first..t.last /\ cursor[r] < t.first
<1> USE DEF IInv
<1>1. q \in 1..CurrentSequence
  BY HeadNumbers
<1>2. PICK t \in published : /\ q \in t.first..t.last
                             /\ \A u \in published : q \in u.first..u.last => u = t
  BY <1>1 DEF FeedInv, FeedIsPartitioned
<1>3. t.first \in Nat /\ t.last \in Nat /\ 1 <= t.first /\ t.first <= t.last
      /\ t.last <= CurrentSequence
  BY HeadNumbers DEF FeedInv, GroupsAreBelow, TypeOK, Transaction
<1>4. CASE cursor[r] = 0
  BY <1>2, <1>3, <1>4
<1>5. CASE cursor[r] # 0
  <2>1. PICK u \in published : cursor[r] = u.last
    BY <1>5 DEF ReaderInv, CursorBetweenGroups, NoCursor
  <2>2. u.first \in Nat /\ u.first <= u.last
    BY DEF FeedInv, GroupsAreBelow, TypeOK, Transaction
  <2>3. ~(t.first <= cursor[r])
    <3> SUFFICES ASSUME t.first <= cursor[r] PROVE FALSE
      OBVIOUS
    <3>1. cursor[r] \in t.first..t.last /\ cursor[r] \in u.first..u.last
      BY <1>2, <1>3, <2>1, <2>2
    <3>2. cursor[r] \in 1..CurrentSequence
      BY <1>5, <3>1, <1>3, HeadNumbers
    <3>3. u = t
      BY <3>1, <3>2 DEF FeedInv, FeedIsPartitioned
    <3>4. QED
      BY <1>2, <2>1, <3>3, <1>3
  <2>4. QED
    BY <1>2, <1>3, <2>3
<1>6. QED
  BY <1>4, <1>5

(* Of the end points of a page one is the last.                              *)
LessThan == {p \in Nat \X Nat : p[1] < p[2]}

LEMMA LessThanIsWellFounded == IsWellFoundedOn(LessThan, Nat)
<1>1. IsWellFoundedOn(OpToRel(<, Nat), Nat)
  BY NatLessThanWellFounded
<1>2. QED
  BY <1>1 DEF OpToRel, LessThan

LEMMA LargestExists ==
    ASSUME NEW n \in Nat, NEW T \in SUBSET (0..n), T # {}
    PROVE  \E m \in T : \A k \in T : k <= m
<1> DEFINE D == {n - k : k \in T}
<1>1. D \subseteq Nat /\ D # {}
  <2>1. \A k \in T : k \in 0..n
    OBVIOUS
  <2>2. \A k \in T : n - k \in Nat
    BY <2>1
  <2>3. PICK k \in T : TRUE
    OBVIOUS
  <2>4. n - k \in D
    OBVIOUS
  <2>5. QED
    BY <2>2, <2>4
<1>2. PICK d \in D : \A e \in D : <<e, d>> \notin LessThan
  BY <1>1, LessThanIsWellFounded, WFMin
<1>3. \A e \in D : ~(e < d)
  BY <1>1, <1>2 DEF LessThan
<1>4. PICK m \in T : d = n - m
  OBVIOUS
<1>5. \A k \in T : n - k \in D /\ k \in Nat /\ ~(n - k < n - m)
  BY <1>3, <1>4
<1>6. QED
  BY <1>4, <1>5

(* A page of whole tables is unbroken: it begins after the cursor, and each of *)
(* its groups begins where the one before, which is on the page, ends.         *)
LEMMA WholePageIsUnbroken ==
    ASSUME IInv, StoredInv, lost = 0, NEW r \in Replica, pulling[r] # 0
    PROVE  ~PageIsBroken(r)
<1> USE DEF IInv
<1> DEFINE after == {t \in transactions : t.last > cursor[r]}
           earlier(t) == {u \in after : u.first < t.first}
           page == Page(r, pulling[r])
<1>1. cursor[r] \in Nat /\ cursor[r] < CurrentSequence /\ CurrentSequence \in Nat
      /\ pulling[r] \in Nat /\ pulling[r] >= 1
  BY HeadNumbers, BoundsAssumption DEF ReaderInv, PullersHaveCursor, StoredInv, TypeOK, NoCursor
<1>2. \A t \in published : /\ t.first \in Nat /\ t.last \in Nat /\ 1 <= t.first
                           /\ t.first <= t.last /\ t.last <= CurrentSequence
  BY HeadNumbers DEF FeedInv, GroupsAreBelow, TypeOK, Transaction
<1>3. transactions = published /\ IsFiniteSet(after)
  BY FS_Subset DEF StoredInv, TablesAreWhole
<1>4. page = {t \in after : Cardinality(earlier(t)) < pulling[r]}
  BY DEF Page
<1>5. ASSUME NEW t \in page, NEW u \in after, u.first <= t.first
      PROVE  u \in page
  <2>1. earlier(u) \subseteq earlier(t) /\ earlier(t) \subseteq after
    BY <1>2, <1>3, <1>4, <1>5
  <2>2. IsFiniteSet(earlier(t)) /\ IsFiniteSet(earlier(u))
    BY <2>1, <1>3, FS_Subset
  <2>3. Cardinality(earlier(u)) <= Cardinality(earlier(t))
    BY <2>1, <2>2, FS_Subset
  <2>4. Cardinality(earlier(u)) \in Nat /\ Cardinality(earlier(t)) \in Nat
    BY <2>2, FS_CardinalityType
  <2>5. QED
    BY <1>1, <1>4, <2>3, <2>4
<1>6. PICK start \in published : cursor[r] + 1 \in start.first..start.last /\ cursor[r] < start.first
  BY <1>1, GroupOf
<1>7. start \in page /\ start.first = cursor[r] + 1
  <2>1. start \in after /\ start.first = cursor[r] + 1
    BY <1>1, <1>2, <1>3, <1>6
  <2>2. earlier(start) = {}
    <3> SUFFICES ASSUME NEW u \in after, u.first < start.first PROVE FALSE
      OBVIOUS
    <3>1. u.first <= cursor[r] /\ cursor[r] + 1 <= u.last
      BY <1>1, <1>2, <1>3, <2>1
    <3>2. cursor[r] + 1 \in u.first..u.last /\ cursor[r] + 1 \in 1..CurrentSequence
      BY <1>1, <1>2, <1>3, <3>1
    <3>3. u = start
      BY <1>3, <1>6, <3>2 DEF FeedInv, FeedIsPartitioned
    <3>4. QED
      BY <3>3, <1>2
  <2>3. QED
    BY <1>1, <1>4, <2>1, <2>2, FS_EmptySet
<1>8. PICK end \in {t.last : t \in page} : \A n \in {t.last : t \in page} : n <= end
  <2>1. \A t \in page : t.last \in 0..CurrentSequence
    BY <1>1, <1>2, <1>3, <1>4
  <2> {t.last : t \in page} \in SUBSET (0..CurrentSequence) /\ {t.last : t \in page} # {}
    BY <2>1, <1>7
  <2>2. QED
    BY <1>1, LargestExists
<1>9. end \in PageEnds(page)
  BY <1>8 DEF PageEnds
<1>10. PICK final \in page : end = final.last
  BY <1>8
<1>11. ASSUME NEW q \in (cursor[r] + 1)..end
       PROVE  \E t \in page : q \in t.first..t.last /\ cursor[r] < t.first
  <2>1. final \in published /\ final.last <= CurrentSequence
    BY <1>2, <1>3, <1>4, <1>10
  <2>2. PICK t \in published : q \in t.first..t.last /\ cursor[r] < t.first
    BY <1>1, <1>2, <2>1, <1>10, GroupOf
  <2>3. t \in after
    BY <1>1, <1>2, <1>3, <2>2
  <2>4. t.first <= final.first
    <3> SUFFICES ASSUME final.first < t.first PROVE FALSE
      BY <1>2, <2>1, <2>2
    <3>1. t.first <= q /\ q <= final.last
      BY <1>10, <2>2, <1>2, <1>1, <2>1
    <3>2. q \in final.first..final.last /\ q \in 1..CurrentSequence
      BY <3>1, <1>1, <1>2, <2>1, <2>2
    <3>3. t = final
      BY <3>2, <2>1, <2>2 DEF FeedInv, FeedIsPartitioned
    <3>4. QED
      BY <3>3, <1>2, <2>1
  <2>5. QED
    BY <2>2, <2>3, <2>4, <1>5
<1>12. PageIsContiguous(cursor[r], page, end)
  <2>1. ASSUME NEW t \in page, t.first # cursor[r] + 1
        PROVE  \E u \in page : t.first = u.last + 1
    <3>1. t \in published /\ t.last > cursor[r] /\ t.last <= end
      BY <1>3, <1>4, <1>8
    <3>2. t.first > cursor[r] + 1
      <4> SUFFICES ASSUME t.first <= cursor[r] PROVE FALSE
        BY <2>1, <3>1, <1>1, <1>2
      <4>1. cursor[r] + 1 \in t.first..t.last /\ cursor[r] + 1 \in 1..CurrentSequence
        BY <3>1, <1>1, <1>2
      <4>2. t = start
        BY <4>1, <1>6, <3>1 DEF FeedInv, FeedIsPartitioned
      <4>3. QED
        BY <4>2, <2>1, <1>7
    <3>3. t.first - 1 \in (cursor[r] + 1)..end
      BY <3>1, <3>2, <1>1, <1>2, <1>10, <1>3, <1>4
    <3>4. PICK u \in page : t.first - 1 \in u.first..u.last
      BY <3>3, <1>11
    <3>5. u \in published /\ u # t
      BY <3>4, <3>1, <1>2, <1>3, <1>4
    <3>6. u.last < t.first
      <4> SUFFICES ASSUME t.first <= u.last PROVE FALSE
        BY <3>1, <3>5, <1>2
      <4>1. /\ t.first \in Nat /\ t.last \in Nat /\ u.first \in Nat /\ u.last \in Nat
            /\ 1 <= t.first /\ t.first <= t.last /\ t.last <= CurrentSequence
            /\ u.first <= t.first - 1
        BY <3>1, <3>4, <3>5, <1>2
      <4> t.first \in u.first..u.last /\ t.first \in t.first..t.last
            /\ t.first \in 1..CurrentSequence
        BY <4>1, <1>1
      <4>2. QED
        BY <3>1, <3>5 DEF FeedInv, FeedIsPartitioned
    <3>7. QED
      BY <3>1, <3>4, <3>5, <3>6, <1>2
  <2>2. ASSUME NEW q \in (cursor[r] + 1)..end
        PROVE  \E t \in page : /\ q \in t.first..t.last
                               /\ [sequence |-> q, mutation |-> t.mutation] \in changes
    <3>1. PICK t \in page : q \in t.first..t.last
      BY <2>2, <1>11
    <3>2. t \in published
      BY <1>3, <1>4
    <3>3. QED
      BY <3>1, <3>2 DEF StoredInv, TablesAreWhole
  <2>3. QED
    BY <2>1, <2>2 DEF PageIsContiguous
<1>13. QED
  BY <1>9, <1>12 DEF PageIsBroken

(* The checks of the head, of the oldest change and of the boundary pass too.  *)
LEMMA WholeFeedIsServed ==
    ASSUME IInv, StoredInv, lost = 0, NEW r \in Replica, cursor[r] # NoCursor
    PROVE  ~NeedsBootstrap(r) /\ AtTransactionBoundary(r)
<1> USE DEF IInv
<1>1. cursor[r] \in Nat /\ CurrentSequence \in Nat /\ head \in Nat /\ head # 1
  BY HeadNumbers DEF TypeOK, NoCursor, StoredInv
<1>2. TablesAreWhole
  BY DEF StoredInv
<1>3. \A t \in published : /\ t.first \in Nat /\ t.last \in Nat /\ 1 <= t.first
                           /\ t.first <= t.last /\ t.last <= CurrentSequence
  BY HeadNumbers DEF FeedInv, GroupsAreBelow, TypeOK, Transaction
<1>4. \A c \in changes : c.sequence \in 1..CurrentSequence
  BY <1>2, <1>3, HeadNumbers DEF TablesAreWhole, TypeOK
<1>5. HeadIsPhysical
  <2>1. CASE head = 0
    BY <2>1, <1>4 DEF HeadIsPhysical, CurrentSequence
  <2>2. CASE head # 0
    <3>1. PICK t \in published : t.last = CurrentSequence
      BY <2>2, <1>1 DEF ReaderInv, HeadIsBoundary, CurrentSequence
    <3>2. [sequence |-> t.last, mutation |-> t.mutation] \in changes
      BY <1>2, <1>3 DEF TablesAreWhole
    <3>3. QED
      BY <2>2, <3>1, <3>2, <1>4, <1>1 DEF HeadIsPhysical
  <2>3. QED
    BY <2>1, <2>2
<1>6. ~(cursor[r] < CurrentSequence /\ BehindOldest(r))
  <2> SUFFICES ASSUME cursor[r] < CurrentSequence
               PROVE  \E c \in changes : ~(cursor[r] < c.sequence - 1)
    BY DEF BehindOldest
  <2>1. PICK t \in published : cursor[r] + 1 \in t.first..t.last
    BY <1>1, GroupOf
  <2>2. [sequence |-> cursor[r] + 1, mutation |-> t.mutation] \in changes
    BY <1>2, <2>1 DEF TablesAreWhole
  <2>3. QED
    BY <2>2, <1>1
<1>7. cursor[r] <= CurrentSequence
  BY CursorIsBelowHead
<1>8. AtTransactionBoundary(r)
  BY <1>2 DEF AtTransactionBoundary, TablesAreWhole, ReaderInv, CursorBetweenGroups
<1>9. QED
  BY <1>1, <1>5, <1>6, <1>7, <1>8 DEF NeedsBootstrap, NoCursor

(* As long as no row was lost the gap checks raise no false alarm: a replica    *)
(* with a cursor is served page by page, whatever aborts and interleaves.     *)
THEOREM NoFalseAlarm == Spec => []NoNeedlessBootstrap
<1>1. IInv /\ StoredInv => NoNeedlessBootstrap
  BY WholeFeedIsServed, WholePageIsUnbroken DEF NoNeedlessBootstrap
<1>2. QED
  BY <1>1, InductiveInvariant, StoredInvariant, PTL

-----------------------------------------------------------------------------
(* The head and the groups change in Commit alone.                           *)
LEMMA HeadStep ==
    ASSUME [Next]_vars, \A s \in Session : ~Commit(s)
    PROVE  UNCHANGED <<head, published>>
<1>1. ASSUME NEW s \in Session, Write(s)
      PROVE  UNCHANGED <<head, published>>
  BY <1>1 DEF Write, OpenCommand, RetainRejection, Reserve, WriteChange, Abort
<1>2. ASSUME NEW r \in Replica, Read(r)
      PROVE  UNCHANGED <<head, published>>
  BY <1>2 DEF Read, BeginPull, PullPage, Bootstrap, feedVars
<1>3. QED
  BY <1>1, <1>2 DEF Next, PartialRestore, vars, feedVars

(* The rows, locks and pages of the feed implement the log of FeedLog: a     *)
(* commit appends a group, a page or a snapshot advances a replica, and      *)
(* everything else is invisible.                                             *)
THEOREM FeedImplementsLog == Spec => LogSpec
<1>1. Init => Log!LogInit
  BY DEF Init, Log!LogInit, NextSequence, NoCursor
<1>2. IInv /\ [Next]_vars => [Log!LogNext]_(Log!logVars)
  <2> SUFFICES ASSUME IInv, [Next]_vars
               PROVE  Log!LogNext \/ UNCHANGED Log!logVars
    OBVIOUS
  <2>1. ASSUME NEW s \in Session, Commit(s)
        PROVE  Log!LogNext
    <3> DEFINE w == work[s]
               n == w.last - w.first + 1
    <3>1. /\ w.mutation \in Mutation /\ retained[w.mutation] = "none"
          /\ w.first = NextSequence /\ w.last \in Nat
          /\ NextSequence \in Nat \ {0}
          /\ w.last \in NextSequence..(NextSequence + MaxChanges - 1)
      BY <2>1, HeadNumbers DEF Commit, IInv, TypeOK, FeedInv, WorkIsFresh, RangeIsNext
    <3>2. n \in 1..MaxChanges /\ NextSequence + n - 1 = w.last /\ w.last + 1 = NextSequence + n
      BY <3>1, BoundsAssumption
    <3>3. \A t \in published : t.mutation # w.mutation
      BY <3>1 DEF IInv, FeedInv, OneGroupPerMutation
    <3>4. NextSequence' = w.last + 1
      BY <2>1, <3>1 DEF Commit, NextSequence
    <3>5. published' = published \cup
             {[mutation |-> w.mutation, first |-> NextSequence, last |-> NextSequence + n - 1]}
      BY <2>1, <3>1, <3>2 DEF Commit
    <3>6. UNCHANGED cursor
      BY <2>1 DEF Commit, readVars
    <3>7. Log!Publish(w.mutation, n)
      BY <3>2, <3>3, <3>4, <3>5, <3>6 DEF Log!Publish
    <3>8. QED
      BY <3>1, <3>2, <3>7 DEF Log!LogNext
  <2>2. ASSUME NEW r \in Replica, NEW b \in {0} \cup {t.last : t \in published},
               b > cursor[r], cursor' = [cursor EXCEPT ![r] = b], UNCHANGED feedVars
        PROVE  Log!LogNext
    <3>1. UNCHANGED <<NextSequence, published>>
      BY <2>2 DEF feedVars, NextSequence
    <3>2. Log!Advance(r)
      BY <2>2, <3>1 DEF Log!Advance, Log!Boundaries
    <3>3. QED
      BY <3>2 DEF Log!LogNext
  <2>3. CASE UNCHANGED cursor /\ \A s \in Session : ~Commit(s)
    BY <2>3, HeadStep DEF Log!logVars, NextSequence
  <2>4. QED
    BY <2>1, <2>2, <2>3, CursorStep
<1>3. QED
  BY <1>1, <1>2, InductiveInvariant, PTL DEF Spec, LogSpec, Log!LogSpec
=============================================================================
