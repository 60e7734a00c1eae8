---------------------- MODULE AttachmentCleanupProofs ----------------------
(***************************************************************************)
(* Proofs about the attachment files, for any number of events, files,     *)
(* crashes, resets and failures.                                           *)
(***************************************************************************)
EXTENDS AttachmentCleanup, FiniteSetTheorems, TLAPS

Up == {"booting", "cleaning", "idle"}

(* Nothing is left over from a clean-up when none is under way.            *)
Quiet ==
    /\ worker \in {"down", "replaying", "idle"} => job = 0 /\ pending = {}
    /\ job = 0 => doomed = {}
    /\ worker = "cleaning" => pending = {} \/ (job = 0 /\ \A d, e \in pending : d = e)

(* A projector that has begun holds what the log describes up to its       *)
(* cursor; one that was reset begins at the creation, which clears it.     *)
RowsCurrent ==
    /\ log # << >> => log[1].type = "created"
    /\ \A p \in Projectors : cursor[p] > 0 => rows[p] = RowsAt(p, cursor[p])
    /\ worker \in Up => \A p \in Projectors : cursor[p] = Len(log)

RowsInv == TypeOK /\ Quiet /\ RowsCurrent

-----------------------------------------------------------------------------
(* The rows after k events of the events s.                                *)
RowsOf(s, p, k) ==
    {n \in 1..k :
       /\ s[n].type = RowType[p]
       /\ \A m \in (n + 1)..k :
             ~(s[m].type = "created" \/ Undoes(s[m], s[n]))}

LEMMA RowsAtIsRowsOf ==
    \A p, k : RowsAt(p, k) = RowsOf(log, p, k)
BY DEF RowsAt, RowsOf, Drops

(* Applying event k + 1 to the rows after k events.                        *)
LEMMA ApplyIsRowsOf ==
    ASSUME NEW s \in Seq(Events), NEW p \in Projectors, NEW k \in 0..(Len(s) - 1), NEW old,
           k = 0 => s[1].type = "created",
           k > 0 => old = RowsOf(s, p, k)
    PROVE  Apply(s, p, old, k + 1) = RowsOf(s, p, k + 1)
<1> DEFINE e == s[k + 1]
<1>1. k + 1 \in 1..Len(s) /\ k \in Nat /\ (\A n \in 1..Len(s) : s[n] \in Events)
  OBVIOUS
<1>2. RowType[p] \in {"sent", "answered"}
  BY DEF Projectors, RowType
<1>3. CASE e.type = "created"
  <2>1. Apply(s, p, old, k + 1) = {}
    BY <1>3 DEF Apply
  <2>2. RowsOf(s, p, k + 1) = {}
    <3>1. SUFFICES ASSUME NEW n \in RowsOf(s, p, k + 1) PROVE FALSE
      BY Zenon
    <3>2. n \in 1..(k + 1) /\ s[n].type = RowType[p]
          /\ \A m \in (n + 1)..(k + 1) : s[m].type # "created"
      BY <3>1 DEF RowsOf
    <3> QED
      BY <3>2, <1>1, <1>2, <1>3
  <2> QED
    BY <2>1, <2>2
<1>4. CASE e.type # "created"
  <2>1. k > 0 /\ old = RowsOf(s, p, k)
    BY <1>1, <1>4
  <2>2. \A n : n \in RowsOf(s, p, k + 1) <=>
           \/ n = k + 1 /\ e.type = RowType[p]
           \/ n \in RowsOf(s, p, k) /\ ~Undoes(e, s[n])
    <3>1. ASSUME NEW n, n \in RowsOf(s, p, k + 1), n # k + 1
          PROVE  n \in RowsOf(s, p, k) /\ ~Undoes(e, s[n])
      BY <1>1, <1>4, <3>1 DEF RowsOf
    <3>2. ASSUME NEW n, n \in RowsOf(s, p, k), ~Undoes(e, s[n])
          PROVE  n \in RowsOf(s, p, k + 1)
      <4>1. n \in 1..k /\ s[n].type = RowType[p]
        BY <3>2 DEF RowsOf
      <4>2. ASSUME NEW m \in (n + 1)..(k + 1)
            PROVE  ~(s[m].type = "created" \/ Undoes(s[m], s[n]))
        <5>1. CASE m = k + 1
          BY <5>1, <3>2, <1>4
        <5>2. CASE m # k + 1
          <6>1. m \in (n + 1)..k
            BY <5>2, <4>1, <1>1
          <6> QED
            BY <6>1, <3>2 DEF RowsOf
        <5> QED
          BY <5>1, <5>2
      <4> QED
        BY <4>1, <4>2, <1>1 DEF RowsOf
    <3>3. k + 1 \in RowsOf(s, p, k + 1) <=> e.type = RowType[p]
      BY <1>1 DEF RowsOf
    <3> QED
      BY <3>1, <3>2, <3>3
  <2>3. Apply(s, p, old, k + 1) = {m \in old : ~Undoes(e, s[m])} \cup Added(s, p, k + 1)
    BY <1>4 DEF Apply
  <2>4. \A n : n \in Added(s, p, k + 1) <=> n = k + 1 /\ e.type = RowType[p]
    BY DEF Added
  <2> QED
    BY <2>1, <2>2, <2>3, <2>4
<1> QED
  BY <1>3, <1>4

(* An append leaves the rows of the earlier events as they were.           *)
LEMMA RowsOfPrefix ==
    ASSUME NEW s \in Seq(Events), NEW e \in Events, NEW p, NEW k \in 0..Len(s)
    PROVE  RowsOf(Append(s, e), p, k) = RowsOf(s, p, k)
<1>1. \A n \in 1..k : Append(s, e)[n] = s[n]
  OBVIOUS
<1> QED
  BY <1>1 DEF RowsOf

-----------------------------------------------------------------------------
(* The rows and turn numbers are well-formed.                              *)
LEMMA ApplyBounded ==
    \A s, p, old, n : Apply(s, p, old, n) \subseteq old \cup {n}
BY DEF Apply, Added

LEMMA TurnCountType ==
    ASSUME TypeOK
    PROVE  TurnCount \in Nat
<1>1. Len(log) \in Nat /\ rows["messages"] \subseteq 1..Len(log)
  BY DEF TypeOK, Projectors
<1>2. IsFiniteSet(1..Len(log))
  BY <1>1, FS_Interval
<1>3. IsFiniteSet(rows["messages"])
  BY <1>1, <1>2, FS_Subset
<1> QED
  BY <1>3, FS_CardinalityType DEF TurnCount

LEMMA InitRows == Init => RowsInv
BY BoundsAssumption DEF Init, RowsInv, TypeOK, Quiet, RowsCurrent, Projectors, Files, Events

(* The event that a command commits.                                       *)
CommitsOne(event) ==
    /\ Commit(event)
    /\ event \in Events
    /\ event.file \in Unused \cup {0}
    /\ log = << >> => event.type = "created"

LEMMA UnusedFacts ==
    Unused \subseteq claims /\ \A f \in Unused : \A n \in 1..Len(log) : log[n].file # f
BY DEF Unused

LEMMA CommitCases ==
    ASSUME TypeOK, Create \/ Delete \/ Revert \/ Send \/ AnswerQuestion
    PROVE  \E event : CommitsOne(event)
<1> USE DEF CommitsOne, Event, Events, Types
<1>1. TurnCount \in Nat /\ Unused \subseteq Files
  <2>1. claims \subseteq 1..copied /\ copied \in 0..MaxFiles /\ MaxFiles \in Nat
    BY BoundsAssumption DEF TypeOK
  <2> QED
    BY <2>1, TurnCountType, UnusedFacts DEF Files
<1>2. CASE Create
  BY <1>2 DEF Create
<1>3. CASE Delete
  BY <1>3 DEF Delete, Known
<1>4. CASE Revert
  <2>1. PICK t \in 0..TurnCount : Commit(Event("reverted", 0, t))
    BY <1>4 DEF Revert
  <2>2. t \in Nat
    BY <1>1
  <2>3. CommitsOne(Event("reverted", 0, t))
    BY <1>4, <2>1, <2>2 DEF Revert, Known
  <2> QED
    BY <2>3
<1>5. CASE Send
  <2>1. PICK f \in Unused : Commit(Event("sent", f, TurnCount + 1))
    BY <1>5 DEF Send
  <2>2. CommitsOne(Event("sent", f, TurnCount + 1))
    BY <1>1, <1>5, <2>1 DEF Send, Known
  <2> QED
    BY <2>2
<1>6. CASE AnswerQuestion
  <2>1. PICK f \in Unused : Commit(Event("answered", f, TurnCount))
    BY <1>6 DEF AnswerQuestion
  <2>2. CommitsOne(Event("answered", f, TurnCount))
    BY <1>1, <1>6, <2>1 DEF AnswerQuestion, Known
  <2> QED
    BY <2>2
<1> QED
  BY <1>2, <1>3, <1>4, <1>5, <1>6

LEMMA CommitKeepsType ==
    ASSUME TypeOK, Quiet, NEW event, CommitsOne(event)
    PROVE  TypeOK' /\ Quiet'
<1> USE DEF CommitsOne, Commit
<1>1. log' \in Seq(Events) /\ Len(log') = Len(log) + 1 /\ Len(log) \in Nat
  BY DEF TypeOK
<1>2. rows' \in [Projectors -> SUBSET (1..Len(log'))]
  <2>1. ASSUME NEW p \in Projectors
        PROVE  Apply(log', p, rows[p], Len(log')) \in SUBSET (1..Len(log'))
    <3> HIDE DEF CommitsOne, Commit
    <3>1. rows[p] \in SUBSET (1..Len(log))
      BY DEF TypeOK
    <3>2. Apply(log', p, rows[p], Len(log')) \subseteq rows[p] \cup {Len(log')}
      BY ApplyBounded
    <3> QED
      BY <1>1, <3>1, <3>2
  <2> QED
    BY <2>1
<1>3. cursor' \in [Projectors -> 0..Len(log')] /\ cleaned' \in 0..Len(log')
  BY <1>1 DEF TypeOK
<1>4. claims' \subseteq 1..copied' /\ disk' \subseteq 1..copied' /\ doomed' \subseteq 1..copied'
      /\ copied' \in 0..MaxFiles
  BY DEF TypeOK
<1>5. /\ worker' \in {"cleaning", "idle"} /\ job' = 0 /\ doomed' = {}
      /\ worker' = "idle" => pending' = {}
      /\ pending' \subseteq 1..Len(log')
  BY <1>1 DEF Quiet
<1>6. upsets' \in [crash : 0..MaxCrashes, reset : 0..MaxResets, failure : 0..MaxFailures]
  BY DEF TypeOK
<1>7. TypeOK'
  BY <1>1, <1>2, <1>3, <1>4, <1>5, <1>6 DEF TypeOK
<1> QED
  BY <1>5, <1>7 DEF Quiet

LEMMA CommitKeepsRows ==
    ASSUME RowsInv, NEW event, CommitsOne(event)
    PROVE  RowsCurrent'
<1> USE DEF CommitsOne, Commit
<1>1. log \in Seq(Events) /\ log' = Append(log, event) /\ log' \in Seq(Events)
      /\ Len(log') = Len(log) + 1 /\ Len(log) \in Nat /\ event \in Events
  BY DEF RowsInv, TypeOK
<1>2. log'[1].type = "created"
  <2>1. CASE log = << >>
    BY <1>1, <2>1
  <2>2. CASE log # << >>
    BY <1>1, <2>2 DEF RowsInv, RowsCurrent
  <2> QED
    BY <2>1, <2>2
<1>3. ASSUME NEW p \in Projectors
      PROVE  rows'[p] = RowsOf(log', p, Len(log'))
  <2>1. cursor[p] = Len(log)
    BY DEF RowsInv, RowsCurrent, Up
  <2>2. Len(log) > 0 => rows[p] = RowsOf(log', p, Len(log))
    BY <1>1, <2>1, RowsAtIsRowsOf, RowsOfPrefix DEF RowsInv, RowsCurrent
  <2>3. Apply(log', p, rows[p], Len(log) + 1) = RowsOf(log', p, Len(log) + 1)
    <3> HIDE DEF CommitsOne, Commit
    <3>1. Len(log) \in 0..(Len(log') - 1)
      BY <1>1
    <3> QED
      BY <1>1, <1>2, <2>2, <3>1, ApplyIsRowsOf
  <2> QED
    BY <1>1, <2>3
<1>4. ASSUME NEW p \in Projectors
      PROVE  cursor'[p] = Len(log') /\ rows'[p] = RowsAt(p, cursor[p])'
  BY <1>3 DEF RowsAt, RowsOf, Drops
<1> QED
  BY <1>2, <1>4 DEF RowsCurrent

(* A step of a projector's replay.                                         *)
LEMMA ReplayKeepsRows ==
    ASSUME RowsInv, NEW p \in Projectors, Replay(p)
    PROVE  RowsInv'
<1>1. log \in Seq(Events) /\ Len(log) \in Nat /\ cursor[p] \in 0..(Len(log) - 1)
      /\ log' = log /\ worker' = worker /\ worker = "replaying"
  BY DEF RowsInv, TypeOK, Replay
<1>2. cursor' = [cursor EXCEPT ![p] = cursor[p] + 1]
      /\ rows' = [rows EXCEPT ![p] = Apply(log, p, rows[p], cursor[p] + 1)]
  BY DEF Replay
<1>3. Apply(log, p, rows[p], cursor[p] + 1) = RowsOf(log, p, cursor[p] + 1)
  <2>1. cursor[p] = 0 => log[1].type = "created"
    BY <1>1 DEF RowsInv, RowsCurrent
  <2>2. cursor[p] > 0 => rows[p] = RowsOf(log, p, cursor[p])
    BY RowsAtIsRowsOf DEF RowsInv, RowsCurrent
  <2> QED
    BY <1>1, <2>1, <2>2, ApplyIsRowsOf
<1>4. rows' \in [Projectors -> SUBSET (1..Len(log))] /\ cursor' \in [Projectors -> 0..Len(log)]
  <2>1. rows \in [Projectors -> SUBSET (1..Len(log))] /\ cursor \in [Projectors -> 0..Len(log)]
    BY DEF RowsInv, TypeOK
  <2>2. Apply(log, p, rows[p], cursor[p] + 1) \subseteq rows[p] \cup {cursor[p] + 1}
    BY ApplyBounded
  <2>3. Apply(log, p, rows[p], cursor[p] + 1) \in SUBSET (1..Len(log))
    BY <1>1, <2>1, <2>2
  <2> QED
    BY <1>1, <1>2, <2>1, <2>3
<1>5. TypeOK' /\ Quiet'
  BY <1>1, <1>4 DEF RowsInv, TypeOK, Quiet, Replay
<1>6. RowsCurrent'
  <2>1. ASSUME NEW q \in Projectors, cursor'[q] > 0
        PROVE  rows'[q] = RowsOf(log, q, cursor'[q])
    <3>1. CASE q = p
      BY <1>2, <1>3, <3>1 DEF RowsInv, TypeOK
    <3>2. CASE q # p
      BY <1>2, <2>1, <3>2, RowsAtIsRowsOf DEF RowsInv, TypeOK, RowsCurrent
    <3> QED
      BY <3>1, <3>2
  <2>2. \A q \in Projectors : RowsAt(q, cursor[q])' = RowsOf(log, q, cursor'[q])
    BY <1>1 DEF RowsAt, RowsOf, Drops
  <2>3. worker' \notin Up
    BY <1>1 DEF Up
  <2> QED
    BY <1>1, <2>1, <2>2, <2>3 DEF RowsInv, RowsCurrent
<1> QED
  BY <1>5, <1>6 DEF RowsInv

(* Steps that change neither the log nor the rows, nor bring the server up.*)
LEMMA RowsUntouched ==
    ASSUME RowsCurrent, UNCHANGED <<log, rows>>,
           \A p \in Projectors : cursor'[p] = cursor[p] \/ cursor'[p] = 0,
           worker' \in Up => \A p \in Projectors : cursor'[p] = Len(log)
    PROVE  RowsCurrent'
<1>1. ASSUME NEW p \in Projectors, cursor'[p] > 0
      PROVE  rows'[p] = RowsAt(p, cursor[p])'
  <2>1. cursor'[p] = cursor[p] /\ rows[p] = RowsAt(p, cursor[p])
    BY <1>1 DEF RowsCurrent
  <2>2. RowsAt(p, cursor[p])' = RowsAt(p, cursor'[p])
    BY DEF RowsAt, Drops
  <2> QED
    BY <2>1, <2>2
<1> QED
  BY <1>1 DEF RowsCurrent

LEMMA NextRows == RowsInv /\ [Next]_vars => RowsInv'
<1> SUFFICES ASSUME RowsInv, [Next]_vars PROVE RowsInv'
  OBVIOUS
<1>1. TypeOK /\ Quiet /\ RowsCurrent
  BY DEF RowsInv
<1>2. worker \in Up => \A p \in Projectors : cursor[p] = Len(log)
  BY <1>1 DEF RowsCurrent
<1>3. ASSUME UNCHANGED <<log, rows, cursor>>, worker' \in Up => worker \in Up
      PROVE  RowsCurrent'
  BY <1>1, <1>2, <1>3, RowsUntouched
<1>4. CASE Claim
  <2>1. /\ copied' \in 0..MaxFiles
        /\ disk' \subseteq 1..copied' /\ claims' \subseteq 1..copied' /\ doomed' \subseteq 1..copied'
    <3>1. copied \in 0..MaxFiles /\ MaxFiles \in Nat /\ copied' = copied + 1 /\ copied < MaxFiles
      BY <1>1, <1>4, BoundsAssumption DEF Claim, TypeOK
    <3>2. disk' = disk \cup {copied'} /\ claims' = claims \cup {copied'} /\ doomed' = doomed
      BY <1>4 DEF Claim
    <3>3. disk \subseteq 1..copied /\ claims \subseteq 1..copied /\ doomed \subseteq 1..copied
      BY <1>1 DEF TypeOK
    <3> QED
      BY <3>1, <3>2, <3>3
  <2>2. TypeOK' /\ Quiet'
    BY <1>1, <1>4, <2>1 DEF Claim, TypeOK, Quiet
  <2> QED
    BY <1>3, <1>4, <2>2 DEF Claim, RowsInv
<1>5. ASSUME NEW f \in Files, Reject(f) \/ Accept(f) \/ RemoveEntry(f) \/ EntryVanished(f)
      PROVE  RowsInv'
  <2>1. TypeOK' /\ Quiet'
    BY <1>1, <1>5 DEF Reject, Accept, RemoveEntry, EntryVanished, TypeOK, Quiet
  <2> QED
    BY <1>3, <1>5, <2>1 DEF Reject, Accept, RemoveEntry, EntryVanished, RowsInv
<1>6. CASE Create \/ Delete \/ Revert \/ Send \/ AnswerQuestion
  <2>1. PICK event : CommitsOne(event)
    BY <1>1, <1>6, CommitCases
  <2> QED
    BY <1>1, <2>1, CommitKeepsType, CommitKeepsRows DEF RowsInv
<1>7. CASE BeginCleaning
  <2>1. PICK e \in pending : job' = e /\ pending' = pending \ {e} /\ doomed' = Doomed(e)
    BY <1>7 DEF BeginCleaning
  <2>2. doomed' \subseteq disk /\ job' \in 1..Len(log) /\ pending' \subseteq 1..Len(log)
    BY <1>1, <2>1 DEF Doomed, TypeOK
  <2>3. TypeOK'
    <3>1. worker \in {"booting", "cleaning"}
          /\ UNCHANGED <<log, rows, cursor, cleaned, disk, claims, copied, worker, upsets>>
      BY <1>7 DEF BeginCleaning
    <3>2. Len(log) \in Nat /\ job' \in 0..Len(log) /\ doomed' \subseteq 1..copied
      BY <1>1, <2>2 DEF TypeOK
    <3> QED
      BY <1>1, <2>2, <3>1, <3>2 DEF TypeOK
  <2>4. Quiet'
    BY <1>1, <1>7, <2>1, <2>2 DEF BeginCleaning, Quiet, TypeOK
  <2> QED
    BY <1>3, <1>7, <2>3, <2>4 DEF BeginCleaning, RowsInv
<1>8. CASE CleaningFails
  <2>1. upsets' \in [crash : 0..MaxCrashes, reset : 0..MaxResets, failure : 0..MaxFailures]
    BY <1>1, <1>8, BoundsAssumption DEF CleaningFails, Upset, MaxUpsets, TypeOK
  <2>2. worker \in Up
    BY <1>1, <1>8 DEF CleaningFails, Quiet, TypeOK, Up
  <2>3. TypeOK' /\ Quiet'
    BY <1>1, <1>8, <2>1 DEF CleaningFails, TypeOK, Quiet
  <2> QED
    BY <1>3, <1>8, <2>2, <2>3 DEF CleaningFails, RowsInv
<1>9. CASE CleaningEnds
  <2>1. worker \in {"booting", "cleaning"}
    BY <1>1, <1>9 DEF CleaningEnds, Quiet, TypeOK
  <2>2. TypeOK'
    BY <1>1, <1>9, <2>1 DEF CleaningEnds, TypeOK
  <2>3. Quiet'
    BY <1>1, <1>9, <2>1 DEF CleaningEnds, Quiet
  <2> QED
    BY <1>3, <1>9, <2>1, <2>2, <2>3 DEF CleaningEnds, RowsInv, Up
<1>10. CASE Crash
  <2>1. upsets' \in [crash : 0..MaxCrashes, reset : 0..MaxResets, failure : 0..MaxFailures]
    BY <1>1, <1>10, BoundsAssumption, SMTT(30) DEF Crash, Upset, MaxUpsets, TypeOK
  <2>2. TypeOK' /\ Quiet'
    BY <1>1, <1>10, <2>1 DEF Crash, TypeOK, Quiet
  <2> QED
    BY <1>3, <1>10, <2>2 DEF Crash, RowsInv, Up
<1>11. CASE StartBootstrap
  <2>1. cleaned' \in 0..Len(log)
    <3>1. cursor["messages"] \in 0..Len(log) /\ cursor["activities"] \in 0..Len(log)
          /\ cleaned \in 0..Len(log)
      BY <1>1 DEF TypeOK, Projectors
    <3>2. \E c \in {cleaned, cursor["messages"], cursor["activities"]} :
             c <= cleaned /\ c <= cursor["messages"] /\ c <= cursor["activities"]
      BY <3>1
    <3>3. cleaned' \in {cleaned, cursor["messages"], cursor["activities"]}
      BY <1>11, <3>2 DEF StartBootstrap, Projectors
    <3> QED
      BY <3>1, <3>3
  <2>2. TypeOK' /\ Quiet'
    BY <1>1, <1>11, <2>1 DEF StartBootstrap, TypeOK, Quiet
  <2> QED
    BY <1>3, <1>11, <2>2 DEF StartBootstrap, RowsInv, Up
<1>12. CASE CollectCleanups
  <2>1. TypeOK' /\ Quiet'
    BY <1>1, <1>12 DEF CollectCleanups, TypeOK, Quiet
  <2>2. RowsCurrent'
    BY <1>1, <1>12, RowsUntouched DEF CollectCleanups
  <2> QED
    BY <2>1, <2>2 DEF RowsInv
<1>13. CASE FinishBootstrap
  <2>1. TypeOK' /\ Quiet'
    BY <1>1, <1>13 DEF FinishBootstrap, TypeOK, Quiet
  <2> QED
    BY <1>3, <1>13, <2>1 DEF FinishBootstrap, RowsInv, Up
<1>14. ASSUME NEW p \in Projectors, Reset(p) PROVE RowsInv'
  <2>1. upsets' \in [crash : 0..MaxCrashes, reset : 0..MaxResets, failure : 0..MaxFailures]
    <3>1. Upset("reset")
      BY <1>14 DEF Reset
    <3> QED
      BY <1>1, <3>1, BoundsAssumption, SMTT(30) DEF Upset, MaxUpsets, TypeOK
  <2>2. TypeOK' /\ Quiet'
    BY <1>1, <1>14, <2>1 DEF Reset, TypeOK, Quiet
  <2>3. \A q \in Projectors : cursor'[q] = cursor[q] \/ cursor'[q] = 0
    BY <1>1, <1>14 DEF Reset, TypeOK
  <2>4. RowsCurrent'
    BY <1>1, <1>14, <2>3, RowsUntouched DEF Reset, Up
  <2> QED
    BY <2>2, <2>4 DEF RowsInv
<1>15. ASSUME NEW p \in Projectors, Replay(p) PROVE RowsInv'
  BY <1>15, ReplayKeepsRows
<1>16. CASE UNCHANGED vars
  <2>1. TypeOK' /\ Quiet'
    BY <1>1, <1>16 DEF vars, TypeOK, Quiet
  <2> QED
    BY <1>3, <1>16, <2>1 DEF vars, RowsInv
<1> QED
  BY <1>4, <1>5, <1>6, <1>7, <1>8, <1>9, <1>10, <1>11, <1>12, <1>13, <1>14, <1>15, <1>16 DEF Next

LEMMA RowsAlways == Spec => []RowsInv
BY InitRows, NextRows, PTL DEF Spec

(* Every variable of the clean-up keeps its shape.                         *)
THEOREM TypeCorrect == Spec => []TypeOK
<1>1. RowsInv => TypeOK
  BY DEF RowsInv
<1> QED
  BY <1>1, RowsAlways, PTL

(* Whatever crashed and whichever projector was reset, bootstrap rebuilds  *)
(* the rows that the log describes before it removes a file, and the       *)
(* worker keeps them so.                                                   *)
THEOREM ReplayRebuildsRows == Spec => []RowsMatchLog
<1>1. RowsInv => RowsMatchLog
  <2> SUFFICES ASSUME RowsInv, worker \in Up, NEW p \in Projectors
               PROVE  rows[p] = RowsAt(p, Len(log))
    BY DEF RowsMatchLog, Up
  <2>1. cursor[p] = Len(log) /\ rows[p] \subseteq 1..Len(log) /\ Len(log) \in Nat
    BY DEF RowsInv, RowsCurrent, TypeOK
  <2>2. CASE Len(log) > 0
    BY <2>1, <2>2 DEF RowsInv, RowsCurrent
  <2>3. CASE Len(log) = 0
    BY <2>1, <2>3 DEF RowsAt
  <2> QED
    BY <2>1, <2>2, <2>3
<1> QED
  BY <1>1, RowsAlways, PTL

-----------------------------------------------------------------------------
(***************************************************************************)
(* Files.  A file belongs to one event at most: a copy that an event       *)
(* refers to is not used for another command.                              *)
(***************************************************************************)
FilesOnce ==
    /\ \A n \in 1..Len(log) : log[n].file \in 0..copied
    /\ \A m, n \in 1..Len(log) : m # n => log[m].file # log[n].file \/ log[m].file = 0

CleanedTypes == {"reverted", "deleted"}

(* What is being removed is not referred to.                               *)
Spared ==
    /\ \A e \in pending : log[e].type \in CleanedTypes
    /\ Exists => \A p \in Projectors : \A n \in RowsAt(p, Len(log)) : log[n].file \notin doomed

FilesInv == FilesOnce /\ Spared

LEMMA InitFiles == Init => FilesInv
BY DEF Init, FilesInv, FilesOnce, Spared

(* A commit gives the file of its command to the new event.                *)
LEMMA CommitKeepsFiles ==
    ASSUME RowsInv, FilesInv, NEW event, CommitsOne(event)
    PROVE  FilesInv'
<1>1. /\ log \in Seq(Events) /\ Len(log) \in Nat /\ event \in Events
      /\ log' = Append(log, event) /\ Len(log') = Len(log) + 1
      /\ copied' = copied /\ copied \in Nat
      /\ claims \subseteq 1..copied /\ event.file \in Unused \cup {0}
      /\ doomed' = doomed /\ doomed = {}
  <2>1. /\ worker = "idle" /\ log' = Append(log, event) /\ copied' = copied /\ doomed' = doomed
        /\ event \in Events /\ event.file \in Unused \cup {0}
    BY DEF CommitsOne, Commit
  <2>2. log \in Seq(Events) /\ Len(log) \in Nat /\ copied \in Nat /\ claims \subseteq 1..copied
    BY BoundsAssumption DEF RowsInv, TypeOK
  <2>3. doomed = {}
    BY <2>1 DEF RowsInv, Quiet
  <2> QED
    BY <2>1, <2>2, <2>3
<1>2. \A n \in 1..Len(log) : log'[n] = log[n]
  BY <1>1
<1>3. log'[Len(log')] = event
  BY <1>1
<1>4. \A n \in 1..Len(log') : n \in 1..Len(log) \/ n = Len(log')
  BY <1>1
<1>5. event.file \in 0..copied
  <2>1. event.file \in claims \cup {0}
    BY <1>1, UnusedFacts
  <2>2. event.file \in 1..copied \/ event.file = 0
    BY <1>1, <2>1, Zenon
  <2> QED
    BY <1>1, <2>2
<1>6. \A n \in 1..Len(log) : log[n].file # event.file \/ log[n].file = 0
  BY <1>1, UnusedFacts
<1>7. FilesOnce'
  <2>1. \A n \in 1..Len(log') : log'[n].file \in 0..copied'
    BY <1>1, <1>2, <1>3, <1>4, <1>5 DEF FilesInv, FilesOnce
  <2>2. ASSUME NEW m \in 1..Len(log'), NEW n \in 1..Len(log'), m # n
        PROVE  log'[m].file # log'[n].file \/ log'[m].file = 0
    <3>1. CASE m \in 1..Len(log) /\ n \in 1..Len(log)
      BY <1>2, <2>2, <3>1 DEF FilesInv, FilesOnce
    <3>2. CASE m = Len(log')
      BY <1>2, <1>3, <1>4, <1>6, <2>2, <3>2
    <3>3. CASE n = Len(log')
      BY <1>2, <1>3, <1>4, <1>6, <2>2, <3>3
    <3> QED
      BY <1>4, <3>1, <3>2, <3>3
  <2> QED
    BY <2>1, <2>2 DEF FilesOnce
<1>8. Spared'
  <2>1. \A e \in pending' : e = Len(log') /\ event.type \in CleanedTypes
    BY DEF CommitsOne, Commit, CleanedTypes
  <2> QED
    BY <1>1, <1>3, <2>1 DEF Spared
<1> QED
  BY <1>7, <1>8 DEF FilesInv

(* What a clean-up picks to remove is not referred to.                     *)
LEMMA DoomedUnreferenced ==
    ASSUME RowsInv, FilesInv, worker \in Up, NEW e \in pending, Exists,
           NEW p \in Projectors, NEW n \in RowsAt(p, Len(log))
    PROVE  log[n].file \notin Doomed(e)
<1>1. e \in 1..Len(log) /\ log[e].type \in CleanedTypes
  BY DEF RowsInv, TypeOK, FilesInv, Spared
<1>2. CASE log[e].type = "reverted"
  <2>1. rows[p] = RowsAt(p, Len(log))
    <3>1. Len(log) > 0 /\ cursor[p] = Len(log)
      BY <1>1 DEF RowsInv, RowsCurrent, TypeOK
    <3> QED
      BY <3>1 DEF RowsInv, RowsCurrent
  <2>2. n \in rows["messages"] \cup rows["activities"]
    BY <2>1 DEF Projectors
  <2> QED
    BY <1>2, <2>2 DEF Doomed, Kept
<1>3. CASE log[e].type = "deleted"
  <2>1. RecreatedAfter(e)
    BY <1>1, <1>3 DEF Exists
  <2> QED
    BY <1>3, <2>1 DEF Doomed
<1> QED
  BY <1>1, <1>2, <1>3 DEF CleanedTypes

(* Steps that leave the log alone keep the files apart.                    *)
LEMMA FilesUntouched ==
    ASSUME FilesInv, UNCHANGED log, copied \in Nat, copied' \in Nat,
           copied' >= copied,
           pending' \subseteq pending, doomed' \subseteq doomed
    PROVE  FilesInv'
<1>1. FilesOnce'
  BY DEF FilesInv, FilesOnce
<1>2. (Exists' <=> Exists) /\ \A p \in Projectors : RowsAt(p, Len(log))' = RowsAt(p, Len(log))
  BY DEF Exists, Known, RecreatedAfter, RowsAt, Drops
<1>3. Spared'
  BY <1>2 DEF FilesInv, Spared
<1> QED
  BY <1>1, <1>3 DEF FilesInv

LEMMA NextFiles == RowsInv /\ FilesInv /\ [Next]_vars => FilesInv'
<1> SUFFICES ASSUME RowsInv, FilesInv, [Next]_vars PROVE FilesInv'
  OBVIOUS
<1>1. copied \in Nat
  BY BoundsAssumption DEF RowsInv, TypeOK
<1>2. ASSUME UNCHANGED <<log, copied>>,
             pending' \subseteq pending, doomed' \subseteq doomed
      PROVE  FilesInv'
  BY <1>1, <1>2, FilesUntouched
<1>3. CASE Claim
  <2>1. UNCHANGED <<log, pending, doomed>> /\ copied' = copied + 1
    BY <1>3 DEF Claim
  <2>2. copied' \in Nat /\ copied' >= copied
    BY <1>1, <2>1
  <2> QED
    BY <1>1, <2>1, <2>2, FilesUntouched
<1>4. ASSUME NEW f \in Files, Reject(f) \/ Accept(f) \/ RemoveEntry(f) \/ EntryVanished(f)
      PROVE  FilesInv'
  BY <1>2, <1>4 DEF Reject, Accept, RemoveEntry, EntryVanished
<1>5. CASE Create \/ Delete \/ Revert \/ Send \/ AnswerQuestion
  <2>1. PICK event : CommitsOne(event)
    BY <1>5, CommitCases DEF RowsInv
  <2> QED
    BY <2>1, CommitKeepsFiles
<1>6. CASE BeginCleaning
  <2>1. PICK e \in pending : doomed' = Doomed(e)
    BY <1>6 DEF BeginCleaning
  <2>2. worker \in Up /\ UNCHANGED <<log, copied, claims>> /\ pending' \subseteq pending
    BY <1>6 DEF BeginCleaning, Up
  <2>3. FilesOnce'
    BY <2>2 DEF FilesInv, FilesOnce
  <2>4. (Exists' <=> Exists) /\ \A p \in Projectors : RowsAt(p, Len(log))' = RowsAt(p, Len(log))
    BY <2>2 DEF Exists, Known, RecreatedAfter, RowsAt, Drops
  <2>5. Exists => \A p \in Projectors : \A n \in RowsAt(p, Len(log)) : log[n].file \notin doomed'
    BY <2>1, <2>2, DoomedUnreferenced
  <2>6. Spared'
    BY <2>2, <2>4, <2>5 DEF FilesInv, Spared
  <2> QED
    BY <2>3, <2>6 DEF FilesInv
<1>7. CASE CleaningFails \/ CleaningEnds \/ Crash \/ StartBootstrap \/ FinishBootstrap
  BY <1>2, <1>7 DEF CleaningFails, CleaningEnds, Crash, StartBootstrap, FinishBootstrap
<1>8. CASE CollectCleanups
  <2>1. FilesOnce'
    BY <1>8 DEF CollectCleanups, FilesInv, FilesOnce
  <2>2. \A e \in pending' : log'[e].type \in CleanedTypes
    BY <1>8 DEF CollectCleanups, CleanedTypes
  <2>3. doomed' = {}
    BY <1>8 DEF CollectCleanups, RowsInv, Quiet
  <2> QED
    BY <2>1, <2>2, <2>3 DEF FilesInv, Spared
<1>9. ASSUME NEW p \in Projectors, Reset(p) \/ Replay(p) PROVE FilesInv'
  BY <1>2, <1>9 DEF Reset, Replay
<1>10. CASE UNCHANGED vars
  BY <1>2, <1>10 DEF vars
<1> QED
  BY <1>3, <1>4, <1>5, <1>6, <1>7, <1>8, <1>9, <1>10 DEF Next

LEMMA FilesAlways == Spec => [](RowsInv /\ FilesInv)
<1>1. Init => RowsInv /\ FilesInv
  BY InitRows, InitFiles
<1>2. RowsInv /\ FilesInv /\ [Next]_vars => (RowsInv /\ FilesInv)'
  BY NextRows, NextFiles
<1> QED
  BY <1>1, <1>2, PTL DEF Spec

(* A step takes only doomed entries, and the copy of a command answered    *)
(* with an error, off the disk.                                            *)
LEMMA Removals ==
    ASSUME [Next]_vars, NEW g \in disk, g \notin disk'
    PROVE  g \in doomed \cup (claims \ claims')
<1>1. CASE Claim
  BY <1>1 DEF Claim
<1>2. ASSUME NEW f \in Files, Reject(f) \/ Accept(f) \/ RemoveEntry(f) \/ EntryVanished(f)
      PROVE  g \in doomed \cup (claims \ claims')
  BY <1>2 DEF Reject, Accept, RemoveEntry, EntryVanished
<1>3. CASE Create \/ Delete \/ Revert \/ Send \/ AnswerQuestion
  BY <1>3 DEF Create, Delete, Revert, Send, AnswerQuestion, Commit
<1>4. CASE BeginCleaning \/ CleaningFails \/ CleaningEnds
  BY <1>4 DEF BeginCleaning, CleaningFails, CleaningEnds
<1>5. CASE Crash \/ StartBootstrap \/ CollectCleanups \/ FinishBootstrap
  BY <1>5 DEF Crash, StartBootstrap, CollectCleanups, FinishBootstrap
<1>6. ASSUME NEW p \in Projectors, Reset(p) \/ Replay(p) PROVE g \in doomed \cup (claims \ claims')
  BY <1>6 DEF Reset, Replay
<1>7. CASE UNCHANGED vars
  BY <1>7 DEF vars
<1> QED
  BY <1>1, <1>2, <1>3, <1>4, <1>5, <1>6, <1>7 DEF Next

(* No clean-up ever removes a file that the existing thread refers to: not *)
(* one repeated after a restart or overtaken by a new incarnation, and not *)
(* that of another failed command.  A referenced file goes only when the   *)
(* command that brought it is answered with an error.                      *)
THEOREM ReferencedFilesStay == Spec => SparesReferenced
<1>1. RowsInv /\ FilesInv /\ [Next]_vars =>
         \A n \in 1..Len(log) :
            (Referenced(n) /\ log[n].file \in disk)
               => log[n].file \in disk' \/ log[n].file \in claims \ claims'
  <2> SUFFICES ASSUME RowsInv, FilesInv, [Next]_vars, NEW n \in 1..Len(log), Referenced(n),
                      log[n].file \in disk, log[n].file \notin disk'
               PROVE  log[n].file \in claims \ claims'
    OBVIOUS
  <2>1. log[n].file \in doomed \cup (claims \ claims')
    BY Removals
  <2>2. log[n].file \notin doomed
    BY DEF Referenced, FilesInv, Spared
  <2> QED
    BY <2>1, <2>2
<1> QED
  BY <1>1, FilesAlways, PTL DEF Spec, SparesReferenced

-----------------------------------------------------------------------------
(***************************************************************************)
(* Orphans.  While bootstrap cleans, each last revert or deletion after    *)
(* its cursor is still pending, being cleaned, or leaves nothing to do.    *)
(***************************************************************************)
IsLast(e) == \A d \in (e + 1)..Len(log) : log[d].type # log[e].type

Lasts ==
    \A r \in 1..Len(log) : \E e \in r..Len(log) : log[e].type = log[r].type /\ IsLast(e)

Accounted(e) ==
    \/ e \in pending
    \/ job = e /\ Doomed(e) \subseteq doomed
    \/ Doomed(e) = {}

Booting ==
    worker = "booting" =>
       \A e \in (cleaned + 1)..Len(log) :
          log[e].type \in CleanedTypes /\ IsLast(e) => Accounted(e)

CleanInv == Lasts /\ Booting /\ OrphansAreRetried

LEMMA InitClean == Init => CleanInv
BY DEF Init, CleanInv, Lasts, Booting, OrphansAreRetried

(* The cursor does not advance, and new files are of no committed event.   *)
LEMMA OrphansKept ==
    ASSUME RowsInv, FilesInv, OrphansAreRetried, UNCHANGED log,
           cleaned' \in 0..cleaned, disk' \subseteq disk \cup {f \in Nat : f > copied}
    PROVE  OrphansAreRetried'
<1>1. Len(log) \in Nat /\ cleaned \in 0..Len(log) /\ copied \in Nat
  BY BoundsAssumption DEF RowsInv, TypeOK
<1> SUFFICES ASSUME NEW r \in 1..cleaned', NEW n \in 1..Len(log), OrphanedBy(r, n)'
             PROVE  log[n].file \notin disk'
  BY DEF OrphansAreRetried
<1>2. r \in 1..cleaned
  BY <1>1
<1>3. OrphanedBy(r, n)
  BY DEF OrphanedBy, Drops, RecreatedAfter
<1>4. log[n].file \notin disk
  BY <1>2, <1>3 DEF OrphansAreRetried
<1>5. log[n].file \in 0..copied
  BY DEF FilesInv, FilesOnce
<1> QED
  BY <1>1, <1>4, <1>5

(* A commit does not reach back behind the clean-up cursor.                *)
LEMMA CommitKeepsClean ==
    ASSUME RowsInv, FilesInv, CleanInv, NEW event, CommitsOne(event)
    PROVE  CleanInv'
<1>1. /\ log \in Seq(Events) /\ Len(log) \in Nat /\ event \in Events
      /\ log' = Append(log, event) /\ Len(log') = Len(log) + 1
      /\ cleaned' = cleaned /\ disk' = disk /\ cleaned \in 0..Len(log)
      /\ worker' \in {"cleaning", "idle"}
  <2>1. event \in Events /\ log' = Append(log, event) /\ cleaned' = cleaned /\ disk' = disk
        /\ worker' \in {"cleaning", "idle"}
    BY DEF CommitsOne, Commit
  <2>2. log \in Seq(Events) /\ Len(log) \in Nat /\ cleaned \in 0..Len(log)
    BY DEF RowsInv, TypeOK
  <2> QED
    BY <2>1, <2>2
<1>2. \A n \in 1..Len(log) : log'[n] = log[n]
  BY <1>1
<1>3. log'[Len(log')] = event
  BY <1>1
<1>4. Lasts'
  <2> SUFFICES ASSUME NEW r \in 1..Len(log')
               PROVE  \E e \in r..Len(log') : /\ log'[e].type = log'[r].type
                                              /\ \A d \in (e + 1)..Len(log') : log'[d].type # log'[e].type
    BY DEF Lasts, IsLast
  <2>1. CASE log'[r].type = event.type
    <3>1. Len(log') \in r..Len(log') /\ (Len(log') + 1)..Len(log') = {}
      BY <1>1
    <3> QED
      BY <1>3, <2>1, <3>1
  <2>2. CASE log'[r].type # event.type
    <3>1. r \in 1..Len(log)
      BY <1>1, <1>3, <2>2
    <3>2. PICK e \in r..Len(log) : log[e].type = log[r].type /\ IsLast(e)
      BY <3>1 DEF CleanInv, Lasts
    <3>3. e \in r..Len(log') /\ log'[e] = log[e] /\ log'[r] = log[r]
      BY <1>1, <1>2, <3>1
    <3>4. ASSUME NEW d \in (e + 1)..Len(log') PROVE log'[d].type # log'[e].type
      <4>1. CASE d = Len(log')
        BY <1>3, <2>2, <3>2, <3>3, <4>1
      <4>2. CASE d # Len(log')
        <5>1. d \in (e + 1)..Len(log) /\ d \in 1..Len(log)
          BY <1>1, <3>1, <4>2
        <5> QED
          BY <1>2, <3>2, <3>3, <5>1 DEF IsLast
      <4> QED
        BY <4>1, <4>2
    <3> QED
      BY <3>2, <3>3, <3>4
  <2> QED
    BY <2>1, <2>2
<1>5. OrphansAreRetried'
  <2> SUFFICES ASSUME NEW r \in 1..cleaned', NEW n \in 1..Len(log'), OrphanedBy(r, n)'
               PROVE  log'[n].file \notin disk'
    BY DEF OrphansAreRetried
  <2>1. r \in 1..cleaned /\ r \in 1..Len(log) /\ n < r /\ n \in 1..Len(log)
    BY <1>1 DEF OrphanedBy
  <2>2. \A m \in (n + 1)..r : log'[m] = log[m]
    BY <1>1, <1>2, <2>1
  <2>3. RecreatedAfter(r) => RecreatedAfter(r)'
    <3>1. \A m \in (r + 1)..Len(log) : m \in (r + 1)..Len(log') /\ log'[m] = log[m]
      BY <1>1, <1>2, <2>1
    <3> QED
      BY <3>1 DEF RecreatedAfter
  <2>4. OrphanedBy(r, n)
    BY <1>2, <2>1, <2>2, <2>3 DEF OrphanedBy, Drops
  <2> QED
    BY <1>1, <1>2, <2>1, <2>4 DEF CleanInv, OrphansAreRetried
<1>6. Booting'
  BY <1>1 DEF Booting
<1> QED
  BY <1>4, <1>5, <1>6 DEF CleanInv

(* The cursor moves to the end of the log when nothing is left to clean.   *)
LEMMA FinishKeepsClean ==
    ASSUME RowsInv, FilesInv, CleanInv, FinishBootstrap
    PROVE  OrphansAreRetried'
<1>1. /\ worker = "booting" /\ job = 0 /\ pending = {} /\ cleaned' = Len(log)
      /\ UNCHANGED <<log, disk>>
  BY DEF FinishBootstrap
<1>2. Len(log) \in Nat /\ cleaned \in 0..Len(log) /\ disk \subseteq 1..copied /\ copied \in Nat
  BY BoundsAssumption DEF RowsInv, TypeOK
<1> SUFFICES ASSUME NEW r \in 1..Len(log), NEW n \in 1..Len(log), OrphanedBy(r, n),
                    log[n].file \in disk
             PROVE  FALSE
  <2>1. \A r \in 1..Len(log), n \in 1..Len(log) : OrphanedBy(r, n)' <=> OrphanedBy(r, n)
    BY <1>1 DEF OrphanedBy, Drops, RecreatedAfter
  <2> QED
    BY <1>1, <2>1 DEF OrphansAreRetried
<1>3. r \in (cleaned + 1)..Len(log)
  BY <1>2 DEF CleanInv, OrphansAreRetried
<1>4. PICK e \in r..Len(log) : log[e].type = log[r].type /\ IsLast(e)
  BY DEF CleanInv, Lasts
<1>5. log[e].type \in CleanedTypes /\ e \in (cleaned + 1)..Len(log) /\ e # 0
  BY <1>2, <1>3, <1>4 DEF OrphanedBy, CleanedTypes
<1>6. Doomed(e) = {}
  BY <1>1, <1>4, <1>5 DEF CleanInv, Booting, Accounted
<1>7. CASE log[r].type = "reverted"
  <2>1. log[n].file \in Kept
    BY <1>4, <1>6, <1>7 DEF Doomed
  <2>2. PICK p \in Projectors : \E m \in rows[p] : log[m].file = log[n].file
    BY <2>1 DEF Kept, Projectors
  <2>3. PICK m \in rows[p] : log[m].file = log[n].file
    BY <2>2
  <2>4. rows[p] = RowsAt(p, Len(log)) /\ m \in 1..Len(log)
    BY <1>1, <1>2, <1>3, <2>3 DEF RowsInv, TypeOK, RowsCurrent, Up
  <2>5. m = n
    BY <1>2, <2>3, <2>4 DEF FilesInv, FilesOnce
  <2>6. PICK k \in (n + 1)..r : Drops(k, n)
    BY <1>7 DEF OrphanedBy
  <2>7. k \in (n + 1)..Len(log)
    BY <1>2
  <2> QED
    BY <2>4, <2>5, <2>6, <2>7 DEF RowsAt
<1>8. CASE log[r].type = "deleted"
  <2>1. ~RecreatedAfter(e)
    BY <1>2, <1>3, <1>4, <1>8 DEF OrphanedBy, RecreatedAfter
  <2> QED
    BY <1>4, <1>6, <1>8, <2>1 DEF Doomed
<1> QED
  BY <1>7, <1>8 DEF OrphanedBy

LEMMA NextClean == RowsInv /\ FilesInv /\ CleanInv /\ [Next]_vars => CleanInv'
<1> SUFFICES ASSUME RowsInv, FilesInv, CleanInv, [Next]_vars PROVE CleanInv'
  OBVIOUS
<1>1. Len(log) \in Nat /\ cleaned \in 0..Len(log) /\ copied \in Nat
  BY BoundsAssumption DEF RowsInv, TypeOK
<1>2. ASSUME UNCHANGED log PROVE Lasts'
  BY <1>2 DEF CleanInv, Lasts, IsLast
<1>3. ASSUME UNCHANGED <<log, cleaned>>, disk' \subseteq disk, Booting' PROVE CleanInv'
  BY <1>1, <1>2, <1>3, OrphansKept DEF CleanInv
<1>4. CASE Claim
  <2>1. UNCHANGED <<log, cleaned>> /\ disk' \subseteq disk \cup {f \in Nat : f > copied}
    BY <1>1, <1>4 DEF Claim
  <2>2. Booting'
    BY <1>4 DEF Claim, Booting
  <2> QED
    BY <1>1, <1>2, <2>1, <2>2, OrphansKept DEF CleanInv
<1>5. ASSUME NEW f \in Files, Reject(f) \/ Accept(f) PROVE CleanInv'
  <2>1. worker' # "booting"
    BY <1>5 DEF Reject, Accept, RowsInv, TypeOK
  <2> QED
    BY <1>3, <1>5, <2>1 DEF Reject, Accept, Booting
<1>6. ASSUME NEW f \in Files, RemoveEntry(f) \/ EntryVanished(f) PROVE CleanInv'
  <2>1. UNCHANGED <<log, rows, cleaned, worker, pending, job>>
        /\ disk' \subseteq disk /\ doomed' = doomed \ {f} /\ f \notin disk'
    BY <1>6 DEF RemoveEntry, EntryVanished
  <2>2. \A e : Doomed(e)' \subseteq Doomed(e) /\ f \notin Doomed(e)'
    BY <2>1 DEF Doomed, Kept, RecreatedAfter
  <2>3. \A e : Accounted(e) => Accounted(e)'
    BY <2>1, <2>2 DEF Accounted
  <2>4. Booting'
    BY <2>1, <2>3 DEF CleanInv, Booting, IsLast
  <2> QED
    BY <1>3, <2>1, <2>4
<1>7. CASE Create \/ Delete \/ Revert \/ Send \/ AnswerQuestion
  <2>1. PICK event : CommitsOne(event)
    BY <1>7, CommitCases DEF RowsInv
  <2> QED
    BY <2>1, CommitKeepsClean
<1>8. CASE BeginCleaning
  <2>1. PICK e \in pending : job' = e /\ pending' = pending \ {e} /\ doomed' = Doomed(e)
    BY <1>8 DEF BeginCleaning
  <2>2. UNCHANGED <<log, rows, cleaned, worker, disk>> /\ job = 0
    BY <1>8 DEF BeginCleaning
  <2>3. \A d : Doomed(d)' = Doomed(d)
    BY <2>2 DEF Doomed, Kept, RecreatedAfter
  <2>4. \A d \in 1..Len(log) : Accounted(d) => Accounted(d)'
    BY <2>1, <2>2, <2>3 DEF Accounted
  <2>5. Booting'
    BY <1>1, <2>2, <2>4 DEF CleanInv, Booting, IsLast
  <2> QED
    BY <1>3, <2>2, <2>5
<1>9. CASE CleaningFails \/ Crash
  BY <1>3, <1>9 DEF CleaningFails, Crash, Booting
<1>10. CASE CleaningEnds
  <2>1. UNCHANGED <<log, rows, cleaned, disk, pending>> /\ doomed = {}
        /\ (worker' = "booting" => worker = "booting")
    BY <1>10 DEF CleaningEnds
  <2>2. \A d : Doomed(d)' = Doomed(d)
    BY <2>1 DEF Doomed, Kept, RecreatedAfter
  <2>3. \A d : Accounted(d) => Accounted(d)'
    BY <2>1, <2>2 DEF Accounted
  <2>4. Booting'
    BY <2>1, <2>3 DEF CleanInv, Booting, IsLast
  <2> QED
    BY <1>3, <2>1, <2>4
<1>11. CASE StartBootstrap
  <2>1. cursor["messages"] \in 0..Len(log) /\ cursor["activities"] \in 0..Len(log)
    BY DEF RowsInv, TypeOK, Projectors
  <2>2. \E c \in {cleaned, cursor["messages"], cursor["activities"]} :
           c <= cleaned /\ \A p \in Projectors : c <= cursor[p]
    BY <1>1, <2>1 DEF Projectors
  <2>3. cleaned' \in {cleaned, cursor["messages"], cursor["activities"]} /\ cleaned' <= cleaned
    BY <1>11, <2>2 DEF StartBootstrap
  <2>4. cleaned' \in 0..cleaned
    BY <1>1, <2>1, <2>3
  <2>5. OrphansAreRetried'
    BY <1>11, <2>4, OrphansKept DEF StartBootstrap, CleanInv
  <2> QED
    BY <1>2, <1>11, <2>5 DEF StartBootstrap, CleanInv, Booting
<1>12. CASE CollectCleanups
  <2>1. \A e \in (cleaned + 1)..Len(log) :
           log[e].type \in CleanedTypes /\ IsLast(e) => e \in pending'
    BY <1>12 DEF CollectCleanups, CleanedTypes, IsLast
  <2>2. Booting'
    BY <1>12, <2>1 DEF CollectCleanups, Booting, Accounted, IsLast
  <2> QED
    BY <1>3, <1>12, <2>2 DEF CollectCleanups
<1>13. CASE FinishBootstrap
  BY <1>2, <1>13, FinishKeepsClean DEF FinishBootstrap, CleanInv, Booting
<1>14. ASSUME NEW p \in Projectors, Reset(p) \/ Replay(p) PROVE CleanInv'
  <2>1. worker' # "booting"
    BY <1>14 DEF Reset, Replay
  <2> QED
    BY <1>3, <1>14, <2>1 DEF Reset, Replay, Booting
<1>15. CASE UNCHANGED vars
  <2>1. Booting'
    BY <1>15 DEF vars, CleanInv, Booting, IsLast, Accounted, Doomed, Kept, RecreatedAfter
  <2> QED
    BY <1>3, <1>15, <2>1 DEF vars
<1> QED
  BY <1>4, <1>5, <1>6, <1>7, <1>8, <1>9, <1>10, <1>11, <1>12, <1>13, <1>14, <1>15 DEF Next

(* The clean-up cursor never passes a revert or a deletion whose orphans   *)
(* are still on disk, however the server crashed or a removal failed.      *)
THEOREM OrphansStayPending == Spec => []OrphansAreRetried
<1>1. Init => CleanInv
  BY InitClean
<1>2. (RowsInv /\ FilesInv) /\ CleanInv /\ [Next]_vars => CleanInv'
  BY NextClean
<1>3. CleanInv => OrphansAreRetried
  BY DEF CleanInv
<1> QED
  BY <1>1, <1>2, <1>3, FilesAlways, PTL DEF Spec
=============================================================================
