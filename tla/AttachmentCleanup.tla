------------------------- MODULE AttachmentCleanup -------------------------
(***************************************************************************)
(* The attachment files of one thread, and who removes them                *)
(* (apps/server/src/orchestration/Layers/ProjectionPipeline.ts with        *)
(* Normalizer.ts and the worker of OrchestrationEngine.ts).                *)
(*                                                                         *)
(* A command that carries an attachment copies it into the attachments     *)
(* directory before it is dispatched.  The event that refers to it is      *)
(* committed with the rows of all projectors.  A revert or a deletion      *)
(* leaves files without a reference; they are removed after the commit, on *)
(* disk, outside any transaction.  What a crash or a failure leaves behind *)
(* is removed by the next bootstrap, from a cursor of its own, after each  *)
(* projector has replayed from its own cursor.                             *)
(*                                                                         *)
(* An event has a type, the file it refers to (0: none) and a turn: the    *)
(* turn of a message or an answer, the turnCount of a revert.  The events  *)
(* are those of one thread; a message without an attachment behaves like   *)
(* one whose file is already gone.                                         *)
(***************************************************************************)
EXTENDS Integers, Sequences, FiniteSets

CONSTANTS
    MaxEvents,     \* bound: events of the thread
    MaxFiles,      \* bound: files copied into the thread's segment
    MaxCrashes,    \* bound: crashes of the server
    MaxResets,     \* bound: projector cursors that are reset between two starts
    MaxFailures    \* bound: removals that fail

ASSUME BoundsAssumption ==
    /\ MaxEvents \in Nat /\ MaxFiles \in Nat /\ MaxCrashes \in Nat
    /\ MaxResets \in Nat /\ MaxFailures \in Nat

VARIABLES
    log,        \* the committed events of the thread
    rows,       \* the rows of the two projectors that refer to files, by sequence
    cursor,     \* lastAppliedSequence of the two projectors
    cleaned,    \* lastAppliedSequence of projection.attachment-cleanup
    disk,       \* the files in the attachments directory
    claims,     \* files copied for commands that are not yet answered
    copied,     \* how many files have been copied
    worker,     \* bootstrap and the engine's worker: where it is
    pending,    \* pendingCleanup: the events bootstrap has still to clean
    job,        \* the event being cleaned, or 0
    doomed,     \* entries listed, not kept and not yet removed
    upsets      \* how many disturbances of each kind have happened

vars == <<log, rows, cursor, cleaned, disk, claims, copied, worker, pending, job, doomed, upsets>>

Projectors == {"messages", "activities"}

Types == {"created", "deleted", "reverted", "sent", "answered"}

Files == 1..MaxFiles

Init ==
    /\ log = << >>
    /\ rows = [p \in Projectors |-> {}]
    /\ cursor = [p \in Projectors |-> 0]
    /\ cleaned = 0
    /\ disk = {}
    /\ claims = {}
    /\ copied = 0
    /\ worker = "idle"
    /\ pending = {}
    /\ job = 0
    /\ doomed = {}
    /\ upsets = [crash |-> 0, reset |-> 0, failure |-> 0]

MaxUpsets == [crash |-> MaxCrashes, reset |-> MaxResets, failure |-> MaxFailures]

Upset(kind) ==
    /\ upsets[kind] < MaxUpsets[kind]
    /\ upsets' = [upsets EXCEPT ![kind] = @ + 1]

(***************************************************************************)
(* The projectors                                                          *)
(***************************************************************************)
RowType == [messages |-> "sent", activities |-> "answered"]

Undoes(revert, event) == revert.type = "reverted" /\ revert.turn < event.turn

Added(events, p, n) == {m \in {n} : events[n].type = RowType[p]}

(* Mutant of Apply: a new incarnation keeps the rows of the old one.       *)
ApplyOverOldRows(events, p, old, n) ==
    {m \in old : ~Undoes(events[n], events[m])} \cup Added(events, p, n)

(* The rows of projector p after event n: a creation drops the rows of the *)
(* previous incarnation, a revert those of the turns it undoes.            *)
Apply(events, p, old, n) ==
    IF events[n].type = "created" THEN {}
    ELSE {m \in old : ~Undoes(events[n], events[m])} \cup Added(events, p, n)

Known == log # << >>

(* hasEventAfter: the id was created again after event n.                  *)
RecreatedAfter(n) == \E m \in (n + 1)..Len(log) : log[m].type = "created"

Exists == Known /\ \A d \in 1..Len(log) : log[d].type = "deleted" => RecreatedAfter(d)

(***************************************************************************)
(* Commands with attachments                                               *)
(***************************************************************************)

(* normalizeDispatchCommand copies the upload to a fresh id.               *)
Claim ==
    /\ worker \in {"idle", "cleaning"}
    /\ copied < MaxFiles
    /\ copied' = copied + 1
    /\ disk' = disk \cup {copied'}
    /\ claims' = claims \cup {copied'}
    /\ UNCHANGED <<log, rows, cursor, cleaned, worker, pending, job, doomed, upsets>>

(* The command is answered with an error: cleanupFailedUploadedAttachments *)
(* removes its copy, whether or not its event is durable.  It may be: a    *)
(* bootstrap fails after it appended the message and cannot delete its     *)
(* thread, or the engine fails after the commit.                           *)
Reject(f) ==
    /\ f \in claims
    /\ claims' = claims \ {f}
    /\ disk' = disk \ {f}
    /\ UNCHANGED <<log, rows, cursor, cleaned, copied, worker, pending, job, doomed, upsets>>

(* The command is answered with success: from its commit, or a retry from  *)
(* the receipt of the first, whose copy then stays without a reference.    *)
Accept(f) ==
    /\ f \in claims
    /\ Known
    /\ claims' = claims \ {f}
    /\ UNCHANGED <<log, rows, cursor, cleaned, disk, copied, worker, pending, job, doomed, upsets>>

(***************************************************************************)
(* The worker commits one command after the other, each with its rows and  *)
(* cursors, and cleans before it takes the next (projectEventDeferred).    *)
(* A revert that dropped a row and every deletion ask for a clean-up.      *)
(***************************************************************************)
Commit(event) ==
    /\ worker = "idle"
    /\ Len(log) < MaxEvents
    /\ log' = Append(log, event)
    /\ rows' = [p \in Projectors |-> Apply(log', p, rows[p], Len(log'))]
    /\ cursor' = [p \in Projectors |-> Len(log')]
    /\ LET asks == event.type = "deleted" \/ (event.type = "reverted" /\ rows' # rows) IN
       /\ worker' = IF asks THEN "cleaning" ELSE "idle"
       /\ pending' = IF asks THEN {Len(log')} ELSE {}
    /\ UNCHANGED <<cleaned, disk, claims, copied, job, doomed, upsets>>

Event(type, file, turn) == [type |-> type, file |-> file, turn |-> turn]

(* Every turn starts with a message.                                       *)
TurnCount == Cardinality(rows["messages"])

(* requireThreadAbsent; the other commands need the thread, perhaps        *)
(* deleted.                                                                *)
Create == ~Exists /\ Commit(Event("created", 0, 0))

Delete == Known /\ Commit(Event("deleted", 0, 0))

Revert == Known /\ \E turnCount \in 0..TurnCount : Commit(Event("reverted", 0, turnCount))

(* The copies of the commands that are neither committed nor answered.     *)
Unused == {f \in claims : \A n \in 1..Len(log) : log[n].file # f}

Send == Known /\ \E f \in Unused : Commit(Event("sent", f, TurnCount + 1))

AnswerQuestion == Known /\ \E f \in Unused : Commit(Event("answered", f, TurnCount))

(***************************************************************************)
(* applyAttachmentSideEffects and runAttachmentSideEffects                 *)
(***************************************************************************)
Kept == {log[n].file : n \in rows["messages"] \cup rows["activities"]}

(* Mutant of Doomed: the thread may have been created again.               *)
DoomedSuperseded(e) == IF log[e].type = "reverted" THEN disk \ Kept ELSE disk

(* The entries that the clean-up of event e removes: a deletion that was   *)
(* not superseded removes every file, a revert those without a reference.  *)
Doomed(e) ==
    IF log[e].type = "reverted" THEN disk \ Kept
    ELSE IF RecreatedAfter(e) THEN {} ELSE disk

(* The events are cleaned in the order in which their types first occur.   *)
FirstOf(type) ==
    CHOOSE n \in (cleaned + 1)..Len(log) :
       log[n].type = type /\ \A m \in (cleaned + 1)..(n - 1) : log[m].type # type

BeginCleaning ==
    /\ worker \in {"booting", "cleaning"}
    /\ job = 0
    /\ \E e \in pending :
          /\ worker = "booting" =>
                \A d \in pending : FirstOf(log[e].type) <= FirstOf(log[d].type)
          /\ job' = e
          /\ pending' = pending \ {e}
          /\ doomed' = Doomed(e)
    /\ UNCHANGED <<log, rows, cursor, cleaned, disk, claims, copied, worker, upsets>>

RemoveEntry(f) ==
    /\ job # 0
    /\ f \in doomed \cap disk
    /\ disk' = disk \ {f}
    /\ doomed' = doomed \ {f}
    /\ UNCHANGED <<log, rows, cursor, cleaned, claims, copied, worker, pending, job, upsets>>

(* A deletion removes by force; a revert asks for the entry's type first.  *)
EntryVanished(f) ==
    /\ job # 0
    /\ f \in doomed \ disk
    /\ log[job].type = "deleted"
    /\ doomed' = doomed \ {f}
    /\ UNCHANGED <<log, rows, cursor, cleaned, disk, claims, copied, worker, pending, job, upsets>>

(* Mutant of CleaningFails: bootstrap goes on after a failure.             *)
CleaningFailsSilently ==
    /\ job # 0
    /\ \/ Upset("failure")
       \/ doomed \ disk # {} /\ log[job].type = "reverted" /\ upsets' = upsets
    /\ job' = 0
    /\ doomed' = {}
    /\ UNCHANGED <<log, rows, cursor, cleaned, disk, claims, copied, worker, pending>>

(* The failure is logged.  Bootstrap returns without moving its cursor.    *)
CleaningFails ==
    /\ job # 0
    /\ \/ Upset("failure")
       \/ doomed \ disk # {} /\ log[job].type = "reverted" /\ upsets' = upsets
    /\ job' = 0
    /\ doomed' = {}
    /\ pending' = {}
    /\ worker' = "idle"
    /\ UNCHANGED <<log, rows, cursor, cleaned, disk, claims, copied>>

CleaningEnds ==
    /\ job # 0
    /\ doomed = {}
    /\ job' = 0
    /\ worker' = IF worker = "cleaning" THEN "idle" ELSE worker
    /\ UNCHANGED <<log, rows, cursor, cleaned, disk, claims, copied, pending, doomed, upsets>>

(***************************************************************************)
(* Crash and bootstrap                                                     *)
(***************************************************************************)
Crash ==
    /\ worker # "down"
    /\ Upset("crash")
    /\ worker' = "down"
    /\ claims' = {}
    /\ job' = 0
    /\ pending' = {}
    /\ doomed' = {}
    /\ UNCHANGED <<log, rows, cursor, cleaned, disk, copied>>

(* External: a projector's cursor is reset, to have it built again.        *)
Reset(p) ==
    /\ worker = "down"
    /\ cursor[p] > 0
    /\ Upset("reset")
    /\ cursor' = [cursor EXCEPT ![p] = 0]
    /\ UNCHANGED <<log, rows, cleaned, disk, claims, copied, worker, pending, job, doomed>>

(* cleanupStart is saved before the projectors replay.                     *)
StartBootstrap ==
    /\ worker = "down"
    /\ worker' = "replaying"
    /\ cleaned' = CHOOSE c \in {cleaned, cursor["messages"], cursor["activities"]} :
                     c <= cleaned /\ \A p \in Projectors : c <= cursor[p]
    /\ UNCHANGED <<log, rows, cursor, disk, claims, copied, pending, job, doomed, upsets>>

(* One event, one transaction; the projectors replay one after the other.  *)
Replay(p) ==
    /\ worker = "replaying"
    /\ cursor[p] < Len(log)
    /\ p = "activities" => cursor["messages"] = Len(log)
    /\ rows' = [rows EXCEPT ![p] = Apply(log, p, @, cursor[p] + 1)]
    /\ cursor' = [cursor EXCEPT ![p] = @ + 1]
    /\ UNCHANGED <<log, cleaned, disk, claims, copied, worker, pending, job, doomed, upsets>>

(* The last revert and the last deletion after cleanupStart.               *)
CollectCleanups ==
    /\ worker = "replaying"
    /\ \A p \in Projectors : cursor[p] = Len(log)
    /\ worker' = "booting"
    /\ pending' = {e \in (cleaned + 1)..Len(log) :
                     /\ log[e].type \in {"reverted", "deleted"}
                     /\ \A d \in (e + 1)..Len(log) : log[d].type # log[e].type}
    /\ UNCHANGED <<log, rows, cursor, cleaned, disk, claims, copied, job, doomed, upsets>>

FinishBootstrap ==
    /\ worker = "booting"
    /\ job = 0
    /\ pending = {}
    /\ cleaned' = Len(log)
    /\ worker' = "idle"
    /\ UNCHANGED <<log, rows, cursor, disk, claims, copied, pending, job, doomed, upsets>>

Next ==
    \/ Claim
    \/ \E f \in Files :
          Reject(f) \/ Accept(f) \/ RemoveEntry(f) \/ EntryVanished(f)
    \/ Create \/ Delete \/ Revert \/ Send \/ AnswerQuestion
    \/ BeginCleaning \/ CleaningFails \/ CleaningEnds
    \/ Crash \/ StartBootstrap \/ CollectCleanups \/ FinishBootstrap
    \/ \E p \in Projectors : Reset(p) \/ Replay(p)

Spec == Init /\ [][Next]_vars

(***************************************************************************)
(* Properties                                                              *)
(***************************************************************************)
Events == [type : Types, file : Files \cup {0}, turn : Nat]

(* Every variable keeps its shape, no cursor is ahead of the log, and only *)
(* while it is up does the server hold claims or clean.                    *)
TypeOK ==
    /\ log \in Seq(Events)
    /\ rows \in [Projectors -> SUBSET (1..Len(log))]
    /\ cursor \in [Projectors -> 0..Len(log)]
    /\ cleaned \in 0..Len(log)
    /\ copied \in 0..MaxFiles
    /\ disk \subseteq 1..copied /\ claims \subseteq 1..copied
    /\ worker \in {"down", "replaying", "booting", "cleaning", "idle"}
    /\ pending \subseteq 1..Len(log)
    /\ job \in 0..Len(log)
    /\ doomed \subseteq 1..copied
    /\ worker \in {"down", "replaying"} => job = 0 /\ pending = {}
    /\ worker \in {"down", "replaying", "booting"} => claims = {} /\ doomed \subseteq disk
    /\ upsets \in [crash : 0..MaxCrashes, reset : 0..MaxResets, failure : 0..MaxFailures]

(* Event m takes away what event n added.                                  *)
Drops(m, n) ==
    log[m].type = "created" \/ Undoes(log[m], log[n])

(* What projector p should hold once it has applied k events.              *)
RowsAt(p, k) ==
    {n \in 1..k : log[n].type = RowType[p] /\ \A m \in (n + 1)..k : ~Drops(m, n)}

(* Once bootstrap has replayed, whatever crashes and resets came before,   *)
(* the rows of both projectors are those that the log describes: every     *)
(* reference is current before any file is removed.                        *)
RowsMatchLog ==
    worker \in {"booting", "cleaning", "idle"} =>
       \A p \in Projectors : rows[p] = RowsAt(p, Len(log))

(* The existing thread refers to the file of event n.                      *)
Referenced(n) == Exists /\ \E p \in Projectors : n \in RowsAt(p, Len(log))

(* No clean-up removes a file that a message or an answer of the existing  *)
(* thread refers to: not one that was overtaken by a new incarnation, not  *)
(* one that is repeated after a restart, not the removal of the copy that  *)
(* another failed command had made.  The exception is the command that     *)
(* brought the file: when it is answered with an error although its event  *)
(* is durable, its copy goes and the reference stays.                      *)
SparesReferenced ==
    [][\A n \in 1..Len(log) :
          (Referenced(n) /\ log[n].file \in disk)
             => log[n].file \in disk' \/ log[n].file \in claims \ claims']_vars

(* Event r orphaned the file of event n: a revert had it dropped, or a     *)
(* deletion that was not superseded.                                       *)
OrphanedBy(r, n) ==
    /\ n < r
    /\ \/ log[r].type = "reverted" /\ \E m \in (n + 1)..r : Drops(m, n)
       \/ log[r].type = "deleted" /\ ~RecreatedAfter(r)

(* The clean-up cursor passes a revert or a deletion only when the files   *)
(* it orphaned are gone: what a crash or a failed removal leaves on disk   *)
(* is tried again at the next start.                                       *)
OrphansAreRetried ==
    \A r \in 1..cleaned : \A n \in 1..Len(log) :
       OrphanedBy(r, n) => log[n].file \notin disk
=============================================================================
