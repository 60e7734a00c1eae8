------------------------- MODULE ThreadSubscription -------------------------
(***************************************************************************)
(* One client that shows one thread, and the stream that feeds it: the     *)
(* subscribeThread handler of apps/server/src/ws.ts, its live buffer       *)
(* (ThreadLiveEventCoalescer.ts on a LiveStreamBudget.ts), and the client  *)
(* (client-runtime/src/state/threads.ts on rpc/client.ts).                 *)
(*                                                                         *)
(* The client keeps a thread and the sequence it is known up to.  A        *)
(* subscription resumes from that sequence, by a replay or by a snapshot,  *)
(* while events are committed and published; it can overflow, be dropped,  *)
(* be replaced, or be left half way through an item.                       *)
(*                                                                         *)
(* The log holds the events of this thread alone.  An event is the call of *)
(* a tool.updated activity, or "text" for any other detail event;          *)
(* "created" and "deleted" are not sent to the client (isThreadDetailEvent)*)
(***************************************************************************)
EXTENDS Integers, Sequences, FiniteSets

CONSTANTS
    Calls,             \* the tool calls whose updates are coalesced
    MaxEvents,         \* bound: events of the thread
    MaxItems,          \* LIVE_STREAM_MAX_ITEMS
    MaxPending,        \* MAX_PENDING_UPDATES
    MaxReplay,         \* THREAD_RESUME_MAX_EVENTS
    MaxInbox,          \* chunks that switchMap buffers for the consumer
    MaxUpsets          \* bound: sessions lost or replaced, views left, loads that
                       \* fail and replays over the payload budget, together

ASSUME CallsAssumption == Calls \cap {"text", "created", "deleted"} = {}
ASSUME SizesAssumption ==
    /\ MaxEvents \in Nat /\ MaxItems \in Nat \ {0} /\ MaxPending \in Nat \ {0}
    /\ MaxReplay \in Nat /\ MaxInbox \in Nat
    /\ MaxUpsets \in Nat

VARIABLES
    log,         \* the committed events; projections change in the same commit
    head,        \* latestSequence: the events in the engine's read model
    published,   \* the events published to the PubSub
    sub,         \* the subscription on the server
    inbox,       \* chunks received and not yet applied, of any session
    client,      \* the subscription and the status on the client
    cursor,      \* lastSequence
    shown,       \* committed: the thread shown, with its sequence
    cache,       \* the thread in the client's cache store, with its sequence
    upsets       \* how many disturbances have happened

vars == <<log, head, published, sub, inbox, client, cursor, shown, cache, upsets>>

server == <<head, published, sub>>
view == <<inbox, client, cursor, shown, cache>>

(***************************************************************************)
(* The log                                                                 *)
(***************************************************************************)
Kinds == {"text", "created", "deleted"} \cup Calls

Detail(n) == log[n] \notin {"created", "deleted"}

(* A finite set of numbers in increasing order, and the elements of a      *)
(* sequence at the positions of such a set.                                *)
InOrder(S) ==
    [k \in 1..Cardinality(S) |-> CHOOSE n \in S : Cardinality({m \in S : m <= n}) = k]

Selected(s, positions) == [k \in 1..Cardinality(positions) |-> s[InOrder(positions)[k]]]

(* The events of a range that the client may see, in order.                *)
Details(from, to) == InOrder({n \in (from + 1)..to : Detail(n)})

(* The events after the creation that the thread at sequence n goes back   *)
(* to.                                                                     *)
Since(n) == {k \in 1..n : \A b \in k..n : log[b] # "created"}

Exists == \A d \in 1..Len(log) :
             log[d] = "deleted" => \E c \in d..Len(log) : log[c] = "created"

(***************************************************************************)
(* State                                                                   *)
(***************************************************************************)
Event(n) == [is |-> "event", seq |-> n]
Snapshot(n) == [is |-> "snapshot", seq |-> n]
Marker(n) == [is |-> "synchronized", seq |-> n]

Events(s) == [k \in 1..Len(s) |-> Event(s[k])]

NoCursor == -1

NoSub ==
    [pc |-> "none", after |-> NoCursor, pulled |-> 0, pending |-> << >>, output |-> << >>,
     inFlight |-> 0, full |-> FALSE, rest |-> << >>, fallback |-> FALSE, mark |-> 0]

Nothing == [has |-> FALSE, thread |-> << >>, seq |-> 0]

(* overtaken is history: an HTTP load was newer than a snapshot received   *)
(* before it and not yet applied.                                          *)
Gone == [pc |-> "away", awaiting |-> FALSE, status |-> "empty",
         error |-> FALSE, warm |-> FALSE, applying |-> FALSE, overtaken |-> FALSE]

Init ==
    /\ log = <<"created">>
    /\ head = 1
    /\ published = 1
    /\ sub = NoSub
    /\ inbox = << >>
    /\ client = Gone
    /\ cursor = 0
    /\ shown = Nothing
    /\ cache = Nothing
    /\ upsets = 0

Upset ==
    /\ upsets < MaxUpsets
    /\ upsets' = upsets + 1

(***************************************************************************)
(* The engine's worker: a command commits, enters the read model, and is   *)
(* published once its clean-up has run.  The removal of a deleted thread   *)
(* from the shell closes its view: the id is created again while no client *)
(* shows it.                                                               *)
(***************************************************************************)
Commit(kind) ==
    /\ published = Len(log)
    /\ Len(log) < MaxEvents
    /\ kind = "created" => ~Exists /\ client.pc = "away"
    /\ log' = Append(log, kind)
    /\ UNCHANGED <<server, view, upsets>>

UpdateReadModel ==
    /\ head < Len(log)
    /\ head' = head + 1
    /\ UNCHANGED <<log, published, sub, view, upsets>>

Publish ==
    /\ published < head
    /\ published' = published + 1
    /\ UNCHANGED <<log, head, sub, view, upsets>>

(***************************************************************************)
(* LiveStreamBudget: what is pending, queued, or delivered and not yet     *)
(* acknowledged counts.  An overflow is final: it empties the buffer.      *)
(***************************************************************************)
Retained(s) == Len(s.pending) + Len(s.output) + s.inFlight

Overflow(s) == [s EXCEPT !.full = TRUE, !.pulled = 0, !.pending = << >>, !.output = << >>]

(* coalesceLiveToolUpdatedEvents: the last update of each call in a run of *)
(* updates; other events end the run.                                      *)
Coalesce(s) ==
    Selected(s, {i \in 1..Len(s) :
                    ~\E k \in 1..Len(s) : s[k] > s[i] /\ log[s[k]] = log[s[i]] /\ log[s[i]] \in Calls})

Flush(s) == [s EXCEPT !.pending = << >>, !.output = @ \o Events(Coalesce(s.pending))]

Streaming == sub.pc # "none" /\ ~sub.full

(* Mutant of Offer: one item more than the budget is kept.                 *)
OfferOneMore(s, n) ==
    IF Retained(s) > MaxItems THEN Overflow(s)
    ELSE LET kept == [s EXCEPT !.pending = Append(@, n)] IN
         IF log[n] \in Calls /\ Len(kept.pending) < MaxPending THEN kept ELSE Flush(kept)

(* offerAll for one event: an update opens or joins a window, any other    *)
(* event closes it.                                                        *)
Offer(s, n) ==
    IF Retained(s) >= MaxItems THEN Overflow(s)
    ELSE LET kept == [s EXCEPT !.pending = Append(@, n)] IN
         IF log[n] \in Calls /\ Len(kept.pending) < MaxPending THEN kept ELSE Flush(kept)

Intake ==
    /\ Streaming
    /\ sub.pulled < published
    /\ LET n == sub.pulled + 1
           s == [sub EXCEPT !.pulled = n]
       IN  sub' = IF Detail(n) THEN Offer(s, n) ELSE s
    /\ UNCHANGED <<log, head, published, view, upsets>>

FlushWindow ==
    /\ Streaming
    /\ sub.pending # << >>
    /\ sub' = Flush(sub)
    /\ UNCHANGED <<log, head, published, view, upsets>>

(***************************************************************************)
(* subscribeThread                                                         *)
(***************************************************************************)

(* The range is bounded by the head and measured, in events and in bytes;  *)
(* one with a creation is replayed only if there is no snapshot.           *)
Measure ==
    /\ sub.pc = "reading"
    /\ LET counted == sub.after # NoCursor /\ sub.after <= head /\ head - sub.after <= MaxReplay
           recreated == \E n \in (sub.after + 1)..head : log[n] = "created"
           measured(fits) ==
              [sub EXCEPT !.pc = IF fits /\ ~recreated THEN "catchUp" ELSE "snapshot",
                          !.after = NoCursor,
                          !.rest = IF fits THEN Details(sub.after, head) ELSE << >>,
                          !.fallback = fits /\ recreated,
                          !.mark = head]
       IN  \/ sub' = measured(counted) /\ upsets' = upsets
           \/ counted /\ sub' = measured(FALSE) /\ Upset
    /\ UNCHANGED <<log, head, published, view>>

(* The network accepts a chunk while the client's buffer has room.         *)
Send(chunk) ==
    /\ Len(inbox) <= MaxInbox
    /\ inbox' = Append(inbox, chunk)
    /\ UNCHANGED <<client, cursor, shown, cache>>

ReadSnapshot ==
    /\ sub.pc = "snapshot"
    /\ Exists
    /\ Send(<<Snapshot(Len(log))>>)
    /\ sub' = [sub EXCEPT !.pc = "catchUp", !.rest = << >>, !.fallback = FALSE, !.mark = Len(log)]
    /\ UNCHANGED <<log, head, published, upsets>>

SnapshotMissing ==
    /\ sub.pc = "snapshot"
    /\ ~Exists
    /\ sub' = [sub EXCEPT !.pc = IF sub.fallback THEN "catchUp" ELSE "failed",
                          !.fallback = FALSE]
    /\ UNCHANGED <<log, head, published, view, upsets>>

CatchUp ==
    /\ sub.pc = "catchUp"
    /\ sub.rest # << >>
    /\ \E k \in 1..Len(sub.rest) :
          /\ Send(Events(SubSeq(sub.rest, 1, k)))
          /\ sub' = [sub EXCEPT !.rest = SubSeq(@, k + 1, Len(@))]
    /\ UNCHANGED <<log, head, published, upsets>>

(* What a marker stands for: what was read, and what was taken from the    *)
(* PubSub before it.                                                       *)
Covered == IF sub.pulled > sub.mark THEN sub.pulled ELSE sub.mark

(* Mutant of OfferMarker: updates already taken are not flushed first.     *)
OfferMarkerAhead ==
    /\ sub.pc = "catchUp"
    /\ sub.rest = << >>
    /\ sub' = IF sub.full THEN [sub EXCEPT !.pc = "failed"]
              ELSE IF Retained(sub) >= MaxItems THEN [Overflow(sub) EXCEPT !.pc = "failed"]
              ELSE [sub EXCEPT !.pc = "live", !.mark = 0, !.output = Append(@, Marker(Covered))]
    /\ UNCHANGED <<log, head, published, view, upsets>>

(* The marker goes through the live buffer; a full buffer refuses it.      *)
OfferMarker ==
    /\ sub.pc = "catchUp"
    /\ sub.rest = << >>
    /\ sub' = IF sub.full THEN [sub EXCEPT !.pc = "failed"]
              ELSE LET s == Flush(sub) IN
                   IF Retained(s) >= MaxItems THEN [Overflow(s) EXCEPT !.pc = "failed"]
                   ELSE [s EXCEPT !.pc = "live", !.mark = 0, !.output = Append(@, Marker(Covered))]
    /\ UNCHANGED <<log, head, published, view, upsets>>

(* The stream pulls what is queued; it stays charged until the next pull.  *)
Deliver ==
    /\ sub.pc = "live" /\ ~sub.full
    /\ sub.inFlight = 0
    /\ sub.output # << >>
    /\ Send(sub.output)
    /\ sub' = [sub EXCEPT !.output = << >>, !.inFlight = Len(sub.output)]
    /\ UNCHANGED <<log, head, published, upsets>>

Acknowledge ==
    /\ sub.inFlight > 0
    /\ Len(inbox) <= MaxInbox
    /\ sub' = [sub EXCEPT !.inFlight = 0]
    /\ UNCHANGED <<log, head, published, view, upsets>>

(***************************************************************************)
(* The client: subscribing                                                 *)
(***************************************************************************)
WithoutLiveData(pair) == IF pair.has THEN "cached" ELSE "empty"

(* Mutant of StreamFails: an overflow after the marker is not noticed.     *)
StreamFailsBeforeLive ==
    /\ sub.pc = "failed"
    /\ sub' = NoSub
    /\ client' = [client EXCEPT !.pc = "off", !.awaiting = FALSE, !.error = TRUE,
                                !.status = WithoutLiveData(shown)]
    /\ UNCHANGED <<log, head, published, inbox, cursor, shown, cache, upsets>>

(* setStreamError, and after 250 ms the next attempt.  Chunks already      *)
(* received are still applied.                                             *)
StreamFails ==
    /\ sub.pc = "failed" \/ (sub.pc = "live" /\ sub.full)
    /\ sub' = NoSub
    /\ client' = [client EXCEPT !.pc = "off", !.awaiting = FALSE, !.error = TRUE,
                                !.status = WithoutLiveData(shown)]
    /\ UNCHANGED <<log, head, published, inbox, cursor, shown, cache, upsets>>

(* Mutant of Attached: live delivery starts after what is still to read.  *)
AttachedLate(after) ==
    [NoSub EXCEPT !.pc = "reading", !.after = after, !.pulled = Len(log)]

(* The handler starts: live delivery is attached before anything is read.  *)
Attached(after) ==
    [NoSub EXCEPT !.pc = "reading", !.after = after, !.pulled = published]

(* makeSubscribeInput: with a thread the client resumes after its cursor,  *)
(* without one it loads a snapshot first.  A thread that was live when it  *)
(* was left stays live (resumingLive).                                     *)
MakeInput ==
    /\ client.pc = "off"
    /\ client' = [client EXCEPT !.pc = IF shown.has THEN "subscribed" ELSE "loading",
                                !.awaiting = TRUE,
                                !.status = IF client.warm THEN @ ELSE "synchronizing",
                                !.error = FALSE,
                                !.warm = FALSE]
    /\ sub' = IF shown.has THEN Attached(cursor) ELSE sub
    /\ UNCHANGED <<log, head, published, inbox, cursor, shown, cache, upsets>>

(* setThread's status.                                                     *)
Showing(c) ==
    IF c.error THEN "cached" ELSE IF c.awaiting THEN "synchronizing" ELSE "live"

Prefix(n) == [has |-> TRUE, thread |-> InOrder({k \in Since(n) : Detail(k)}), seq |-> n]

(* shouldPersistThread: tool updates come while a turn runs, and a thread  *)
(* is saved once its turn has settled.                                     *)
Settled(pair) == pair.thread = << >> \/ log[pair.thread[Len(pair.thread)]] \notin Calls

Saved(pairs) ==
    LET settled == {p \in pairs : p.has /\ Settled(p)} IN
    IF settled = {} THEN cache ELSE CHOOSE p \in settled : \A q \in settled : q.seq <= p.seq

SnapshotOf(chunk) == {i \in 1..Len(chunk) : chunk[i].is = "snapshot"}

Overtakes ==
    \E i \in 1..Len(inbox) : \E k \in SnapshotOf(inbox[i]) : inbox[i][k].seq < Len(log)

(* The HTTP snapshot is applied at once, under the lock, whatever chunks   *)
(* are still buffered: they are applied after it.                          *)
LoadHttp ==
    /\ client.pc = "loading"
    /\ ~client.applying
    /\ Exists
    /\ shown' = Prefix(Len(log))
    /\ cursor' = Len(log)
    /\ cache' = Saved({shown'})
    /\ client' = [client EXCEPT !.pc = "subscribed", !.status = Showing(client),
                                !.overtaken = @ \/ Overtakes]
    /\ sub' = Attached(Len(log))
    /\ UNCHANGED <<log, head, published, inbox, upsets>>

LoadHttpNothing ==
    /\ client.pc = "loading"
    /\ \/ ~Exists /\ upsets' = upsets
       \/ Exists /\ Upset
    /\ client' = [client EXCEPT !.pc = "subscribed"]
    /\ sub' = Attached(IF shown.has THEN cursor ELSE NoCursor)
    /\ UNCHANGED <<log, head, published, inbox, cursor, shown, cache>>

(***************************************************************************)
(* The client: applying a chunk, under the lock                            *)
(***************************************************************************)
MarkersOf(chunk) == {i \in 1..Len(chunk) : chunk[i].is = "synchronized"}

(* Mutant of NewEvents: an event that was already applied is not skipped.  *)
AllEvents(chunk, n) ==
    LET all == Selected(chunk, {i \in 1..Len(chunk) : chunk[i].is = "event"})
    IN  [k \in 1..Len(all) |-> all[k].seq]

(* The sequences of the events after n in a chunk.                         *)
NewEvents(chunk, n) ==
    LET new == Selected(chunk, {i \in 1..Len(chunk) : chunk[i].is = "event" /\ chunk[i].seq > n})
    IN  [k \in 1..Len(new) |-> new[k].seq]

Reached(chunk, n) ==
    IF SnapshotOf(chunk) # {} THEN chunk[1].seq
    ELSE LET new == NewEvents(chunk, n) IN IF new = << >> THEN n ELSE new[Len(new)]

ApplySequence ==
    /\ inbox # << >>
    /\ ~client.applying
    /\ cursor' = Reached(Head(inbox), cursor)
    /\ client' = [client EXCEPT !.applying = TRUE]
    /\ UNCHANGED <<log, server, inbox, shown, cache, upsets>>

(* The thread as the chunk leaves it; without one, events are dropped.     *)
Applied(chunk, n) ==
    IF SnapshotOf(chunk) # {} THEN Prefix(chunk[1].seq)
    ELSE IF shown.has
    THEN [shown EXCEPT !.thread = @ \o NewEvents(chunk, n), !.seq = cursor]
    ELSE [shown EXCEPT !.seq = cursor]

(* The states a chunk goes through: applyItems hands the last settled one  *)
(* to persistence, even if the chunk goes on.                              *)
Passed(chunk, n) ==
    IF SnapshotOf(chunk) # {} THEN {Applied(chunk, n)}
    ELSE LET new == NewEvents(chunk, n) IN
         {[shown EXCEPT !.thread = @ \o SubSeq(new, 1, k), !.seq = new[k]] : k \in 1..Len(new)}

(* Status: an event or a snapshot goes through setThread, the marker ends  *)
(* the wait.                                                               *)
ApplyData ==
    /\ client.applying
    /\ LET chunk == Head(inbox)
           next == Applied(chunk, shown.seq)
           changed == SnapshotOf(chunk) # {} \/ (shown.has /\ NewEvents(chunk, shown.seq) # << >>)
           marked == MarkersOf(chunk) # {}
           waits == [client EXCEPT !.awaiting = @ /\ ~marked]
       IN  /\ shown' = next
           /\ cache' = Saved(Passed(chunk, shown.seq))
           /\ client' = [waits EXCEPT !.applying = FALSE,
                            !.status = IF marked /\ next.has /\ ~client.error THEN "live"
                                       ELSE IF changed THEN Showing(client) ELSE @]
    /\ inbox' = Tail(inbox)
    /\ UNCHANGED <<log, server, cursor, upsets>>

(***************************************************************************)
(* Sessions and the user                                                   *)
(***************************************************************************)

(* The session is lost (setDisconnected).  switchMap keeps its chunks.     *)
Disconnect ==
    /\ client.pc # "away"
    /\ Upset
    /\ sub' = NoSub
    /\ client' = [client EXCEPT !.pc = "off", !.awaiting = FALSE,
                                !.status = WithoutLiveData(shown)]
    /\ UNCHANGED <<log, head, published, inbox, cursor, shown, cache>>

(* The application comes to the foreground: the same session subscribes    *)
(* again.                                                                  *)
Resubscribe ==
    /\ client.pc \in {"loading", "subscribed"}
    /\ Upset
    /\ sub' = NoSub
    /\ client' = [client EXCEPT !.pc = "off"]
    /\ UNCHANGED <<log, head, published, inbox, cursor, shown, cache>>

(* The scope closes, perhaps between the two halves of an item.  The       *)
(* finalizer saves the committed pair.                                     *)
Leave ==
    /\ client.pc # "away"
    /\ Upset
    /\ sub' = NoSub
    /\ inbox' = << >>
    /\ cache' = Saved({shown})
    /\ cursor' = shown.seq
    /\ client' = [Gone EXCEPT !.warm = client.status = "live", !.overtaken = client.overtaken]
    /\ UNCHANGED <<log, head, published, shown>>

(* A thread that was created again is opened once the shell lists it, when *)
(* its creation has entered the read model.                                *)
ShellLists == \A n \in (head + 1)..Len(log) : log[n] # "created"

(* makeEnvironmentThreadState: from the retained pair, or from the cache   *)
(* when that has expired or the application was restarted.                 *)
Return ==
    /\ client.pc = "away"
    /\ ShellLists
    /\ \E pair \in {shown, cache} :
          /\ shown' = pair
          /\ cursor' = pair.seq
          /\ LET live == client.warm /\ pair = shown /\ pair.has IN
             client' = [client EXCEPT !.pc = "off", !.warm = live,
                                      !.status = IF live THEN "live" ELSE "synchronizing"]
    /\ UNCHANGED <<log, server, inbox, cache, upsets>>

Buffering == Intake \/ FlushWindow
Serving ==
    \/ Measure \/ ReadSnapshot \/ SnapshotMissing \/ CatchUp
    \/ OfferMarker \/ Deliver
Subscribing == StreamFails \/ MakeInput \/ LoadHttp \/ LoadHttpNothing
Applying == ApplySequence \/ ApplyData

Progress == UpdateReadModel \/ Publish \/ Buffering \/ Serving \/ Acknowledge \/ Subscribing \/ Applying

Next ==
    \/ \E kind \in Kinds : Commit(kind)
    \/ Progress
    \/ Disconnect \/ Resubscribe \/ Leave \/ Return

Spec == Init /\ [][Next]_vars

(***************************************************************************)
(* Fibers are scheduled, the window timer fires, the network and the       *)
(* database answer, and a lost session is replaced.  Nobody is obliged to  *)
(* commit, to leave or to return.                                          *)
(***************************************************************************)
FairSpec ==
    /\ Spec
    /\ WF_vars(Progress)

(***************************************************************************)
(* Properties                                                              *)
(***************************************************************************)
Pairs == [has : BOOLEAN, thread : Seq(Nat), seq : Nat]

Items == [is : {"event", "snapshot", "synchronized"}, seq : Nat]

(* Every variable keeps its shape, and the buffer its budget.              *)
TypeOK ==
    /\ log \in Seq(Kinds)
    /\ published \in Nat /\ head \in published..Len(log)
    /\ sub \in [pc : {"none", "reading", "snapshot", "catchUp", "live", "failed"},
                after : Nat \cup {NoCursor}, pulled : Nat, pending : Seq(Nat), output : Seq(Items),
                inFlight : Nat, full : BOOLEAN, rest : Seq(Nat), fallback : BOOLEAN, mark : Nat]
    /\ Retained(sub) <= MaxItems
    /\ inbox \in Seq(Seq(Items))
    /\ client \in [pc : {"away", "off", "loading", "subscribed"},
                   awaiting : BOOLEAN, status : {"empty", "cached", "synchronizing", "live"},
                   error : BOOLEAN, warm : BOOLEAN, applying : BOOLEAN, overtaken : BOOLEAN]
    /\ cursor \in Nat
    /\ shown \in Pairs /\ cache \in Pairs
    /\ upsets \in 0..MaxUpsets

(* A later update of the same call, with nothing but updates in between.   *)
Superseded(n) ==
    /\ log[n] \in Calls
    /\ \E m \in (n + 1)..Len(log) :
          log[m] = log[n] /\ \A k \in n..m : log[k] # "text"

(* The pair belongs to the thread that exists now.                         *)
OfThisThread(pair) ==
    pair.has /\ Exists /\ \A n \in (pair.seq + 1)..Len(log) : log[n] # "created"

(* The thread of a pair, shown or cached, holds every event of the thread  *)
(* up to the pair's sequence, except superseded updates: no event is lost  *)
(* between replay, snapshot, buffer and client, nor by an overflow or a    *)
(* dropped session.  A resume asks only for what comes after.  The         *)
(* exception is the client that applies an old snapshot over a newer HTTP  *)
(* load: it shows less than its subscription started from, and what lies   *)
(* between is not sent again.                                              *)
NothingMissing ==
    \A pair \in {shown, cache} :
       (OfThisThread(pair) /\ ~client.overtaken) =>
          \A n \in Since(pair.seq) :
             (Detail(n) /\ ~Superseded(n)) => \E k \in 1..Len(pair.thread) : pair.thread[k] = n

(* The events of a pair are those of one incarnation, each applied once    *)
(* and in the order of the log, although replay and live delivery overlap. *)
AppliedInOrder ==
    \A pair \in {shown, cache} :
       OfThisThread(pair) =>
          \A k \in 1..Len(pair.thread) :
             /\ pair.thread[k] \in Since(pair.seq)
             /\ \A j \in 1..(k - 1) : pair.thread[j] < pair.thread[k]

(* When the marker ends the wait, the client has every event that existed  *)
(* when the server read for it and every event taken from the PubSub until *)
(* the marker was offered, pending updates included, unless an old         *)
(* snapshot may have been applied over a newer load.                       *)
MarkerTrue ==
    [][(/\ inbox # << >> /\ client.applying /\ ~client'.applying /\ client'.pc # "away"
        /\ ~client.overtaken)
          => \A i \in MarkersOf(Head(inbox)) :
                \A n \in 1..Head(inbox)[i].seq : Detail(n) => n <= shown'.seq]_vars

(* A client that stays shows, in the end, everything, and says so, unless  *)
(* a load overtook an old snapshot: then it may be live with events that   *)
(* it never gets.                                                          *)
Synchronized ==
    <>[](client.pc # "away" /\ Exists /\ ~client.overtaken =>
            /\ client.status = "live"
            /\ \A n \in 1..Len(log) : Detail(n) => n <= shown.seq)
=============================================================================
