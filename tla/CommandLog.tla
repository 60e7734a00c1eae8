----------------------------- MODULE CommandLog -----------------------------
(***************************************************************************)
(* What OrchestrationEngine promises its callers, with no queue, worker,   *)
(* read model or process in sight (Services/OrchestrationEngine.ts): an    *)
(* append-only log to which every command id contributes at most once, as  *)
(* one batch, together with its receipt; and answers that are true of it.  *)
(***************************************************************************)
EXTENDS Integers, Sequences

CONSTANTS CommandIds, Aggregates, EventTypes

VARIABLES log, receipts, sent, answers

vars == <<log, receipts, sent, answers>>

NoReceipt == [status |-> "none"]

Init ==
    /\ log = << >>
    /\ receipts = [id \in CommandIds |-> NoReceipt]
    /\ sent = << >>
    /\ answers = << >>

Submit ==
    /\ \E c \in [id : CommandIds, agg : Aggregates,
                 kind : {"plain", "auto-settle", "pull-request.sync"}, snap : 0..Len(log)] :
          sent' = Append(sent, c)
    /\ answers' = Append(answers, [is |-> "waiting"])
    /\ UNCHANGED <<log, receipts>>

(***************************************************************************)
(* A submitted command that has no receipt takes effect: its events, all   *)
(* of them and nothing else, are appended, the last on its own aggregate.  *)
(***************************************************************************)
Apply(t) ==
    LET id == sent[t].id
        n  == Len(log')
    IN  /\ answers[t].is = "waiting"
        /\ receipts[id] = NoReceipt
        /\ n > Len(log)
        /\ SubSeq(log', 1, Len(log)) = log
        /\ \A s \in Len(log) + 1 .. n :
              log'[s] \in [cmd : {id}, agg : Aggregates, type : EventTypes]
        /\ log'[n].agg = sent[t].agg
        /\ receipts' = [receipts EXCEPT ![id] =
                           [status |-> "accepted", agg |-> sent[t].agg, seq |-> n]]
        /\ UNCHANGED <<sent, answers>>

Refuse(t) ==
    /\ answers[t].is = "waiting"
    /\ receipts[sent[t].id] = NoReceipt
    /\ \E n \in 0..Len(log) :
          receipts' = [receipts EXCEPT ![sent[t].id] =
                          [status |-> "rejected", agg |-> sent[t].agg, seq |-> n]]
    /\ UNCHANGED <<log, sent, answers>>

(***************************************************************************)
(* The answers a command may be given in the present state.  A failure     *)
(* says nothing: the command may have taken effect.  A fresh rejection     *)
(* says the command has not taken effect.                                  *)
(***************************************************************************)
TrueAnswers(c) ==
    LET r == receipts[c.id]
    IN  {[is |-> "failed"]}
        \cup {[is |-> "rejected"]            : x \in {x \in {r} : x.status # "accepted"}}
        \cup {[is |-> "accepted", seq |-> x.seq] : x \in {x \in {r} : x.status = "accepted" /\ x.agg = c.agg}}
        \cup {[is |-> "previously-rejected"] : x \in {x \in {r} : x.status = "rejected" /\ x.agg = c.agg}}
        \cup {[is |-> "id-conflict"]         : x \in {x \in {r} : x # NoReceipt /\ x.agg # c.agg}}

Respond(t) ==
    /\ answers[t].is = "waiting"
    /\ \E a \in TrueAnswers(sent[t]) : answers' = [answers EXCEPT ![t] = a]
    /\ UNCHANGED <<log, receipts, sent>>

(***************************************************************************)
(* The service goes away from under every caller that still waits.         *)
(***************************************************************************)
Lose ==
    /\ answers' = [t \in DOMAIN answers |->
                      IF answers[t].is = "waiting" THEN [is |-> "lost"] ELSE answers[t]]
    /\ UNCHANGED <<log, receipts, sent>>

Next ==
    \/ Submit
    \/ \E t \in 1..Len(sent) : Apply(t) \/ Refuse(t) \/ Respond(t)
    \/ Lose

Spec == Init /\ [][Next]_vars

=============================================================================
