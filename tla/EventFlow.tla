----------------------------- MODULE EventFlow ------------------------------
(***************************************************************************)
(* The way of an event item: the polls of EventPoll, which store it and    *)
(* pass it on, and the batch tasks and verifiers of EventBatch, which      *)
(* deliver it.  The two meet in one step: a poll that has found items      *)
(* sends their ids in one message.                                         *)
(*                                                                         *)
(* EventBatch takes it for granted that no two messages have an item in    *)
(* common.  Here nothing but the polls keeps them apart.                   *)
(***************************************************************************)
EXTENDS EventPoll, EventBatch

FlowInit == PollInit /\ Init

\* The poll's ids go out in a message that a batch task will take; none, when
\* nothing was found.
SendBatch(p) ==
    /\ Send(p)
    /\ IF found[p] = {} THEN UNCHANGED vars ELSE \E t \in Tasks : Message(t, found[p])

\* What polls and subscribers do by themselves.
PollWork ==
    \/ \E s \in Sources : Watch(s)
    \/ \E p \in Polls : PollStep(p)

\* What the batch tasks and the verifiers do.  The verifier reports what the polls
\* have stored: what it finds first is stored by itself, and no poll sends it then.
BatchWork ==
    /\ Work
    /\ \A u \in Subs, i \in Items : vtodo'[u][i] > 0 => i \in stored
    /\ UNCHANGED pollVars

FlowNext ==
    \/ PollWork /\ UNCHANGED vars
    \/ \E p \in Polls : SendBatch(p)
    \/ BatchWork

flowVars == <<vars, pollVars>>

FlowSpec == FlowInit /\ [][FlowNext]_flowVars

-----------------------------------------------------------------------------
(* Properties.                                                             *)

\* What a batch task is sent is stored: it finds the rows of all the ids.
MessageIsStored == \A t \in Tasks : batch[t] \subseteq stored

\* An item is in a task's message only if a poll has sent it in one.
MessageFromPoll == \A t \in Tasks, i \in Items : i \in batch[t] => batches[i] > 0

\* The polls' messages have no item in common, without anybody looking.
MessagesDisjoint == \A t, w \in Tasks : t # w => batch[t] \cap batch[w] = {}

=============================================================================
