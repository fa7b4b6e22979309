-------------------------------- MODULE Talk --------------------------------
(***************************************************************************)
(* Talk Mode: the conversations of a lead with one worker.                 *)
(*                                                                         *)
(* A conversation is a record of its own beside the messages of its turns, *)
(* and a job beside the record; all three move in                          *)
(* touch_conversation_locked.  An open conversation keeps other work from  *)
(* the worker.  Each operation of the broker runs under its lock; a        *)
(* command of the lead reads the conversation in one request and sends     *)
(* what it made of it in another, and anything may happen in between.      *)
(*                                                                         *)
(* There is one lead, which gives one command at a time.  The path of a    *)
(* message from its queue to the worker is that of TaskBroker and one step *)
(* here.                                                                   *)
(***************************************************************************)
EXTENDS Naturals, Sequences

CONSTANTS
  Convs,      \* conversations, numbered as next_conversation_id does
  MaxTurns,   \* max_turns, twice the rounds asked for
  MaxMsgs     \* messages sent in all, a bound of the model only

ASSUME TalkConstantsOK ==
  /\ Convs \subseteq Nat \ {0} /\ MaxTurns \in Nat \ {0} /\ MaxMsgs \in Nat

VARIABLES
  msgs,   \* active_messages, in the order they were sent
  conv,   \* conversations: the status and the turn of each
  job,    \* talk_jobs: the status of each
  cmd     \* what the lead's command is about to send

vars == <<msgs, conv, job, cmd>>

Ended == {"CLOSED", "TIMEOUT", "FAILED", "CANCELLED"}
Kinds == {"TASK", "CHAT_START", "CHAT_TURN", "CHAT_CLOSE"}
NoConv == 0

Message == [kind : Kinds, c : Convs \cup {NoConv}, turn : 1..MaxTurns,
            status : {"QUEUED", "DELIVERED", "RUNNING", "DONE"} \cup Ended]
Conversation == [status : {"NONE", "OPEN"} \cup Ended, turn : 0..MaxTurns]
TalkJobStatus == {"NONE", "RUNNING"} \cup Ended
Command == [kind : Kinds \cup {"none"}, c : Convs \cup {NoConv}, turn : 0..MaxTurns]
NoCommand == [kind |-> "none", c |-> NoConv, turn |-> 0]

Busy(i) == msgs[i].status \in {"QUEUED", "DELIVERED", "RUNNING"}
BusyMsgs == {i \in DOMAIN msgs : Busy(i)}

TypeOK ==
  /\ msgs \in Seq(Message) /\ Len(msgs) <= MaxMsgs
  /\ conv \in [Convs -> Conversation] /\ job \in [Convs -> TalkJobStatus]
  /\ cmd \in Command

Init ==
  /\ msgs = <<>> /\ cmd = NoCommand
  /\ conv = [c \in Convs |-> [status |-> "NONE", turn |-> 0]]
  /\ job = [c \in Convs |-> "NONE"]

-----------------------------------------------------------------------------
(* The conversation and its job *)

\* TalkJobLifecycle.transition: a job that has ended stays as it ended.
JobMoved(old, status) ==
  IF old \in Ended THEN old ELSE IF status = "OPEN" THEN "RUNNING" ELSE status

\* The next status; "same" stands for no status given, "REPLY" is a kind, too.
NextStatus(c, kind, status, turn) ==
  LET asked == IF status # "same" THEN status
               ELSE IF conv[c].status = "NONE" THEN "OPEN" ELSE conv[c].status
  IN IF kind = "CHAT_CLOSE" \/ (kind = "REPLY" /\ turn >= MaxTurns) THEN "CLOSED"
     ELSE IF asked \in Ended THEN asked ELSE "OPEN"

\* touch_conversation_locked.
Touched(c, kind, status, turn) ==
  IF c = NoConv THEN UNCHANGED <<conv, job>>
  ELSE LET next == NextStatus(c, kind, status, turn) IN
       /\ conv' = [conv EXCEPT ![c] = [status |-> next, turn |-> turn]]
       /\ job' = [job EXCEPT ![c] = JobMoved(@, next)]

-----------------------------------------------------------------------------
(* The lead's commands: orch talk, orch say, orch close, orch send *)

\* next_conversation_id.
TalkReads ==
  \E c \in Convs :
    /\ conv[c].status = "NONE" /\ \A d \in Convs : conv[d].status = "NONE" => c <= d
    /\ cmd' = [kind |-> "CHAT_START", c |-> c, turn |-> 1]

\* Mutant of SayReads: the last turn is one too late.
SayReadsOneMore ==
  \E c \in Convs :
    /\ conv[c].status = "OPEN" /\ conv[c].turn <= MaxTurns
    /\ cmd' = [kind |-> "CHAT_TURN", c |-> c, turn |-> conv[c].turn + 1]

SayReads ==
  \E c \in Convs :
    /\ conv[c].status = "OPEN" /\ conv[c].turn < MaxTurns
    /\ cmd' = [kind |-> "CHAT_TURN", c |-> c, turn |-> conv[c].turn + 1]

CloseReads ==
  \E c \in Convs :
    /\ conv[c].status # "NONE"
    /\ cmd' = [kind |-> "CHAT_CLOSE", c |-> c,
               turn |-> IF conv[c].turn < MaxTurns THEN conv[c].turn + 1 ELSE MaxTurns]

SendTask == cmd' = [kind |-> "TASK", c |-> NoConv, turn |-> 1]

Reads ==
  /\ cmd = NoCommand /\ Len(msgs) < MaxMsgs
  /\ TalkReads \/ SayReads \/ CloseReads \/ SendTask
  /\ UNCHANGED <<msgs, conv, job>>

\* Mutant of CanReceive: whether the conversation goes on is left to the client.
CanReceiveByTurn(k) == k.kind = "CHAT_TURN" => conv[k.c].turn < MaxTurns

\* assert_conversation_can_receive_locked.
CanReceive(k) ==
  k.kind = "CHAT_TURN" => conv[k.c].status = "OPEN" /\ conv[k.c].turn < MaxTurns

\* Mutant of TargetFree: messages alone make a worker busy.
TargetFreeOfMessages(k) == BusyMsgs = {}

\* assert_worker_target_free_locked.
TargetFree(k) ==
  /\ BusyMsgs = {}
  /\ \/ k.kind \in {"CHAT_TURN", "CHAT_CLOSE"}
     \/ \A c \in Convs \ {k.c} : conv[c].status # "OPEN"

\* enqueue_message_locked: refused, or the message is queued; one that closes a
\* conversation has ended as soon as it is.
Enqueue ==
  /\ cmd # NoCommand /\ cmd' = NoCommand
  /\ IF CanReceive(cmd) /\ TargetFree(cmd)
     THEN /\ msgs' = Append(msgs, [kind |-> cmd.kind, c |-> cmd.c, turn |-> cmd.turn,
               status |-> IF cmd.kind = "CHAT_CLOSE" THEN "CLOSED" ELSE "QUEUED"])
          /\ Touched(cmd.c, cmd.kind, "same", cmd.turn)
     ELSE UNCHANGED <<msgs, conv, job>>

-----------------------------------------------------------------------------
(* The worker, and what ends a message *)

Becomes(i, status) == msgs' = [msgs EXCEPT ![i].status = status]

Deliver(i) ==
  /\ msgs[i].status = "QUEUED" /\ Becomes(i, "DELIVERED")
  /\ Touched(msgs[i].c, msgs[i].kind, "same", msgs[i].turn)
  /\ UNCHANGED cmd

\* update_message_status_locked.
StartRunning(i) ==
  /\ msgs[i].status = "DELIVERED" /\ Becomes(i, "RUNNING")
  /\ Touched(msgs[i].c, msgs[i].kind, "RUNNING", msgs[i].turn)
  /\ UNCHANGED cmd

\* save_reply_locked; the turn of a reply is that of replyEnvelope.  A reply to
\* work that was cancelled or timed out is ignored.
Reply(i) ==
  /\ msgs[i].status \in {"DELIVERED", "RUNNING"}
  /\ \E status \in {"DONE", "FAILED"} :
       /\ Becomes(i, status)
       /\ Touched(msgs[i].c, "REPLY", IF status = "DONE" THEN "OPEN" ELSE status,
                  IF msgs[i].turn < MaxTurns THEN msgs[i].turn + 1 ELSE MaxTurns)
  /\ UNCHANGED cmd

\* cancel_work_locked with something to cancel, the timeout sweep, and the end
\* of a session.
Settle(i) ==
  /\ Busy(i)
  /\ \E status \in {"CANCELLED", "TIMEOUT"} :
       Becomes(i, status) /\ Touched(msgs[i].c, msgs[i].kind, status, msgs[i].turn)
  /\ UNCHANGED cmd

\* cancel_work_locked of a conversation that waits for the lead.
CancelConversation(c) ==
  /\ conv[c].status = "OPEN" /\ \A i \in BusyMsgs : msgs[i].c # c
  /\ Touched(c, "CHAT_TURN", "CANCELLED", conv[c].turn)
  /\ UNCHANGED <<msgs, cmd>>

Next ==
  \/ Reads \/ Enqueue
  \/ \E i \in DOMAIN msgs : Deliver(i) \/ StartRunning(i) \/ Reply(i) \/ Settle(i)
  \/ \E c \in Convs : CancelConversation(c)

Spec == Init /\ [][Next]_vars

-----------------------------------------------------------------------------
(* Properties *)

\* The record of a conversation and its job never disagree on whether it goes
\* on, though each has a life of its own (memory_job_projector.py:275).
OpenIffRunning == \A c \in Convs : conv[c].status = "OPEN" <=> job[c] = "RUNNING"

\* A turn that the worker has or will get is one of a conversation that goes
\* on; and no other work is given to a worker in conversation
\* (memory_work_queue.py:106).
ConversationHasTheWorker ==
  /\ \A i \in BusyMsgs : msgs[i].c # NoConv => conv[msgs[i].c].status = "OPEN"
  /\ \A c \in Convs : conv[c].status = "OPEN" =>
       /\ \A d \in Convs \ {c} : conv[d].status # "OPEN"
       /\ \A i \in BusyMsgs : msgs[i].c = c

\* Record, job, messages and the worker agree on which conversation goes on.
OneConversation == OpenIffRunning /\ ConversationHasTheWorker

\* A conversation that ended is not taken up again, and its turns only go
\* forward, so that it reaches its last one (memory_job_projector.py:224).
TurnsGoForward ==
  [][\A c \in Convs : /\ conv'[c].turn >= conv[c].turn
                      /\ conv[c].status \in Ended => conv'[c].status \in Ended]_vars
=============================================================================
