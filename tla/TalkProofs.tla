----------------------------- MODULE TalkProofs -----------------------------
(***************************************************************************)
(* Proofs about Talk for any number of conversations, messages and turns:  *)
(* its type invariant, that record, job, messages and worker agree on      *)
(* which conversation goes on, and that turns only go forward.             *)
(***************************************************************************)
EXTENDS Talk, TLAPS

USE TalkConstantsOK DEF NoConv

-----------------------------------------------------------------------------
(* The inductive invariant *)

\* The record of a conversation and its job start, go on and end together.
JobsFollow ==
  \A c \in Convs : /\ conv[c].status = "NONE" <=> job[c] = "NONE"
                   /\ conv[c].status = "OPEN" <=> job[c] = "RUNNING"
                   /\ conv[c].status = "NONE" => conv[c].turn = 0

\* The worker has one message at most; a turn is that of its conversation.
OneBusy ==
  /\ \A i, j \in BusyMsgs : i = j
  /\ \A i \in BusyMsgs :
       /\ msgs[i].kind # "CHAT_CLOSE"
       /\ msgs[i].c # NoConv => /\ conv[msgs[i].c].status = "OPEN"
                                /\ msgs[i].turn = conv[msgs[i].c].turn

\* One conversation goes on at most, and then nothing else does.
OneOpen ==
  \A c \in Convs : conv[c].status = "OPEN" =>
    /\ \A d \in Convs \ {c} : conv[d].status # "OPEN"
    /\ \A i \in BusyMsgs : msgs[i].c = c

\* A command that read a conversation finds it later at the turn it read, or at
\* its own when the message of that turn was replied to meanwhile.
CommandOK ==
  cmd = NoCommand \/
    /\ Len(msgs) < MaxMsgs
    /\ \/ cmd.kind = "TASK" /\ cmd.c = NoConv /\ cmd.turn = 1
       \/ /\ cmd.kind = "CHAT_START" /\ cmd.c \in Convs /\ cmd.turn = 1
          /\ conv[cmd.c].status = "NONE"
       \/ /\ cmd.kind \in {"CHAT_TURN", "CHAT_CLOSE"} /\ cmd.c \in Convs
          /\ conv[cmd.c].status # "NONE"
          /\ cmd.turn \in 1..MaxTurns /\ conv[cmd.c].turn <= cmd.turn
          /\ \A i \in BusyMsgs : msgs[i].c = cmd.c =>
               conv[cmd.c].turn < cmd.turn \/ cmd.turn = MaxTurns

IInv ==
  /\ TypeOK
  /\ JobsFollow /\ OneBusy /\ OneOpen /\ CommandOK

-----------------------------------------------------------------------------
(* Steps that change neither a conversation nor its job *)

LEMMA BusyBy == BusyMsgs = {i \in DOMAIN msgs : msgs[i].status \in {"QUEUED", "DELIVERED", "RUNNING"}}
BY DEF BusyMsgs, Busy

\* A message that becomes something else keeps its kind, conversation and turn.
LEMMA BecomesKeeps ==
  ASSUME TypeOK, NEW i \in DOMAIN msgs, NEW s \in {"DELIVERED", "RUNNING", "DONE"} \cup Ended,
         Becomes(i, s)
  PROVE  /\ msgs' \in Seq(Message) /\ Len(msgs') = Len(msgs) /\ DOMAIN msgs' = DOMAIN msgs
         /\ \A j \in DOMAIN msgs : /\ msgs'[j].kind = msgs[j].kind /\ msgs'[j].c = msgs[j].c
                                   /\ msgs'[j].turn = msgs[j].turn
                                   /\ j # i => msgs'[j].status = msgs[j].status
         /\ msgs'[i].status = s
<1>1. msgs[i] \in Message /\ msgs \in Seq(Message) /\ i \in 1..Len(msgs)
  BY DEF TypeOK
<1>2. msgs' = [msgs EXCEPT ![i] = [msgs[i] EXCEPT !.status = s]]
  BY <1>1 DEF Becomes
<1>3. [msgs[i] EXCEPT !.status = s] \in Message
  BY <1>1 DEF Message
<1>4. msgs' \in Seq(Message) /\ Len(msgs') = Len(msgs) /\ DOMAIN msgs' = DOMAIN msgs
  BY <1>1, <1>2, <1>3
<1>5. /\ msgs'[i] = [msgs[i] EXCEPT !.status = s]
      /\ \A j \in DOMAIN msgs \ {i} : msgs'[j] = msgs[j]
  BY <1>1, <1>2
<1> QED
  BY <1>1, <1>4, <1>5 DEF Message

\* The next status and turn of a conversation are ones it can have.
LEMMA TouchedEffect ==
  ASSUME TypeOK, NEW c \in Convs, NEW kind, NEW status, NEW turn \in 0..MaxTurns,
         Touched(c, kind, status, turn)
  PROVE  LET n == NextStatus(c, kind, status, turn) IN
         /\ n \in {"OPEN"} \cup Ended
         /\ conv' = [conv EXCEPT ![c] = [status |-> n, turn |-> turn]]
         /\ job' = [job EXCEPT ![c] = JobMoved(@, n)]
         /\ conv' \in [Convs -> Conversation] /\ job' \in [Convs -> TalkJobStatus]
<1>1. c # NoConv
  OBVIOUS
<1>2. NextStatus(c, kind, status, turn) \in {"OPEN"} \cup Ended
  BY DEF NextStatus, Ended
<1>3. \A n \in {"OPEN"} \cup Ended, old \in TalkJobStatus : JobMoved(old, n) \in TalkJobStatus
  BY DEF JobMoved, TalkJobStatus, Ended
<1>4. \A n \in {"OPEN"} \cup Ended : [status |-> n, turn |-> turn] \in Conversation
  BY DEF Conversation
<1> DEFINE n == NextStatus(c, kind, status, turn)
<1>5. /\ conv' = [conv EXCEPT ![c] = [status |-> n, turn |-> turn]]
      /\ job' = [job EXCEPT ![c] = JobMoved(job[c], n)]
  BY <1>1 DEF Touched
<1>6. conv \in [Convs -> Conversation] /\ job \in [Convs -> TalkJobStatus]
  BY DEF TypeOK
<1> HIDE DEF n
<1>7. n \in {"OPEN"} \cup Ended
  BY <1>2 DEF n
<1>8. conv' \in [Convs -> Conversation]
  BY <1>4, <1>5, <1>6, <1>7
<1>9. job' \in [Convs -> TalkJobStatus]
  BY <1>3, <1>5, <1>6, <1>7
<1> QED
  BY <1>5, <1>7, <1>8, <1>9 DEF n

\* Turns go forward and no ended conversation is taken up in the step.
Forward == \A c \in Convs : /\ conv'[c].turn >= conv[c].turn
                            /\ conv[c].status \in Ended => conv'[c].status \in Ended

\* A message that is handed out or started leaves its conversation as it is.
LEMMA GoesOn ==
  ASSUME IInv, NEW i \in DOMAIN msgs, Deliver(i) \/ StartRunning(i)
  PROVE  IInv' /\ Forward
<1> DEFINE s == IF Deliver(i) THEN "DELIVERED" ELSE "RUNNING"
<1>1. TypeOK /\ JobsFollow /\ OneBusy /\ OneOpen /\ CommandOK /\ i \in BusyMsgs /\ cmd' = cmd
  BY DEF IInv, BusyMsgs, Busy, Deliver, StartRunning
<1>2. PICK r \in {"DELIVERED", "RUNNING"} : Becomes(i, r)
  BY DEF Deliver, StartRunning
<1>3. /\ msgs' \in Seq(Message) /\ Len(msgs') = Len(msgs) /\ DOMAIN msgs' = DOMAIN msgs
      /\ \A j \in DOMAIN msgs : /\ msgs'[j].kind = msgs[j].kind /\ msgs'[j].c = msgs[j].c
                                /\ msgs'[j].turn = msgs[j].turn
                                /\ j # i => msgs'[j].status = msgs[j].status
      /\ msgs'[i].status = r
  BY <1>1, <1>2, BecomesKeeps
<1>4. BusyMsgs' = BusyMsgs
  BY <1>1, <1>3 DEF BusyMsgs, Busy
<1>5. UNCHANGED <<conv, job>>
  <2>1. CASE msgs[i].c = NoConv
    BY <2>1 DEF Deliver, StartRunning, Touched
  <2>2. CASE msgs[i].c # NoConv
    <3> DEFINE c == msgs[i].c
               t == msgs[i].turn
    <3>1. /\ c \in Convs /\ t \in 0..MaxTurns /\ conv[c].status = "OPEN" /\ t = conv[c].turn
          /\ msgs[i].kind \in {"TASK", "CHAT_START", "CHAT_TURN"}
      <4>1. msgs[i] \in Message
        BY <1>1 DEF TypeOK
      <4> QED
        BY <1>1, <2>2, <4>1 DEF OneBusy, Message, Kinds
    <3>2. PICK x \in {"same", "RUNNING"} : Touched(c, msgs[i].kind, x, t)
      BY DEF Deliver, StartRunning
    <3>3. NextStatus(c, msgs[i].kind, x, t) = "OPEN"
      BY <3>1, <3>2 DEF NextStatus, Ended
    <3>4. /\ conv' = [conv EXCEPT ![c] = [status |-> "OPEN", turn |-> t]]
          /\ job' = [job EXCEPT ![c] = JobMoved(job[c], "OPEN")]
      BY <2>2, <3>2, <3>3 DEF Touched
    <3>5. conv[c] = [status |-> "OPEN", turn |-> t]
      <4>1. conv[c] \in Conversation
        BY <1>1, <3>1 DEF TypeOK
      <4>2. \A k \in Conversation : k = [status |-> k.status, turn |-> k.turn]
        BY DEF Conversation
      <4> QED
        BY <3>1, <4>1, <4>2
    <3>6. JobMoved(job[c], "OPEN") = job[c]
      BY <1>1, <3>1 DEF JobMoved, JobsFollow, Ended
    <3> QED
      BY <1>1, <3>1, <3>4, <3>5, <3>6 DEF TypeOK
  <2> QED
    BY <2>1, <2>2
<1>6. TypeOK' /\ JobsFollow'
  BY <1>1, <1>3, <1>5 DEF TypeOK, JobsFollow
<1>7. OneBusy' /\ OneOpen' /\ CommandOK'
  <2>1. \A j \in BusyMsgs : j \in DOMAIN msgs
    BY DEF BusyMsgs
  <2> QED
    BY <1>1, <1>3, <1>4, <1>5, <2>1 DEF OneBusy, OneOpen, CommandOK, NoCommand
<1>8. Forward
  BY <1>1, <1>5 DEF Forward, TypeOK, Conversation
<1> QED
  BY <1>6, <1>7, <1>8 DEF IInv

-----------------------------------------------------------------------------
(* Steps that end the worker's message *)

\* A conversation that goes on comes to its next turn or its end, and the worker
\* has no message any more.
LEMMA EndsKeeps ==
  ASSUME IInv, NEW c \in Convs, conv[c].status = "OPEN",
         NEW n \in {"OPEN"} \cup Ended, NEW t \in 0..MaxTurns,
         \/ t = conv[c].turn
         \/ t >= conv[c].turn /\ t <= conv[c].turn + 1 /\ \E i \in BusyMsgs : msgs[i].c = c,
         conv' = [conv EXCEPT ![c] = [status |-> n, turn |-> t]],
         job' = [job EXCEPT ![c] = JobMoved(job[c], n)],
         BusyMsgs' = {}, msgs' \in Seq(Message), Len(msgs') = Len(msgs), UNCHANGED cmd
  PROVE  IInv' /\ Forward
<1>1. TypeOK /\ JobsFollow /\ OneBusy /\ OneOpen /\ CommandOK
  BY DEF IInv
<1>2. /\ conv'[c].status = n /\ conv'[c].turn = t
      /\ \A d \in Convs \ {c} : conv'[d] = conv[d] /\ job'[d] = job[d]
      /\ job'[c] = JobMoved(job[c], n)
  BY <1>1 DEF TypeOK
<1>3. job'[c] = (IF n = "OPEN" THEN "RUNNING" ELSE n) /\ job[c] = "RUNNING"
  BY <1>1, <1>2 DEF JobMoved, JobsFollow, Ended
<1>4. TypeOK'
  <2>1. conv' \in [Convs -> Conversation]
    <3>1. [status |-> n, turn |-> t] \in Conversation
      BY DEF Conversation
    <3> QED
      BY <1>1, <3>1 DEF TypeOK
  <2>2. job' \in [Convs -> TalkJobStatus]
    <3>1. JobMoved(job[c], n) \in TalkJobStatus
      BY <1>2, <1>3 DEF TalkJobStatus
    <3> QED
      BY <1>1, <3>1 DEF TypeOK
  <2> QED
    BY <1>1, <2>1, <2>2 DEF TypeOK
<1>5. JobsFollow' /\ OneBusy' /\ OneOpen'
  BY <1>1, <1>2, <1>3 DEF JobsFollow, OneBusy, OneOpen, Ended
<1>6. CommandOK'
  <2>1. CASE cmd.kind \in {"CHAT_TURN", "CHAT_CLOSE"} /\ cmd.c = c /\ cmd # NoCommand
    <3>1. /\ Len(msgs) < MaxMsgs /\ cmd.turn \in 1..MaxTurns /\ conv[c].turn <= cmd.turn
          /\ \A i \in BusyMsgs : msgs[i].c = c => conv[c].turn < cmd.turn \/ cmd.turn = MaxTurns
      BY <1>1, <2>1 DEF CommandOK
    <3>2. t <= cmd.turn
      BY <1>1, <3>1 DEF TypeOK, Conversation
    <3> QED
      BY <1>2, <2>1, <3>1, <3>2 DEF CommandOK, Ended
  <2>2. CASE ~(cmd.kind \in {"CHAT_TURN", "CHAT_CLOSE"} /\ cmd.c = c /\ cmd # NoCommand)
    BY <1>1, <1>2, <2>2 DEF CommandOK, NoCommand
  <2> QED
    BY <2>1, <2>2
<1>7. Forward
  <2>1. \A d \in Convs : conv[d].turn \in 0..MaxTurns
    BY <1>1 DEF TypeOK, Conversation
  <2>2. conv'[c].turn >= conv[c].turn /\ conv[c].status \notin Ended
    BY <1>2, <2>1 DEF Ended
  <2>3. \A d \in Convs \ {c} : conv'[d].turn >= conv[d].turn /\ conv'[d].status = conv[d].status
    BY <1>2, <2>1
  <2> QED
    BY <2>2, <2>3 DEF Forward
<1> QED
  BY <1>4, <1>5, <1>6, <1>7 DEF IInv

\* A message without a conversation ends.
LEMMA TaskEnds ==
  ASSUME IInv, UNCHANGED <<conv, job, cmd>>, BusyMsgs' = {},
         msgs' \in Seq(Message), Len(msgs') = Len(msgs)
  PROVE  IInv' /\ Forward
<1>1. TypeOK /\ JobsFollow /\ OneBusy /\ OneOpen /\ CommandOK
  BY DEF IInv
<1>2. TypeOK' /\ JobsFollow' /\ OneBusy' /\ OneOpen' /\ CommandOK'
  BY <1>1 DEF TypeOK, JobsFollow, OneBusy, OneOpen, CommandOK, NoCommand
<1>3. Forward
  BY <1>1 DEF Forward, TypeOK, Conversation
<1> QED
  BY <1>2, <1>3 DEF IInv

\* The only busy message becomes one that has ended.
LEMMA NobodyBusy ==
  ASSUME TypeOK, OneBusy, NEW i \in BusyMsgs, NEW s \in {"DONE"} \cup Ended, Becomes(i, s)
  PROVE  BusyMsgs' = {} /\ msgs' \in Seq(Message) /\ Len(msgs') = Len(msgs)
<1>1. i \in DOMAIN msgs /\ \A j \in DOMAIN msgs : Busy(j) => j = i
  BY DEF BusyMsgs, OneBusy
<1>2. /\ msgs' \in Seq(Message) /\ Len(msgs') = Len(msgs) /\ DOMAIN msgs' = DOMAIN msgs
      /\ \A j \in DOMAIN msgs : j # i => msgs'[j].status = msgs[j].status
      /\ msgs'[i].status = s
  BY <1>1, BecomesKeeps
<1> QED
  BY <1>1, <1>2 DEF BusyMsgs, Busy, Ended

\* What a busy message is.
LEMMA BusyMessage ==
  ASSUME IInv, NEW i \in BusyMsgs
  PROVE  /\ msgs[i].c \in Convs \cup {NoConv} /\ msgs[i].turn \in 1..MaxTurns
         /\ msgs[i].kind \in {"TASK", "CHAT_START", "CHAT_TURN"}
         /\ msgs[i].c # NoConv => /\ conv[msgs[i].c].status = "OPEN"
                                  /\ msgs[i].turn = conv[msgs[i].c].turn
<1>1. msgs[i] \in Message
  BY DEF IInv, TypeOK, BusyMsgs
<1> QED
  BY <1>1 DEF IInv, OneBusy, Message, Kinds

LEMMA ReplyKeeps ==
  ASSUME IInv, NEW i \in DOMAIN msgs, Reply(i) PROVE IInv' /\ Forward
<1>1. i \in BusyMsgs /\ UNCHANGED cmd /\ TypeOK /\ OneBusy
  BY DEF IInv, BusyMsgs, Busy, Reply
<1> DEFINE c == msgs[i].c
           t == IF msgs[i].turn < MaxTurns THEN msgs[i].turn + 1 ELSE MaxTurns
<1>2. PICK s \in {"DONE", "FAILED"} :
        Becomes(i, s) /\ Touched(c, "REPLY", IF s = "DONE" THEN "OPEN" ELSE s, t)
  BY DEF Reply
<1>3. BusyMsgs' = {} /\ msgs' \in Seq(Message) /\ Len(msgs') = Len(msgs)
  BY <1>1, <1>2, NobodyBusy DEF Ended
<1>4. CASE c = NoConv
  BY <1>1, <1>2, <1>3, <1>4, TaskEnds DEF Touched
<1>5. CASE c # NoConv
  <2>1. /\ c \in Convs /\ conv[c].status = "OPEN" /\ msgs[i].turn = conv[c].turn
        /\ msgs[i].turn \in 1..MaxTurns
    BY <1>1, <1>5, BusyMessage
  <2>2. t \in 0..MaxTurns /\ t >= conv[c].turn /\ t <= conv[c].turn + 1
    BY <2>1
  <2> DEFINE given == IF s = "DONE" THEN "OPEN" ELSE s
             n == NextStatus(c, "REPLY", given, t)
  <2> HIDE DEF t, given
  <2>3. /\ n \in {"OPEN"} \cup Ended
        /\ conv' = [conv EXCEPT ![c] = [status |-> n, turn |-> t]]
        /\ job' = [job EXCEPT ![c] = JobMoved(job[c], n)]
    <3>1. Touched(c, "REPLY", given, t)
      BY <1>2 DEF t, given
    <3> QED
      BY <1>1, <2>1, <2>2, <3>1, TouchedEffect
  <2> HIDE DEF n
  <2> QED
    BY <1>1, <1>3, <2>1, <2>2, <2>3, EndsKeeps
<1> QED
  BY <1>4, <1>5

LEMMA SettleKeeps ==
  ASSUME IInv, NEW i \in DOMAIN msgs, Settle(i) PROVE IInv' /\ Forward
<1>1. i \in BusyMsgs /\ UNCHANGED cmd /\ TypeOK /\ OneBusy
  BY DEF IInv, BusyMsgs, Settle
<1> DEFINE c == msgs[i].c
           t == msgs[i].turn
<1>2. PICK s \in {"CANCELLED", "TIMEOUT"} : Becomes(i, s) /\ Touched(c, msgs[i].kind, s, t)
  BY DEF Settle
<1>3. BusyMsgs' = {} /\ msgs' \in Seq(Message) /\ Len(msgs') = Len(msgs)
  BY <1>1, <1>2, NobodyBusy DEF Ended
<1>4. CASE c = NoConv
  BY <1>1, <1>2, <1>3, <1>4, TaskEnds DEF Touched
<1>5. CASE c # NoConv
  <2>1. c \in Convs /\ conv[c].status = "OPEN" /\ t = conv[c].turn /\ t \in 0..MaxTurns
    BY <1>1, <1>5, BusyMessage
  <2> DEFINE n == NextStatus(c, msgs[i].kind, s, t)
  <2>2. /\ n \in {"OPEN"} \cup Ended
        /\ conv' = [conv EXCEPT ![c] = [status |-> n, turn |-> t]]
        /\ job' = [job EXCEPT ![c] = JobMoved(job[c], n)]
    BY <1>1, <1>2, <2>1, TouchedEffect
  <2> HIDE DEF n
  <2> QED
    BY <1>1, <1>3, <2>1, <2>2, EndsKeeps
<1> QED
  BY <1>4, <1>5

LEMMA CancelKeeps ==
  ASSUME IInv, NEW c \in Convs, CancelConversation(c) PROVE IInv' /\ Forward
<1>1. TypeOK /\ OneOpen /\ conv[c].status = "OPEN" /\ UNCHANGED <<msgs, cmd>>
  BY DEF IInv, CancelConversation
<1>2. BusyMsgs = {}
  BY <1>1 DEF OneOpen, CancelConversation
<1>3. BusyMsgs' = {} /\ msgs' \in Seq(Message) /\ Len(msgs') = Len(msgs)
  BY <1>1, <1>2 DEF BusyMsgs, Busy, TypeOK
<1> DEFINE t == conv[c].turn
           n == NextStatus(c, "CHAT_TURN", "CANCELLED", t)
<1>4. t \in 0..MaxTurns
  BY <1>1 DEF TypeOK, Conversation
<1>5. /\ n \in {"OPEN"} \cup Ended
      /\ conv' = [conv EXCEPT ![c] = [status |-> n, turn |-> t]]
      /\ job' = [job EXCEPT ![c] = JobMoved(job[c], n)]
  BY <1>1, <1>4, TouchedEffect DEF CancelConversation
<1> HIDE DEF n
<1> QED
  BY <1>1, <1>3, <1>4, <1>5, EndsKeeps

-----------------------------------------------------------------------------
(* The commands *)

LEMMA ReadsKeeps == IInv /\ Reads => IInv' /\ Forward
<1> SUFFICES ASSUME IInv, Reads PROVE IInv' /\ Forward
  OBVIOUS
<1>1. TypeOK /\ JobsFollow /\ OneBusy /\ OneOpen /\ CommandOK
  BY DEF IInv
<1>2. UNCHANGED <<msgs, conv, job>> /\ BusyMsgs' = BusyMsgs
  BY DEF Reads, BusyMsgs, Busy
<1>3. \A c \in Convs : conv[c].turn \in 0..MaxTurns
  BY <1>1 DEF TypeOK, Conversation
<1>4. /\ cmd' \in Command
      /\ \/ cmd'.kind = "TASK" /\ cmd'.c = NoConv /\ cmd'.turn = 1
         \/ /\ cmd'.kind = "CHAT_START" /\ cmd'.c \in Convs /\ cmd'.turn = 1
            /\ conv[cmd'.c].status = "NONE"
         \/ /\ cmd'.kind \in {"CHAT_TURN", "CHAT_CLOSE"} /\ cmd'.c \in Convs
            /\ conv[cmd'.c].status # "NONE" /\ cmd'.turn \in 1..MaxTurns
            /\ \/ cmd'.turn = conv[cmd'.c].turn + 1
               \/ cmd'.turn = MaxTurns
  <2>1. CASE TalkReads
    BY <2>1 DEF TalkReads, Command, Kinds
  <2>2. CASE SayReads
    BY <1>3, <2>2 DEF SayReads, Command, Kinds
  <2>3. CASE CloseReads
    BY <1>3, <2>3 DEF CloseReads, Command, Kinds
  <2>4. CASE SendTask
    BY <2>4 DEF SendTask, Command, Kinds
  <2> QED
    BY <2>1, <2>2, <2>3, <2>4 DEF Reads
<1>5. TypeOK' /\ JobsFollow' /\ OneBusy' /\ OneOpen'
  BY <1>1, <1>2, <1>4 DEF TypeOK, JobsFollow, OneBusy, OneOpen
<1>6. CommandOK'
  <2>1. Len(msgs) < MaxMsgs
    BY DEF Reads
  <2>2. \A c \in Convs, n \in 1..MaxTurns :
          n = conv[c].turn + 1 \/ n = MaxTurns =>
            conv[c].turn <= n /\ (conv[c].turn < n \/ n = MaxTurns)
    BY <1>3
  <2> QED
    BY <1>2, <1>4, <2>1, <2>2 DEF CommandOK
<1>7. Forward
  BY <1>2, <1>3 DEF Forward
<1> QED
  BY <1>5, <1>6, <1>7 DEF IInv

\* A message that is sent finds the worker free, and is its only one then.
LEMMA SentIsOnlyBusy ==
  ASSUME TypeOK, BusyMsgs = {}, Len(msgs) < MaxMsgs, NEW x \in Message,
         msgs' = Append(msgs, x)
  PROVE  /\ msgs' \in Seq(Message) /\ Len(msgs') <= MaxMsgs
         /\ x.status # "CLOSED" /\ x.status \notin Ended =>
              \A i \in BusyMsgs' : i = Len(msgs) + 1 /\ msgs'[i] = x
         /\ x.status = "CLOSED" => BusyMsgs' = {}
<1>1. msgs \in Seq(Message) /\ Len(msgs) \in Nat
  BY DEF TypeOK
<1>2. /\ msgs' \in Seq(Message) /\ Len(msgs') = Len(msgs) + 1
      /\ \A i \in 1..Len(msgs) : msgs'[i] = msgs[i]
      /\ msgs'[Len(msgs) + 1] = x
      /\ DOMAIN msgs' = 1..(Len(msgs) + 1) /\ DOMAIN msgs = 1..Len(msgs)
  BY <1>1
<1>3. \A i \in 1..Len(msgs) : ~Busy(i)
  BY <1>2 DEF BusyMsgs
<1>4. \A i \in BusyMsgs' : i = Len(msgs) + 1 /\ msgs'[i] = x
  BY <1>1, <1>2, <1>3 DEF BusyMsgs, Busy
<1>5. x.status = "CLOSED" => BusyMsgs' = {}
  BY <1>4 DEF BusyMsgs, Busy
<1> QED
  BY <1>1, <1>2, <1>4, <1>5, MaxMsgs \in Nat

\* A turn is sent: the only conversation that goes on is the one it is sent to.
LEMMA TurnSent ==
  ASSUME IInv, NEW x \in Message, msgs' = Append(msgs, x), Len(msgs) < MaxMsgs, BusyMsgs = {},
         cmd' = NoCommand, NEW c \in Convs, x.c = c, x.kind # "CHAT_CLOSE", x.status = "QUEUED",
         conv[c].status \in {"NONE", "OPEN"}, conv[c].turn <= x.turn,
         \A d \in Convs \ {c} : conv[d].status # "OPEN",
         conv' = [conv EXCEPT ![c] = [status |-> "OPEN", turn |-> x.turn]],
         job' = [job EXCEPT ![c] = "RUNNING"]
  PROVE  IInv' /\ Forward
<1>1. TypeOK /\ JobsFollow
  BY DEF IInv
<1>2. /\ msgs' \in Seq(Message) /\ Len(msgs') <= MaxMsgs
      /\ \A i \in BusyMsgs' : i = Len(msgs) + 1 /\ msgs'[i] = x
  BY <1>1, SentIsOnlyBusy DEF Ended
<1>3. /\ conv'[c].status = "OPEN" /\ conv'[c].turn = x.turn /\ job'[c] = "RUNNING"
      /\ \A d \in Convs \ {c} : conv'[d] = conv[d] /\ job'[d] = job[d]
  BY <1>1 DEF TypeOK
<1>4. TypeOK'
  <2>1. [status |-> "OPEN", turn |-> x.turn] \in Conversation
    BY DEF Message, Conversation
  <2>2. conv' \in [Convs -> Conversation]
    BY <1>1, <2>1 DEF TypeOK
  <2>3. job' \in [Convs -> TalkJobStatus] /\ cmd' \in Command
    BY <1>1 DEF TypeOK, TalkJobStatus, NoCommand, Command
  <2> QED
    BY <1>2, <2>2, <2>3 DEF TypeOK
<1>5. JobsFollow' /\ OneBusy' /\ OneOpen' /\ CommandOK'
  BY <1>1, <1>2, <1>3 DEF JobsFollow, OneBusy, OneOpen, CommandOK
<1>6. Forward
  <2>1. \A d \in Convs : conv[d].turn \in 0..MaxTurns
    BY <1>1 DEF TypeOK, Conversation
  <2>2. x.turn >= conv[c].turn
    BY <2>1 DEF Message
  <2> QED
    BY <1>3, <2>1, <2>2 DEF Forward, Ended
<1> QED
  BY <1>4, <1>5, <1>6 DEF IInv

\* A conversation is closed while the worker has no message.
LEMMA CloseSent ==
  ASSUME IInv, NEW x \in Message, msgs' = Append(msgs, x), Len(msgs) < MaxMsgs, BusyMsgs = {},
         cmd' = NoCommand, NEW c \in Convs, x.status = "CLOSED",
         conv[c].status # "NONE", conv[c].turn <= x.turn,
         conv' = [conv EXCEPT ![c] = [status |-> "CLOSED", turn |-> x.turn]],
         job' = [job EXCEPT ![c] = JobMoved(job[c], "CLOSED")]
  PROVE  IInv' /\ Forward
<1>1. TypeOK /\ JobsFollow /\ OneOpen
  BY DEF IInv
<1>2. msgs' \in Seq(Message) /\ Len(msgs') <= MaxMsgs /\ BusyMsgs' = {}
  BY <1>1, SentIsOnlyBusy
<1>3. job[c] \in TalkJobStatus \ {"NONE"}
  BY <1>1 DEF TypeOK, JobsFollow
<1>4. JobMoved(job[c], "CLOSED") \in Ended
  BY <1>3 DEF JobMoved, Ended
<1>5. /\ conv'[c].status = "CLOSED" /\ conv'[c].turn = x.turn /\ job'[c] \in Ended
      /\ \A d \in Convs \ {c} : conv'[d] = conv[d] /\ job'[d] = job[d]
  BY <1>1, <1>4 DEF TypeOK
<1>6. TypeOK'
  <2>1. [status |-> "CLOSED", turn |-> x.turn] \in Conversation
    BY DEF Message, Conversation, Ended
  <2>2. conv' \in [Convs -> Conversation]
    BY <1>1, <2>1 DEF TypeOK
  <2>3. job' \in [Convs -> TalkJobStatus] /\ cmd' \in Command
    BY <1>1, <1>4 DEF TypeOK, TalkJobStatus, NoCommand, Command
  <2> QED
    BY <1>2, <2>2, <2>3 DEF TypeOK
<1>7. JobsFollow' /\ OneBusy' /\ OneOpen' /\ CommandOK'
  BY <1>1, <1>2, <1>5 DEF JobsFollow, OneBusy, OneOpen, CommandOK, Ended
<1>8. Forward
  <2>1. \A d \in Convs : conv[d].turn \in 0..MaxTurns
    BY <1>1 DEF TypeOK, Conversation
  <2>2. x.turn >= conv[c].turn
    BY <2>1 DEF Message
  <2> QED
    BY <1>5, <2>1, <2>2 DEF Forward, Ended
<1> QED
  BY <1>6, <1>7, <1>8 DEF IInv

LEMMA TaskSent ==
  ASSUME IInv, NEW x \in Message, msgs' = Append(msgs, x), Len(msgs) < MaxMsgs, BusyMsgs = {},
         cmd' = NoCommand, x.c = NoConv, x.kind = "TASK", x.status = "QUEUED",
         \A d \in Convs : conv[d].status # "OPEN", UNCHANGED <<conv, job>>
  PROVE  IInv' /\ Forward
<1>1. TypeOK /\ JobsFollow
  BY DEF IInv
<1>2. /\ msgs' \in Seq(Message) /\ Len(msgs') <= MaxMsgs
      /\ \A i \in BusyMsgs' : i = Len(msgs) + 1 /\ msgs'[i] = x
  BY <1>1, SentIsOnlyBusy DEF Ended
<1>3. TypeOK'
  BY <1>1, <1>2 DEF TypeOK, NoCommand, Command
<1>4. JobsFollow' /\ OneBusy' /\ OneOpen' /\ CommandOK'
  BY <1>1, <1>2 DEF JobsFollow, OneBusy, OneOpen, CommandOK
<1>5. Forward
  BY <1>1 DEF Forward, TypeOK, Conversation
<1> QED
  BY <1>3, <1>4, <1>5 DEF IInv

LEMMA EnqueueKeeps == IInv /\ Enqueue => IInv' /\ Forward
<1> SUFFICES ASSUME IInv, Enqueue PROVE IInv' /\ Forward
  OBVIOUS
<1>1. TypeOK /\ JobsFollow /\ OneBusy /\ OneOpen /\ CommandOK
  BY DEF IInv
<1>2. CASE ~(CanReceive(cmd) /\ TargetFree(cmd))
  <2>1. UNCHANGED <<msgs, conv, job>> /\ cmd' = NoCommand /\ BusyMsgs' = BusyMsgs
    BY <1>2 DEF Enqueue, BusyMsgs, Busy
  <2>2. TypeOK' /\ JobsFollow' /\ OneBusy' /\ OneOpen' /\ CommandOK'
    BY <1>1, <2>1 DEF TypeOK, JobsFollow, OneBusy, OneOpen, CommandOK, NoCommand, Command
  <2>3. Forward
    BY <1>1, <2>1 DEF Forward, TypeOK, Conversation
  <2> QED
    BY <2>2, <2>3 DEF IInv
<1>3. CASE CanReceive(cmd) /\ TargetFree(cmd)
  <2> DEFINE x == [kind |-> cmd.kind, c |-> cmd.c, turn |-> cmd.turn,
                   status |-> IF cmd.kind = "CHAT_CLOSE" THEN "CLOSED" ELSE "QUEUED"]
             c == cmd.c
  <2>1. /\ msgs' = Append(msgs, x) /\ Touched(c, cmd.kind, "same", cmd.turn)
        /\ cmd # NoCommand /\ cmd' = NoCommand /\ BusyMsgs = {} /\ Len(msgs) < MaxMsgs
    BY <1>1, <1>3 DEF Enqueue, TargetFree, CommandOK
  <2>2. x \in Message
    BY <1>1, <2>1 DEF CommandOK, Message, Kinds, Ended
  <2>3. /\ x.c = c /\ x.kind = cmd.kind /\ x.turn = cmd.turn
        /\ x.status = IF cmd.kind = "CHAT_CLOSE" THEN "CLOSED" ELSE "QUEUED"
    OBVIOUS
  <2> HIDE DEF x
  <2>4. CASE cmd.kind = "TASK"
    <3>1. c = NoConv /\ \A d \in Convs : conv[d].status # "OPEN"
      BY <1>1, <1>3, <2>1, <2>4 DEF CommandOK, TargetFree
    <3>2. UNCHANGED <<conv, job>>
      BY <2>1, <3>1 DEF Touched
    <3> QED
      BY <2>1, <2>2, <2>3, <2>4, <3>1, <3>2, TaskSent
  <2>5. CASE cmd.kind = "CHAT_START"
    <3>1. /\ c \in Convs /\ conv[c].status = "NONE" /\ cmd.turn = 1 /\ conv[c].turn = 0
          /\ job[c] = "NONE" /\ \A d \in Convs \ {c} : conv[d].status # "OPEN"
      BY <1>1, <1>3, <2>1, <2>5 DEF CommandOK, TargetFree, JobsFollow
    <3>2. NextStatus(c, cmd.kind, "same", cmd.turn) = "OPEN" /\ JobMoved(job[c], "OPEN") = "RUNNING"
      BY <2>5, <3>1 DEF NextStatus, JobMoved, Ended
    <3>3. /\ conv' = [conv EXCEPT ![c] = [status |-> "OPEN", turn |-> x.turn]]
          /\ job' = [job EXCEPT ![c] = "RUNNING"]
      BY <2>1, <2>3, <3>1, <3>2 DEF Touched
    <3>4. x.kind # "CHAT_CLOSE" /\ x.status = "QUEUED" /\ conv[c].turn <= x.turn
      BY <2>3, <2>5, <3>1
    <3> QED
      BY <2>1, <2>2, <2>3, <3>1, <3>3, <3>4, TurnSent
  <2>6. CASE cmd.kind = "CHAT_TURN"
    <3>1. /\ c \in Convs /\ conv[c].status = "OPEN" /\ conv[c].turn <= cmd.turn
          /\ job[c] = "RUNNING" /\ \A d \in Convs \ {c} : conv[d].status # "OPEN"
      BY <1>1, <1>3, <2>1, <2>6 DEF CommandOK, CanReceive, OneOpen, JobsFollow
    <3>2. NextStatus(c, cmd.kind, "same", cmd.turn) = "OPEN" /\ JobMoved(job[c], "OPEN") = "RUNNING"
      BY <2>6, <3>1 DEF NextStatus, JobMoved, Ended
    <3>3. /\ conv' = [conv EXCEPT ![c] = [status |-> "OPEN", turn |-> x.turn]]
          /\ job' = [job EXCEPT ![c] = "RUNNING"]
      BY <2>1, <2>3, <3>1, <3>2 DEF Touched
    <3> QED
      BY <2>1, <2>2, <2>3, <2>6, <3>1, <3>3, TurnSent
  <2>7. CASE cmd.kind = "CHAT_CLOSE"
    <3>1. c \in Convs /\ conv[c].status # "NONE" /\ conv[c].turn <= cmd.turn
      BY <1>1, <2>1, <2>7 DEF CommandOK
    <3>2. NextStatus(c, cmd.kind, "same", cmd.turn) = "CLOSED"
      BY <2>7 DEF NextStatus
    <3>3. /\ conv' = [conv EXCEPT ![c] = [status |-> "CLOSED", turn |-> x.turn]]
          /\ job' = [job EXCEPT ![c] = JobMoved(job[c], "CLOSED")]
      BY <2>1, <2>3, <3>1, <3>2 DEF Touched
    <3> QED
      BY <2>1, <2>2, <2>3, <2>7, <3>1, <3>3, CloseSent
  <2> QED
    BY <1>1, <2>1, <2>4, <2>5, <2>6, <2>7 DEF CommandOK
<1> QED
  BY <1>2, <1>3

-----------------------------------------------------------------------------
(* The theorems *)

LEMMA InvInit == Init => IInv
<1> SUFFICES ASSUME Init PROVE IInv
  OBVIOUS
<1>1. TypeOK
  BY DEF Init, TypeOK, Conversation, TalkJobStatus, NoCommand, Command
<1>2. BusyMsgs = {}
  BY DEF Init, BusyMsgs
<1> QED
  BY <1>1, <1>2 DEF Init, IInv, JobsFollow, OneBusy, OneOpen, CommandOK

LEMMA InvStep == IInv /\ [Next]_vars => IInv' /\ Forward
<1> SUFFICES ASSUME IInv, [Next]_vars PROVE IInv' /\ Forward
  OBVIOUS
<1>1. CASE UNCHANGED vars
  <2>1. UNCHANGED <<msgs, conv, job, cmd>> /\ BusyMsgs' = BusyMsgs
    BY <1>1 DEF vars, BusyMsgs, Busy
  <2> QED
    BY <2>1 DEF IInv, TypeOK, JobsFollow, OneBusy, OneOpen, CommandOK, NoCommand, Forward,
      Conversation
<1> QED
  BY <1>1, ReadsKeeps, EnqueueKeeps, GoesOn, ReplyKeeps, SettleKeeps, CancelKeeps DEF Next

\* The record of a conversation, its job, the messages and the worker agree on
\* which conversation goes on, however the lead's commands, the worker's replies,
\* cancellations and timeouts interleave (memory_job_projector.py:275,
\* memory_work_queue.py:106).
THEOREM TalkIsOneConversation == Spec => []OneConversation
<1>1. IInv => OneConversation
  BY DEF IInv, JobsFollow, OneBusy, OneOpen, OneConversation, OpenIffRunning,
    ConversationHasTheWorker, BusyMsgs, TypeOK, Message
<1> QED
  BY InvInit, InvStep, <1>1, PTL DEF Spec

\* A conversation that ended stays so, and its turns never go back
\* (memory_job_projector.py:224).
THEOREM TurnsNeverGoBack == Spec => TurnsGoForward
<1>1. IInv /\ [Next]_vars =>
        [\A c \in Convs : /\ conv'[c].turn >= conv[c].turn
                          /\ conv[c].status \in Ended => conv'[c].status \in Ended]_vars
  BY InvStep DEF Forward
<1>2. IInv /\ [Next]_vars => IInv'
  BY InvStep
<1> QED
  BY InvInit, <1>1, <1>2, PTL DEF Spec, TurnsGoForward

\* Every variable keeps its type: in particular no message is sent beyond the
\* bound of a command that was prepared, nor a turn beyond the last.
THEOREM TypeCorrect == Spec => []TypeOK
BY InvInit, InvStep, PTL DEF Spec, IInv
=============================================================================
