--------------------------- MODULE ChannelsProofs ---------------------------
(***************************************************************************)
(* Proofs about Channels, for any number of channels of any kinds, of      *)
(* messages, processes and crashes.                                        *)
(***************************************************************************)
EXTENDS Channels, SequenceTheorems, TLAPS

Updates == 1..MaxUpdates

LEMMA TailProps ==
  ASSUME NEW S, NEW s \in Seq(S), s # <<>>
  PROVE  /\ Tail(s) \in Seq(S) /\ Head(s) = s[1] /\ 1 \in DOMAIN s /\ s[1] \in S
         /\ DOMAIN Tail(s) = 1..(Len(s) - 1)
         /\ \A i \in DOMAIN Tail(s) : i + 1 \in DOMAIN s /\ Tail(s)[i] = s[i + 1]
<1>1. Len(s) \in Nat /\ Len(s) > 0 /\ DOMAIN s = 1..Len(s)
  BY EmptySeq
<1>2. QED
  BY <1>1

LEMMA AppendProps ==
  ASSUME NEW S, NEW s \in Seq(S), NEW e \in S
  PROVE  /\ Append(s, e) \in Seq(S) /\ DOMAIN Append(s, e) = 1..(Len(s) + 1)
         /\ DOMAIN s = 1..Len(s) /\ Len(s) \in Nat
         /\ \A i \in 1..Len(s) : Append(s, e)[i] = s[i]
         /\ Append(s, e)[Len(s) + 1] = e
OBVIOUS

(* What a poll hands out: an unbroken run of messages.                     *)
LEMMA WantedProps ==
  ASSUME TypeOK, ChannelsAssumption, NEW c \in Channels
  PROVE  /\ First(c) \in Nat \ {0} /\ First(c) > forgot[c]
         /\ kind[c] = "telegram" => First(c) >= offset[c]
         /\ kind[c] = "telegram" => First(c) = offset[c] \/ First(c) = forgot[c] + 1
         /\ kind[c] # "telegram" => First(c) = forgot[c] + 1
         /\ Wanted(c) \in Seq(Updates)
         /\ \A i \in DOMAIN Wanted(c) : i \in Nat /\ Wanted(c)[i] = First(c) + i - 1
         /\ \A i \in DOMAIN Wanted(c) : Wanted(c)[i] <= sent[c]
         /\ Wanted(c) # <<>> => /\ 1 \in DOMAIN Wanted(c) /\ Wanted(c)[1] = First(c)
                                /\ Head(Wanted(c)) = First(c) /\ First(c) \in Updates
         /\ AfterPoll(c) \in 0..MaxUpdates
<1>1. /\ sent[c] \in 0..MaxUpdates /\ forgot[c] \in 0..MaxUpdates
      /\ offset[c] \in 0..(MaxUpdates + 1) /\ MaxUpdates \in Nat
  BY DEF TypeOK, ChannelsAssumption
<1>2. /\ First(c) \in Nat \ {0} /\ First(c) > forgot[c] /\ First(c) <= MaxUpdates + 1
      /\ kind[c] = "telegram" => First(c) >= offset[c]
      /\ kind[c] = "telegram" => First(c) = offset[c] \/ First(c) = forgot[c] + 1
      /\ kind[c] # "telegram" => First(c) = forgot[c] + 1
  BY <1>1 DEF First, Later
<1>3. /\ DOMAIN Wanted(c) = 1..(sent[c] - First(c) + 1)
      /\ \A i \in DOMAIN Wanted(c) : Wanted(c)[i] = First(c) + i - 1
  BY DEF Wanted
<1>4. \A i \in DOMAIN Wanted(c) : i \in Nat /\ i >= 1 /\ Wanted(c)[i] \in Updates
                                  /\ Wanted(c)[i] <= sent[c]
  BY <1>1, <1>2, <1>3 DEF Updates
<1>5. Wanted(c) \in Seq(Updates)
  <2>1. CASE sent[c] - First(c) + 1 \in Nat
    <3> DEFINE n == sent[c] - First(c) + 1
               w(i) == First(c) + i - 1
    <3>1. n \in Nat /\ Wanted(c) = [i \in 1..n |-> w(i)]
      BY <2>1 DEF Wanted
    <3>2. \A i \in 1..n : w(i) \in Updates
      BY <1>3, <1>4
    <3> HIDE DEF n, w
    <3>3. QED
      BY <3>1, <3>2
  <2>2. CASE sent[c] - First(c) + 1 < 0
    <3>1. 1..(sent[c] - First(c) + 1) = {}
      BY <1>1, <1>2, <2>2
    <3>2. Wanted(c) = <<>>
      BY <3>1 DEF Wanted
    <3>3. QED
      BY <3>2
  <2>3. QED
    BY <1>1, <1>2, <2>1, <2>2
<1>6. Wanted(c) # <<>> => 1 \in DOMAIN Wanted(c) /\ Head(Wanted(c)) = Wanted(c)[1]
  BY <1>5, TailProps
<1>7. Wanted(c) # <<>> => Wanted(c)[1] = First(c) /\ First(c) \in Updates
  BY <1>2, <1>3, <1>4, <1>6
<1>8. AfterPoll(c) \in 0..MaxUpdates
  BY <1>1, <1>2 DEF AfterPoll
<1>9. QED
  BY <1>2, <1>3, <1>4, <1>5, <1>6, <1>7, <1>8

(* The types of the process and its tasks, and those of the messages.      *)
TypeProc ==
  /\ life \in {"up", "stopping", "closing", "ended", "down"}
  /\ boots \in 1..MaxBoots /\ crashes \in 0..MaxCrashes
  /\ pos \in Nat /\ at \in {"none", "flush", "wait", "join", "finish"} /\ cut \in BOOLEAN
TypeTask ==
  /\ kind \in KindSets
  /\ stopped \in [Channels -> BOOLEAN] /\ late \in [Channels -> BOOLEAN]
  /\ start \in [Channels -> {"none", "begin", "wait", "failed", "returned"}]
  /\ task \in [Channels -> Running \cup Over]
  /\ attempt \in [Channels -> 0..MaxAttempts]
TypeMsg ==
  /\ offset \in [Channels -> 0..MaxUpdates + 1]
  /\ batch \in [Channels -> Seq(Updates)] /\ begun \in [Channels -> Seq(Updates)]
  /\ sent \in [Channels -> 0..MaxUpdates] /\ forgot \in [Channels -> 0..MaxUpdates]
  /\ ended \in [Channels -> SUBSET Updates]

LEMMA TypeParts == TypeOK <=> TypeProc /\ TypeTask /\ TypeMsg
BY DEF TypeOK, TypeProc, TypeTask, TypeMsg, Updates

(* What the head of a batch is.                                            *)
LEMMA HeadTyped ==
  ASSUME TypeOK, NEW c \in Channels, batch[c] # <<>>
  PROVE  /\ batch[c] \in Seq(Updates) /\ Head(batch[c]) \in Updates
         /\ Head(batch[c]) = batch[c][1] /\ 1 \in DOMAIN batch[c]
<1>1. batch[c] \in Seq(Updates)
  BY DEF TypeOK, Updates
<1>2. QED
  BY <1>1, TailProps

Places == {"none", "flush", "wait", "join", "finish"}

(* stop_all stands at an await of the channel it stops.                    *)
PathInv == pos \in Channels => at \in DOMAIN StopPath(pos)

LEMMA KindTyped ==
  ASSUME TypeOK, ChannelsAssumption, NEW c \in Channels
  PROVE  kind[c] \in Kinds
BY DEF TypeOK, ChannelsAssumption

LEMMA PathProps ==
  ASSUME NEW c \in Channels, kind[c] \in Kinds
  PROVE  /\ "none" \in DOMAIN StopPath(c) /\ DOMAIN StopPath(c) \subseteq Places
         /\ \A p \in DOMAIN StopPath(c) : StopPath(c)[p] \in DOMAIN StopPath(c)
         /\ \A p \in DOMAIN StopPath(c) :
              StopPath(c)[p] = "join" => p = "none" /\ kind[c] \in {"signal", "discord"}
         /\ \A p \in DOMAIN StopPath(c) :
              StopPath(c)[p] = "finish" => p = "wait" \/ p = "join"
         /\ \A p \in DOMAIN StopPath(c) :
              StopPath(c)[p] = "none" => \/ p \in {"wait", "finish"}
                                        \/ kind[c] \in {"hook", "echo"}
<1>1. CASE kind[c] = "telegram"
  BY <1>1 DEF StopPath, Places
<1>2. CASE kind[c] \in Lark
  BY <1>2 DEF StopPath, Places, Lark
<1>3. CASE kind[c] \in {"signal", "discord"}
  BY <1>3 DEF StopPath, Places, Lark
<1>4. CASE kind[c] = "hook"
  BY <1>4 DEF StopPath, Places, Lark
<1>5. CASE kind[c] = "echo"
  BY <1>5 DEF StopPath, Places, Lark
<1>6. QED
  BY <1>1, <1>2, <1>3, <1>4, <1>5 DEF Kinds, Lark

(* A channel that is stopped: its task is over, and will not come back.    *)
Told(c) == late[c] \/ start[c] # "begin"
Quiet(c) == late[c] \/ (start[c] # "begin" /\ task[c] \in Over)

(* stop_all leaves stopped channels behind it.                             *)
StopInv ==
  /\ pos > 0
  /\ life \notin {"stopping", "closing"} => pos = 1 /\ at = "none"
  /\ \A c \in Channels : c < pos => Quiet(c)
  /\ pos \in Channels /\ at # "none" => Told(pos)
  /\ pos \in Channels /\ at \in {"join", "finish"} => Quiet(pos)
  /\ life = "closing" /\ ~cut => pos \notin Channels
  /\ \A c \in Channels : kind[c] \in {"hook", "echo"} => task[c] = "none"
  /\ \A c \in Channels : task[c] \in Running => start[c] # "begin"

(* A batch is an unbroken run of messages, and the task is in the handler  *)
(* of its head; whatever comes before the head, or before the offset, has  *)
(* ended.                                                                  *)
BatchInv ==
  \A c \in Channels :
    /\ batch[c] # <<>> <=> task[c] = "handle"
    /\ task[c] \in {"poll", "handle"} => c \in Polling
    /\ task[c] = "backoff" => c \in Polling \/ kind[c] = "lark_ws"
    /\ \A i \in DOMAIN batch[c] : batch[c][i] = batch[c][1] + i - 1
OffsetInv ==
  \A c \in Channels : kind[c] = "telegram" =>
    \A u \in Updates :
      u < offset[c] \/ u <= forgot[c] \/ (batch[c] # <<>> /\ u < batch[c][1]) => u \in ended[c]

(* What has begun comes before what the next poll asks for, and not after  *)
(* the head of the batch.                                                  *)
OrderInv ==
  \A c \in Channels :
    /\ kind[c] = "signal" => /\ forgot[c] <= sent[c]
                             /\ \A i \in DOMAIN batch[c] : batch[c][i] <= forgot[c]
    /\ \A i \in DOMAIN begun[c] : batch[c] # <<>> => begun[c][i] <= batch[c][1]
    /\ \A i \in DOMAIN begun[c] :
         c \in Polling /\ task[c] \in {"new", "poll", "backoff"} => begun[c][i] < First(c)
    /\ start[c] = "begin" => begun[c] = <<>>

IInv == TypeOK /\ PathInv /\ StopInv /\ BatchInv /\ OffsetInv /\ OrderInv /\ OnceInOrder

LEMMA InitIInv == ChannelsAssumption /\ Init => IInv
<1> SUFFICES ASSUME ChannelsAssumption, Init PROVE IInv
  OBVIOUS
<1> USE DEF Init
<1>1. TypeOK
  <2>1. TypeProc
    <3>1. 1 \in 1..MaxBoots /\ 0 \in 0..MaxCrashes
      BY DEF ChannelsAssumption
    <3>2. life = "up" /\ boots = 1 /\ crashes = 0 /\ pos = 1 /\ at = "none" /\ cut = FALSE
      OBVIOUS
    <3> HIDE DEF Init
    <3>3. QED
      BY <3>1, <3>2 DEF TypeProc
  <2>2. TypeTask
    BY DEF TypeTask, ChannelsAssumption, Running, Over
  <2>3. MaxUpdates \in Nat /\ <<>> \in Seq(Updates) /\ {} \in SUBSET Updates
    BY DEF ChannelsAssumption
  <2>4. TypeMsg
    BY <2>3 DEF TypeMsg
  <2>5. QED
    BY <2>1, <2>2, <2>4, TypeParts
<1>2. PathInv
  <2>1. SUFFICES ASSUME pos \in Channels PROVE "none" \in DOMAIN StopPath(pos)
    BY DEF PathInv
  <2>2. QED
    BY <1>1, <2>1, KindTyped, PathProps
<1>3. StopInv
  BY DEF StopInv, Channels, Running, ChannelsAssumption
<1>4. BatchInv /\ OrderInv /\ OnceInOrder
  BY DEF BatchInv, OrderInv, OnceInOrder
<1>5. OffsetInv
  BY DEF OffsetInv, Updates
<1>6. QED
  BY <1>1, <1>2, <1>3, <1>4, <1>5 DEF IInv

(* The steps of start() and of a task that touch no message.               *)
Quietly(c) ==
  \/ Started(c) \/ StartFails(c) \/ StartReturns(c) \/ FirstStep(c) \/ Backoff(c)
  \/ Connect(c) \/ Receive(c) \/ SetUp(c) \/ CleanUp(c) \/ Disconnected(c)

(* What they have in common.                                               *)
Leaves(c) ==
  /\ start' = [start EXCEPT ![c] = start'[c]] /\ task' = [task EXCEPT ![c] = task'[c]]
  /\ attempt' \in [Channels -> 0..MaxAttempts]
  /\ start'[c] \in {"wait", "failed", "returned"} \/ (start'[c] = start[c] /\ task[c] \in Running)
  /\ \/ task'[c] \in (Running \cup Over) \ {"handle"} /\ task[c] # "handle"
     \/ task'[c] = task[c]
  /\ task'[c] \in {"new", "poll", "backoff"} /\ c \in Polling =>
       task[c] \in {"new", "poll", "backoff"} \/ start[c] = "begin"
  /\ task'[c] = "poll" => c \in Polling
  /\ task'[c] = "backoff" => c \in Polling \/ kind[c] = "lark_ws"
  /\ task[c] \in Over => task'[c] = task[c] \/ start[c] = "begin"
  /\ kind[c] \in {"hook", "echo"} => task'[c] = "none" \/ task'[c] = task[c]
  /\ UNCHANGED <<kind, process, stopping, stopped, offset, batch, server, history>>

LEMMA QuietlyLeaves ==
  ASSUME ChannelsAssumption, IInv, NEW c \in Channels, Quietly(c)
  PROVE  Leaves(c)
<1> USE DEF Leaves, Running, Over, Moves, Unless
<1>0. /\ start \in [Channels -> {"none", "begin", "wait", "failed", "returned"}]
      /\ task \in [Channels -> Running \cup Over] /\ attempt \in [Channels -> 0..MaxAttempts]
      /\ MaxAttempts \in Nat /\ kind[c] \in Kinds
  BY KindTyped DEF IInv, TypeOK, ChannelsAssumption
<1>a. /\ kind[c] \in {"hook", "echo"} => task[c] = "none"
      /\ task[c] \in Running => start[c] # "begin"
      /\ task[c] = "poll" => c \in Polling
      /\ task[c] = "backoff" => c \in Polling \/ kind[c] = "lark_ws"
  BY DEF IInv, StopInv, BatchInv
<1>1. CASE Started(c)
  BY <1>0, <1>a, <1>1 DEF Started, HasTask
<1>2. CASE StartFails(c)
  BY <1>0, <1>a, <1>2 DEF StartFails
<1>3. CASE StartReturns(c)
  BY <1>0, <1>a, <1>3 DEF StartReturns
<1>4. CASE FirstStep(c)
  BY <1>0, <1>a, <1>4 DEF FirstStep, Polling, Kinds
<1>5. CASE Backoff(c)
  BY <1>0, <1>a, <1>5 DEF Backoff
<1>6. CASE Connect(c)
  <2>1. PICK to \in {"recv", "done", "raised"} :
          Moves(c, "connect", IF to = "recv" THEN Unless(c, to) ELSE to)
    BY <1>6 DEF Connect
  <2>2. QED
    BY <1>0, <1>a, <1>6, <2>1 DEF Connect
<1>7. CASE Receive(c)
  <2>1. PICK to \in {"recv", "raised"} :
          Moves(c, "recv", IF to = "recv" THEN Unless(c, to) ELSE to)
    BY <1>7 DEF Receive
  <2>2. QED
    BY <1>0, <1>a, <1>7, <2>1 DEF Receive
<1>8. CASE SetUp(c)
  BY <1>0, <1>a, <1>8 DEF SetUp
<1>9. CASE CleanUp(c)
  BY <1>0, <1>a, <1>9 DEF CleanUp
<1>10. CASE Disconnected(c)
  <2>1. attempt' \in [Channels -> 0..MaxAttempts]
    BY <1>0, <1>a, <1>10 DEF Disconnected
  <2>2. /\ task[c] = "serve" /\ kind[c] = "lark_ws" /\ start' = start
        /\ UNCHANGED <<kind, process, stopping, stopped, offset, batch, server, history>>
    BY <1>10 DEF Disconnected
  <2>3. \E to \in {"done", "backoff"} : task' = [task EXCEPT ![c] = to]
    BY <1>10 DEF Disconnected
  <2>4. QED
    BY <1>0, <2>1, <2>2, <2>3 DEF Polling
<1>11. QED
  BY <1>1, <1>2, <1>3, <1>4, <1>5, <1>6, <1>7, <1>8, <1>9, <1>10 DEF Quietly

LEMMA QuietlyIInv ==
  ASSUME ChannelsAssumption, IInv, NEW c \in Channels, Quietly(c)
  PROVE  IInv'
<1> USE DEF process, stopping, server, history
<1>1. Leaves(c)
  BY QuietlyLeaves
<1>2. TypeOK'
  <2>1. TypeProc' /\ TypeMsg'
    BY <1>1, TypeParts DEF Leaves, TypeProc, TypeMsg, IInv
  <2>2. /\ start'[c] \in {"none", "begin", "wait", "failed", "returned"}
        /\ task'[c] \in Running \cup Over
    BY <1>1 DEF Leaves, TypeOK, IInv
  <2>3. TypeTask'
    BY <1>1, <2>2 DEF Leaves, TypeOK, TypeTask, IInv
  <2>4. QED
    BY <2>1, <2>3, TypeParts DEF TypeOK, TypeProc, TypeTask, TypeMsg, Updates
<1>3. PathInv'
  BY <1>1 DEF Leaves, PathInv, IInv, StopPath
<1>4. /\ start \in [Channels -> {"none", "begin", "wait", "failed", "returned"}]
      /\ task \in [Channels -> Running \cup Over]
  BY DEF IInv, TypeOK
<1>5. StopInv'
  BY <1>1, <1>4 DEF Leaves, StopInv, IInv, Quiet, Told, Running, Over
<1>6. BatchInv'
  BY <1>1, <1>4 DEF Leaves, BatchInv, IInv, Polling
<1>7. OffsetInv'
  BY <1>1 DEF Leaves, OffsetInv, IInv
<1>8. OrderInv'
  BY <1>1, <1>4 DEF Leaves, OrderInv, IInv, Polling, First, Later, StopInv
<1>9. OnceInOrder'
  BY <1>1 DEF Leaves, OnceInOrder, IInv
<1>10. QED
  BY <1>2, <1>3, <1>5, <1>6, <1>7, <1>8, <1>9 DEF IInv

(* A poll: what it hands out, and what the server forgets.                 *)
LEMMA PollStep ==
  ASSUME ChannelsAssumption, IInv, NEW c \in Channels, Poll(c)
  PROVE  IInv'
<1> USE DEF process, stopping, server
<1> DEFINE msgs == Wanted(c)
<1>0. TypeOK /\ TypeProc /\ TypeTask /\ TypeMsg /\ kind[c] \in Kinds
  BY TypeParts, KindTyped DEF IInv
<1>1. /\ c \in Polling /\ task[c] = "poll"
      /\ task' = [task EXCEPT ![c] = IF msgs = <<>> THEN Unless(c, "poll") ELSE "handle"]
      /\ batch' = [batch EXCEPT ![c] = msgs]
      /\ forgot' = [forgot EXCEPT ![c] = AfterPoll(c)]
      /\ begun' = [begun EXCEPT ![c] = IF msgs = <<>> THEN @ ELSE Append(@, Head(msgs))]
      /\ UNCHANGED <<kind, process, stopping, stopped, start, attempt, offset, sent, ended, late>>
  BY DEF Poll, Moves, Begin
<1>2. /\ First(c) \in Nat \ {0} /\ First(c) > forgot[c] /\ msgs \in Seq(Updates)
      /\ AfterPoll(c) \in 0..MaxUpdates
      /\ \A i \in DOMAIN msgs : i \in Nat /\ msgs[i] = First(c) + i - 1 /\ msgs[i] <= sent[c]
      /\ msgs # <<>> => /\ 1 \in DOMAIN msgs /\ msgs[1] = First(c) /\ Head(msgs) = First(c)
                        /\ First(c) \in Updates
      /\ kind[c] = "telegram" => First(c) = offset[c] \/ First(c) = forgot[c] + 1
  BY <1>0, WantedProps
<1> HIDE DEF msgs
<1>3. begun[c] \in Seq(Updates) /\ begun'[c] \in Seq(Updates)
  <2>1. begun[c] \in Seq(Updates)
    BY <1>0 DEF TypeMsg
  <2>2. CASE msgs = <<>>
    BY <1>0, <1>1, <2>1, <2>2 DEF TypeMsg
  <2>3. CASE msgs # <<>>
    BY <1>0, <1>1, <1>2, <2>1, <2>3, AppendProps DEF TypeMsg
  <2>4. QED
    BY <2>1, <2>2, <2>3
<1>4. TypeOK'
  <2>1. TypeProc'
    BY <1>0, <1>1 DEF TypeProc
  <2>2. TypeTask'
    BY <1>0, <1>1 DEF TypeTask, Unless, Running, Over
  <2>3. TypeMsg'
    BY <1>0, <1>1, <1>2, <1>3 DEF TypeMsg
  <2>4. QED
    BY <2>1, <2>2, <2>3 DEF TypeOK, TypeProc, TypeTask, TypeMsg, Updates
<1>5. PathInv'
  BY <1>1 DEF PathInv, IInv, StopPath
<1>6. StopInv'
  BY <1>0, <1>1 DEF StopInv, IInv, Quiet, Told, Running, Over, Unless, TypeTask, Polling
<1>7. BatchInv'
  <2>1. \A i \in DOMAIN msgs : msgs[i] = msgs[1] + i - 1
    BY <1>2
  <2>2. BatchInv
    BY DEF IInv
  <2>3. QED
    BY <1>0, <1>1, <2>1, <2>2 DEF BatchInv, Polling, Unless, TypeTask, TypeMsg
<1>8. OffsetInv'
  <2>1. ASSUME kind[c] = "telegram", NEW u \in Updates, u < First(c) PROVE u \in ended[c]
    <3>1. u \in Nat /\ forgot[c] \in Nat /\ offset[c] \in Nat
      BY <1>0 DEF TypeMsg, Updates
    <3>2. u < offset[c] \/ u <= forgot[c]
      BY <1>2, <2>1, <3>1
    <3>3. QED
      BY <2>1, <3>2 DEF OffsetInv, IInv
  <2>2. SUFFICES ASSUME NEW d \in Channels, kind[d] = "telegram", NEW u \in Updates,
                        u < offset[d] \/ u <= forgot'[d] \/ (batch'[d] # <<>> /\ u < batch'[d][1])
                 PROVE  u \in ended[d]
    BY <1>1 DEF OffsetInv
  <2>3. CASE d # c
    BY <1>0, <1>1, <2>2, <2>3 DEF OffsetInv, IInv, TypeMsg
  <2>4. CASE d = c
    <3>1. u <= forgot'[c] => u < First(c)
      BY <1>0, <1>1, <1>2, <2>2, <2>4 DEF AfterPoll, TypeMsg, Updates
    <3>2. batch'[c] # <<>> /\ u < batch'[c][1] => u < First(c)
      BY <1>0, <1>1, <1>2 DEF TypeMsg
    <3>3. u < offset[c] => u < First(c)
      BY <1>0, <2>2, <2>4, WantedProps DEF TypeMsg, Updates
    <3>4. QED
      BY <2>1, <2>2, <2>4, <3>1, <3>2, <3>3
  <2>5. QED
    BY <2>3, <2>4
(* What had begun is before the first message wanted.                      *)
<1>9. \A i \in DOMAIN begun[c] : begun[c][i] < First(c) /\ i \in Nat
  BY <1>1, <1>3 DEF OrderInv, IInv
<1>10. CASE msgs = <<>>
  <2>1. begun' = begun /\ batch'[c] = <<>>
    BY <1>0, <1>1, <1>10 DEF TypeMsg
  <2>2. First(c)' >= First(c) /\ First(c)' \in Nat
    BY <1>0, <1>1, <1>2 DEF First, Later, AfterPoll, TypeMsg, OrderInv, IInv, Polling
  <2>3. OrderInv'
    <3>1. \A i \in DOMAIN begun[c] : begun[c][i] \in Nat
      BY <1>3 DEF Updates
    <3>2. OrderInv
      BY DEF IInv
    <3>3. \A d \in Channels : d # c => First(d)' = First(d)
      BY <1>0, <1>1 DEF First, Later, TypeMsg
    <3>4. kind[c] = "signal" => forgot'[c] = sent[c] /\ sent[c] \in Nat
      BY <1>0, <1>1 DEF AfterPoll, TypeMsg
    <3>5. \A i \in DOMAIN begun[c] : begun[c][i] < First(c)'
      BY <1>2, <1>9, <2>2, <3>1
    <3>6. SUFFICES ASSUME NEW d \in Channels
                   PROVE  /\ kind[d] = "signal" => /\ forgot'[d] <= sent[d]
                                                   /\ \A i \in DOMAIN batch'[d] : batch'[d][i] <= forgot'[d]
                          /\ \A i \in DOMAIN begun'[d] : batch'[d] # <<>> => begun'[d][i] <= batch'[d][1]
                          /\ \A i \in DOMAIN begun'[d] :
                               d \in Polling /\ task'[d] \in {"new", "poll", "backoff"} => begun'[d][i] < First(d)'
                          /\ start[d] = "begin" => begun'[d] = <<>>
      BY <1>1 DEF OrderInv, Polling
    <3>7. CASE d # c
      BY <1>0, <1>1, <2>1, <3>2, <3>3, <3>7 DEF OrderInv, TypeMsg, TypeTask
    <3>8. CASE d = c
      BY <1>0, <1>1, <2>1, <3>2, <3>4, <3>5, <3>8 DEF OrderInv, TypeMsg
    <3>9. QED
      BY <3>7, <3>8
  <2>4. OnceInOrder'
    BY <1>1, <2>1 DEF OnceInOrder, IInv
  <2>5. QED
    BY <1>4, <1>5, <1>6, <1>7, <1>8, <2>3, <2>4 DEF IInv
<1>11. CASE msgs # <<>>
  <2> DEFINE more == Append(begun[c], First(c))
  <2>1. begun' = [begun EXCEPT ![c] = more]
    BY <1>0, <1>1, <1>2, <1>11 DEF TypeMsg
  <2>2. /\ DOMAIN more = 1..(Len(begun[c]) + 1) /\ DOMAIN begun[c] = 1..Len(begun[c])
        /\ \A i \in DOMAIN begun[c] : more[i] = begun[c][i]
        /\ more[Len(begun[c]) + 1] = First(c) /\ Len(begun[c]) \in Nat
    <3>1. First(c) \in Updates /\ begun[c] \in Seq(Updates)
      BY <1>2, <1>3, <1>11
    <3>2. QED
      BY <3>1, AppendProps
  <2>3. \A i \in DOMAIN begun[c] : begun[c][i] \in Nat
    BY <1>3 DEF Updates
  <2> HIDE DEF more
  <2>4. \A i \in DOMAIN more : more[i] <= First(c)
    BY <1>2, <1>9, <2>2, <2>3
  <2>5. \A i, j \in DOMAIN more : i < j => more[i] < more[j]
    <3>1. SUFFICES ASSUME NEW i \in DOMAIN more, NEW j \in DOMAIN more, i < j
                   PROVE  more[i] < more[j]
      OBVIOUS
    <3>2. i \in DOMAIN begun[c] /\ (j \in DOMAIN begun[c] \/ j = Len(begun[c]) + 1)
      BY <2>2, <3>1
    <3>3. \A k, l \in DOMAIN begun[c] : k < l => begun[c][k] < begun[c][l]
      BY DEF OnceInOrder, IInv
    <3>4. QED
      BY <1>9, <2>2, <3>1, <3>2, <3>3
  <2>6. OnceInOrder'
    BY <1>0, <1>1, <2>1, <2>5 DEF OnceInOrder, IInv, TypeMsg
  <2>7. OrderInv'
    <3>1. task'[c] = "handle" /\ batch'[c] = msgs /\ begun'[c] = more /\ start[c] # "begin"
      BY <1>0, <1>1, <1>11, <2>1 DEF TypeMsg, TypeTask, StopInv, IInv, Running
    <3>2. OrderInv
      BY DEF IInv
    <3>3. \A d \in Channels : d # c => First(d)' = First(d)
      BY <1>0, <1>1 DEF First, Later, TypeMsg
    <3>4. kind[c] = "signal" => forgot'[c] = sent[c]
      BY <1>0, <1>1 DEF AfterPoll, TypeMsg
    <3>5. SUFFICES ASSUME NEW d \in Channels
                   PROVE  /\ kind[d] = "signal" => /\ forgot'[d] <= sent[d]
                                                   /\ \A i \in DOMAIN batch'[d] : batch'[d][i] <= forgot'[d]
                          /\ \A i \in DOMAIN begun'[d] : batch'[d] # <<>> => begun'[d][i] <= batch'[d][1]
                          /\ \A i \in DOMAIN begun'[d] :
                               d \in Polling /\ task'[d] \in {"new", "poll", "backoff"} => begun'[d][i] < First(d)'
                          /\ start[d] = "begin" => begun'[d] = <<>>
      BY <1>1 DEF OrderInv, Polling
    <3>6. CASE d # c
      BY <1>0, <1>1, <2>1, <3>2, <3>3, <3>6 DEF OrderInv, TypeMsg, TypeTask
    <3>7. CASE d = c
      <4>1. kind[c] = "signal" => sent[c] \in Nat
        BY <1>0 DEF TypeMsg
      <4>2. batch'[c][1] = First(c)
        BY <1>2, <1>11, <3>1
      <4>3. kind[c] = "signal" => /\ forgot'[c] <= sent[c]
                                  /\ \A i \in DOMAIN batch'[c] : batch'[c][i] <= forgot'[c]
        <5>1. \A i \in DOMAIN batch'[c] : batch'[c][i] <= sent[c]
          BY <1>2, <3>1
        <5>2. QED
          BY <3>4, <4>1, <5>1
      <4>4. \A i \in DOMAIN begun'[c] : begun'[c][i] <= batch'[c][1]
        BY <2>4, <3>1, <4>2
      <4>5. QED
        BY <3>1, <3>7, <4>3, <4>4
    <3>8. QED
      BY <3>6, <3>7
  <2>8. QED
    BY <1>4, <1>5, <1>6, <1>7, <1>8, <2>6, <2>7 DEF IInv
<1>12. QED
  BY <1>10, <1>11

LEMMA PollFailsStep ==
  ASSUME ChannelsAssumption, IInv, NEW c \in Channels, PollFails(c)
  PROVE  IInv'
<1> USE DEF process, stopping, server, history
<1>0. TypeOK /\ TypeProc /\ TypeTask /\ TypeMsg /\ kind[c] \in Kinds
  BY TypeParts, KindTyped DEF IInv
<1>1. /\ c \in Polling /\ task[c] = "poll" /\ task' = [task EXCEPT ![c] = "backoff"]
      /\ forgot' \in {forgot, [forgot EXCEPT ![c] = AfterPoll(c)]}
      /\ UNCHANGED <<kind, process, stopping, stopped, start, attempt, offset, batch, sent,
                     ended, begun, late>>
  BY DEF PollFails, Moves
<1>2. /\ First(c) \in Nat \ {0} /\ AfterPoll(c) \in 0..MaxUpdates
      /\ kind[c] = "telegram" => First(c) = offset[c] \/ First(c) = forgot[c] + 1
      /\ kind[c] # "telegram" => First(c) = forgot[c] + 1
  BY <1>0, WantedProps
<1>3. batch[c] = <<>>
  BY <1>1 DEF IInv, BatchInv
<1>4. TypeOK'
  <2>1. TypeProc'
    BY <1>0, <1>1 DEF TypeProc
  <2>2. TypeTask'
    BY <1>0, <1>1 DEF TypeTask, Running, Over
  <2>3. TypeMsg'
    BY <1>0, <1>1, <1>2 DEF TypeMsg
  <2>4. QED
    BY <2>1, <2>2, <2>3 DEF TypeOK, TypeProc, TypeTask, TypeMsg, Updates
<1>5. PathInv'
  BY <1>1 DEF PathInv, IInv, StopPath
<1>6. StopInv'
  BY <1>0, <1>1 DEF StopInv, IInv, Quiet, Told, Running, Over, TypeTask, Polling
<1>7. BatchInv'
  BY <1>0, <1>1, <1>3 DEF BatchInv, IInv, Polling, TypeTask
<1>8. OffsetInv'
  <2>1. ASSUME kind[c] = "telegram", NEW u \in Updates, u <= forgot'[c] PROVE u \in ended[c]
    <3>1. u \in Nat /\ forgot[c] \in Nat /\ offset[c] \in Nat
      BY <1>0 DEF TypeMsg, Updates
    <3>2. forgot'[c] \in {forgot[c], First(c) - 1}
      BY <1>0, <1>1, <2>1 DEF AfterPoll, TypeMsg
    <3>3. u < offset[c] \/ u <= forgot[c]
      BY <1>2, <2>1, <3>1, <3>2
    <3>4. QED
      BY <2>1, <3>3 DEF OffsetInv, IInv
  <2>2. \A d \in Channels : d # c => forgot'[d] = forgot[d]
    BY <1>0, <1>1 DEF TypeMsg
  <2>3. QED
    BY <1>1, <2>1, <2>2 DEF OffsetInv, IInv
<1>9. OrderInv'
  <2>1. forgot'[c] \in {forgot[c], AfterPoll(c)} /\ \A d \in Channels : d # c => forgot'[d] = forgot[d]
    BY <1>0, <1>1 DEF TypeMsg
  <2>2. \A d \in Channels : d # c => First(d)' = First(d)
    BY <1>1, <2>1 DEF First, Later
  <2>3. OrderInv
    BY DEF IInv
  <2>4. kind[c] = "signal" => forgot'[c] <= sent[c]
    <3>1. sent[c] \in Nat /\ forgot[c] \in Nat
      BY <1>0 DEF TypeMsg
    <3>2. QED
      BY <2>1, <2>3, <3>1 DEF OrderInv, AfterPoll
  <2>5. First(c)' >= First(c) /\ First(c)' \in Nat
    <3>1. forgot[c] \in Nat /\ offset[c] \in Nat /\ forgot'[c] \in Nat /\ sent[c] \in Nat
      BY <1>0, <1>1, <1>2, <2>1 DEF TypeMsg
    <3>2. CASE kind[c] = "telegram"
      BY <1>1, <2>1, <3>1, <3>2 DEF First, Later, AfterPoll
    <3>3. CASE kind[c] = "signal"
      BY <1>1, <2>1, <2>3, <3>1, <3>3 DEF First, AfterPoll, OrderInv
    <3>4. QED
      BY <1>1, <3>2, <3>3 DEF Polling
  <2>6. \A i \in DOMAIN begun[c] : begun[c][i] < First(c)' /\ begun[c][i] < First(c)
    <3>1. \A i \in DOMAIN begun[c] : begun[c][i] < First(c) /\ begun[c][i] \in Nat
      BY <1>0, <1>1, <2>3 DEF OrderInv, TypeMsg, Updates
    <3>2. QED
      BY <1>2, <2>5, <3>1
  <2>7. SUFFICES ASSUME NEW d \in Channels
                 PROVE  /\ kind[d] = "signal" => /\ forgot'[d] <= sent[d]
                                                 /\ \A i \in DOMAIN batch[d] : batch[d][i] <= forgot'[d]
                        /\ \A i \in DOMAIN begun[d] : batch[d] # <<>> => begun[d][i] <= batch[d][1]
                        /\ \A i \in DOMAIN begun[d] :
                             d \in Polling /\ task'[d] \in {"new", "poll", "backoff"} => begun[d][i] < First(d)'
                        /\ start[d] = "begin" => begun[d] = <<>>
    BY <1>1 DEF OrderInv, Polling
  <2>8. CASE d # c
    BY <1>0, <1>1, <2>1, <2>2, <2>3, <2>8 DEF OrderInv, TypeTask
  <2>9. CASE d = c
    BY <1>3, <2>3, <2>4, <2>6, <2>9 DEF OrderInv
  <2>10. QED
    BY <2>8, <2>9
<1>10. OnceInOrder'
  BY <1>1 DEF OnceInOrder, IInv
<1>11. QED
  BY <1>4, <1>5, <1>6, <1>7, <1>8, <1>9, <1>10 DEF IInv

(* The head of a batch has ended: the next one, if there is one, follows.  *)
LEMMA HandleStep ==
  ASSUME ChannelsAssumption, IInv, NEW c \in Channels, HandleEnds(c)
  PROVE  IInv'
<1> USE DEF process, stopping, server
<1> DEFINE u == batch[c][1]
           rest == Tail(batch[c])
           more == IF rest = <<>> THEN begun[c] ELSE Append(begun[c], Head(rest))
<1>0. TypeOK /\ TypeProc /\ TypeTask /\ TypeMsg /\ kind[c] \in Kinds
  BY TypeParts, KindTyped DEF IInv
<1>1. c \in Polling /\ task[c] = "handle" /\ batch[c] # <<>>
  BY DEF HandleEnds, Handled, IInv, BatchInv
<1>2. /\ batch[c] \in Seq(Updates) /\ Head(batch[c]) = u /\ u \in Updates /\ 1 \in DOMAIN batch[c]
      /\ rest \in Seq(Updates) /\ DOMAIN rest = 1..(Len(batch[c]) - 1)
      /\ \A i \in DOMAIN rest : i + 1 \in DOMAIN batch[c] /\ rest[i] = batch[c][i + 1]
  <2>1. batch[c] \in Seq(Updates)
    BY <1>0 DEF TypeMsg
  <2>2. QED
    BY <1>1, <2>1, TailProps
<1>3. /\ task' = [task EXCEPT ![c] = IF rest = <<>> THEN Unless(c, "poll") ELSE "handle"]
      /\ batch' = [batch EXCEPT ![c] = rest] /\ begun' = [begun EXCEPT ![c] = more]
      /\ ended' = [ended EXCEPT ![c] = @ \cup {u}]
      /\ offset' = IF kind[c] = "telegram"
                   THEN [offset EXCEPT ![c] = Later(offset[c], u + 1)] ELSE offset
      /\ UNCHANGED <<kind, process, stopping, stopped, start, attempt, sent, forgot, late>>
  <2>1. begun' = [begun EXCEPT ![c] = more]
    BY <1>0 DEF HandleEnds, Begin, TypeMsg
  <2>2. QED
    BY <1>2, <2>1 DEF HandleEnds, Handled, Moves, AfterUpdate
<1>4. /\ \A i \in DOMAIN rest : i \in Nat /\ rest[i] = u + i
      /\ rest # <<>> => 1 \in DOMAIN rest /\ Head(rest) = u + 1 /\ rest[1] = u + 1 /\ u + 1 \in Updates
  <2>1. \A i \in DOMAIN rest : i \in Nat /\ rest[i] = u + i
    <3>1. \A i \in DOMAIN batch[c] : batch[c][i] = u + i - 1
      BY DEF IInv, BatchInv
    <3>2. u \in Nat /\ \A i \in DOMAIN rest : i \in Nat
      BY <1>2 DEF Updates
    <3>3. QED
      BY <1>2, <3>1, <3>2
  <2>2. rest # <<>> => 1 \in DOMAIN rest /\ Head(rest) = rest[1] /\ rest[1] \in Updates
    BY <1>2, TailProps
  <2>3. QED
    BY <2>1, <2>2
<1> HIDE DEF u, rest
<1>5. begun[c] \in Seq(Updates) /\ more \in Seq(Updates)
  <2>1. begun[c] \in Seq(Updates)
    BY <1>0 DEF TypeMsg
  <2>2. QED
    BY <1>4, <2>1, AppendProps
<1>6. TypeOK'
  <2>1. TypeProc'
    BY <1>0, <1>3 DEF TypeProc
  <2>2. TypeTask'
    BY <1>0, <1>3 DEF TypeTask, Unless, Running, Over
  <2>3. offset' \in [Channels -> 0..MaxUpdates + 1]
    BY <1>0, <1>2, <1>3 DEF TypeMsg, Later, Updates, ChannelsAssumption
  <2> HIDE DEF more
  <2>4. TypeMsg'
    BY <1>0, <1>2, <1>3, <1>5, <2>3 DEF TypeMsg
  <2>5. QED
    BY <2>1, <2>2, <2>4 DEF TypeOK, TypeProc, TypeTask, TypeMsg, Updates
<1>7. PathInv'
  BY <1>3 DEF PathInv, IInv, StopPath
<1>8. StopInv'
  BY <1>0, <1>1, <1>3 DEF StopInv, IInv, Quiet, Told, Running, Over, Unless, TypeTask, Polling
<1>9. BatchInv'
  <2>1. BatchInv
    BY DEF IInv
  <2>2. \A i \in DOMAIN rest : rest[i] = rest[1] + i - 1
    BY <1>2, <1>4 DEF Updates
  <2>3. QED
    BY <1>0, <1>1, <1>3, <2>1, <2>2 DEF BatchInv, Polling, Unless, TypeTask, TypeMsg
(* Everything up to the head has ended.                                    *)
<1>10. u \in Nat /\ offset[c] \in Nat /\ forgot[c] \in Nat /\ offset'[c] \in Nat
  BY <1>0, <1>2, <1>6 DEF TypeMsg, Updates, TypeOK
<1>11. OffsetInv'
  <2>1. SUFFICES ASSUME NEW d \in Channels, kind[d] = "telegram", NEW v \in Updates,
                        v < offset'[d] \/ v <= forgot[d] \/ (batch'[d] # <<>> /\ v < batch'[d][1])
                 PROVE  v \in ended'[d]
    BY <1>3 DEF OffsetInv
  <2>2. OffsetInv
    BY DEF IInv
  <2>3. CASE d # c
    BY <1>0, <1>3, <2>1, <2>2, <2>3 DEF OffsetInv, TypeMsg
  <2>4. CASE d = c
    <3>1. v \in Nat /\ offset'[c] \in {offset[c], u + 1}
      BY <1>0, <1>3, <2>1, <2>4 DEF Updates, Later, TypeMsg
    <3>2. batch'[c] # <<>> => batch'[c][1] = u + 1
      BY <1>0, <1>3, <1>4 DEF TypeMsg
    <3>3. v < u \/ v = u \/ v < offset[c] \/ v <= forgot[c]
      BY <1>10, <2>1, <2>4, <3>1, <3>2
    <3>4. v # u => v \in ended[c]
      BY <1>1, <2>1, <2>2, <2>4, <3>3 DEF OffsetInv, u
    <3>5. ended'[c] = ended[c] \cup {u}
      BY <1>0, <1>3 DEF TypeMsg
    <3>6. QED
      BY <2>4, <3>4, <3>5
  <2>5. QED
    BY <2>3, <2>4
<1>12. \A i \in DOMAIN begun[c] : i \in Nat /\ begun[c][i] <= u /\ begun[c][i] \in Nat
  BY <1>1, <1>5 DEF OrderInv, IInv, u, Updates
<1>13. begun'[c] = more /\ batch'[c] = rest /\ start[c] # "begin"
  BY <1>0, <1>1, <1>3 DEF TypeMsg, IInv, StopInv, Running
<1>14. /\ \A i, j \in DOMAIN more : i < j => more[i] < more[j]
       /\ \A i \in DOMAIN more : rest # <<>> => more[i] <= rest[1]
       /\ \A i \in DOMAIN more : rest = <<>> => more[i] <= u
  <2>1. CASE rest = <<>>
    BY <1>12, <2>1 DEF OnceInOrder, IInv
  <2>2. CASE rest # <<>>
    <3>1. /\ more = Append(begun[c], u + 1) /\ rest[1] = u + 1 /\ u + 1 \in Updates
      BY <1>4, <2>2
    <3>2. /\ DOMAIN more = 1..(Len(begun[c]) + 1) /\ DOMAIN begun[c] = 1..Len(begun[c])
          /\ \A i \in DOMAIN begun[c] : more[i] = begun[c][i]
          /\ more[Len(begun[c]) + 1] = u + 1 /\ Len(begun[c]) \in Nat
      BY <1>5, <3>1, AppendProps
    <3> HIDE DEF more
    <3>3. \A i, j \in DOMAIN begun[c] : i < j => begun[c][i] < begun[c][j]
      BY DEF OnceInOrder, IInv
    <3>4. \A i, j \in DOMAIN more : i < j => more[i] < more[j]
      <4>1. SUFFICES ASSUME NEW i \in DOMAIN more, NEW j \in DOMAIN more, i < j
                     PROVE  more[i] < more[j]
        OBVIOUS
      <4>2. i \in DOMAIN begun[c] /\ (j \in DOMAIN begun[c] \/ j = Len(begun[c]) + 1)
        BY <3>2, <4>1
      <4>3. QED
        BY <1>10, <1>12, <3>2, <3>3, <4>1, <4>2
    <3>5. \A i \in DOMAIN more : more[i] <= u + 1
      BY <1>10, <1>12, <3>2
    <3>6. QED
      BY <2>2, <3>1, <3>4, <3>5
  <2>3. QED
    BY <2>1, <2>2
<1> HIDE DEF more
<1>15. OnceInOrder'
  BY <1>3, <1>13, <1>14, <1>0 DEF OnceInOrder, IInv, TypeMsg
<1>16. OrderInv'
  <2>1. OrderInv
    BY DEF IInv
  <2>2. \A d \in Channels : d # c => First(d)' = First(d)
    BY <1>0, <1>3 DEF First, Later, TypeMsg
  <2>3. kind[c] = "signal" => /\ forgot[c] <= sent[c] /\ u <= forgot[c]
                             /\ \A i \in DOMAIN rest : rest[i] <= forgot[c]
    BY <1>2, <2>1 DEF OrderInv, u
  <2>4. u < First(c)'
    <3>1. CASE kind[c] = "telegram"
      <4>1. First(c)' >= offset'[c] /\ offset'[c] >= u + 1
        BY <1>0, <1>3, <1>10, <3>1 DEF First, Later, TypeMsg
      <4>2. First(c)' \in Nat
        BY <1>3, <1>10, <3>1 DEF First, Later
      <4>3. QED
        BY <1>10, <4>1, <4>2
    <3>2. CASE kind[c] = "signal"
      BY <1>3, <1>10, <2>3, <3>2 DEF First
    <3>3. QED
      BY <1>1, <3>1, <3>2 DEF Polling
  <2>5. First(c)' \in Nat
    BY <1>3, <1>10 DEF First, Later
  <2>6. \A i \in DOMAIN more : more[i] \in Nat
    BY <1>5 DEF Updates
  <2>7. rest = <<>> => \A i \in DOMAIN more : more[i] < First(c)'
    BY <1>10, <1>14, <2>4, <2>5, <2>6
  <2>8. rest # <<>> => task'[c] = "handle"
    BY <1>0, <1>3 DEF TypeTask
  <2>9. SUFFICES ASSUME NEW d \in Channels
                 PROVE  /\ kind[d] = "signal" => /\ forgot[d] <= sent[d]
                                                 /\ \A i \in DOMAIN batch'[d] : batch'[d][i] <= forgot[d]
                        /\ \A i \in DOMAIN begun'[d] : batch'[d] # <<>> => begun'[d][i] <= batch'[d][1]
                        /\ \A i \in DOMAIN begun'[d] :
                             d \in Polling /\ task'[d] \in {"new", "poll", "backoff"} => begun'[d][i] < First(d)'
                        /\ start[d] = "begin" => begun'[d] = <<>>
    BY <1>3 DEF OrderInv, Polling
  <2>10. CASE d # c
    BY <1>0, <1>3, <2>1, <2>2, <2>10 DEF OrderInv, TypeTask, TypeMsg
  <2>11. CASE d = c
    BY <1>13, <1>14, <2>3, <2>7, <2>8, <2>11
  <2>12. QED
    BY <2>10, <2>11
<1>17. QED
  BY <1>6, <1>7, <1>8, <1>9, <1>11, <1>15, <1>16 DEF IInv

(* A step of stop_all: the place it moves to, and the task it may cancel.  *)
Moved(c) ==
  \/ at' = StopPath(c)[at] /\ pos' = IF at' = "none" THEN pos + 1 ELSE pos
  \/ at = "wait" /\ at' = "none" /\ pos' = pos + 1

LEMMA MovedProps ==
  ASSUME ChannelsAssumption, IInv, NEW c \in Channels, pos = c, Moved(c), kind' = kind
  PROVE  /\ pos' \in Nat /\ at' \in Places /\ PathInv' /\ pos' >= pos /\ pos' <= pos + 1
         /\ at' = "none" => pos' = pos + 1
         /\ at' # "none" => pos' = pos /\ at' = StopPath(c)[at]
<1>1. TypeOK /\ PathInv /\ pos \in Nat /\ kind[c] \in Kinds
  BY KindTyped DEF IInv, TypeOK
<1>2. /\ at \in DOMAIN StopPath(c) /\ DOMAIN StopPath(c) \subseteq Places
      /\ StopPath(c)[at] \in DOMAIN StopPath(c)
  BY <1>1, PathProps DEF PathInv
<1>3. \A d \in Channels : StopPath(d)' = StopPath(d)
  BY DEF StopPath
<1>4. \A d \in Channels : "none" \in DOMAIN StopPath(d)
  BY <1>1, KindTyped, PathProps
<1>5. /\ pos' \in Nat /\ pos' >= pos /\ pos' <= pos + 1
      /\ at' = "none" => pos' = pos + 1
      /\ at' # "none" => pos' = pos /\ at' = StopPath(c)[at]
  BY <1>1 DEF Moved
<1>6. at' \in Places
  BY <1>2 DEF Moved, Places
<1>7. PathInv'
  <2>1. CASE at' = "none"
    BY <1>3, <1>4, <2>1 DEF PathInv
  <2>2. CASE at' # "none"
    BY <1>2, <1>3, <1>5, <2>2 DEF PathInv
  <2>3. QED
    BY <2>1, <2>2
<1>8. QED
  BY <1>5, <1>6, <1>7

(* What the steps of stop_all have in common.                              *)
Stops(c) ==
  /\ life = "stopping" /\ pos = c
  /\ \/ Moved(c) /\ life' = life
     \/ at # "join" /\ UNCHANGED <<pos, at>> /\ life' = "closing" /\ cut'
  /\ \/ UNCHANGED <<task, batch>>
     \/ /\ task' = [task EXCEPT ![c] = IF @ \in Running THEN "cancelled" ELSE @]
        /\ batch' = [batch EXCEPT ![c] = <<>>]
  /\ at # "none" => late' = late
  /\ at = "none" => late' = [late EXCEPT ![c] = start[c] = "begin"]
  /\ cut' \in BOOLEAN /\ stopped' \in [Channels -> BOOLEAN]
  /\ (at = "wait" \/ at' = "join") =>
       task[c] \in Over \/ task' = [task EXCEPT ![c] = IF @ \in Running THEN "cancelled" ELSE @]
                        \/ (at = "wait" /\ life' = "closing" /\ UNCHANGED at)
  /\ UNCHANGED <<kind, boots, crashes, start, attempt, offset, server, ended, begun>>

LEMMA StopAllStops ==
  ASSUME ChannelsAssumption, IInv, NEW c \in Channels, StopAll(c)
  PROVE  Stops(c)
<1> USE DEF Stops, Proceed, Leave, Moved, process, stopping, tasks, server, history
<1>0. /\ stopped \in [Channels -> BOOLEAN] /\ cut \in BOOLEAN /\ kind[c] \in Kinds
      /\ task \in [Channels -> Running \cup Over] /\ life \in {"up", "stopping", "closing", "ended", "down"}
  BY KindTyped DEF IInv, TypeOK
<1>1. at = "none" /\ kind[c] \notin {"signal", "discord"} /\ pos = c => StopPath(c)[at] # "join"
  BY <1>0, PathProps DEF IInv, PathInv
<1>2. pos = c /\ at \in {"flush", "join", "finish"} => StopPath(c)[at] # "join"
  BY <1>0, PathProps DEF IInv, PathInv
<1>3. CASE BeginStop(c)
  BY <1>0, <1>1, <1>3 DEF BeginStop, StopStep, Cancelled, Undisturbed
<1>4. CASE Flushed(c)
  BY <1>0, <1>2, <1>4 DEF Flushed, StopStep, Undisturbed
<1>5. CASE Waited(c)
  BY <1>0, <1>5 DEF Waited, StopStep, Undisturbed
<1>6. CASE WaitedTooLong(c)
  BY <1>0, <1>6 DEF WaitedTooLong, StopStep, Cancelled
<1>7. CASE DeadlineOver(c)
  BY <1>0, <1>2, <1>7 DEF DeadlineOver, Swallows, Cancelled, Undisturbed
<1>8. QED
  BY <1>3, <1>4, <1>5, <1>6, <1>7 DEF StopAll

LEMMA StopAllStep ==
  ASSUME ChannelsAssumption, IInv, NEW c \in Channels, StopAll(c)
  PROVE  IInv'
<1> USE DEF server
<1>0. TypeOK /\ TypeProc /\ TypeTask /\ TypeMsg /\ kind[c] \in Kinds /\ StopInv /\ PathInv
  BY TypeParts, KindTyped DEF IInv
<1>1. Stops(c)
  BY StopAllStops
<1>2. /\ pos = c /\ life = "stopping" /\ life' \in {"stopping", "closing"}
      /\ UNCHANGED <<kind, boots, crashes, start, attempt, offset, server, ended, begun>>
  BY <1>1 DEF Stops
<1>3. /\ pos' \in Nat /\ at' \in Places /\ PathInv' /\ pos' >= pos /\ pos' <= pos + 1
      /\ at' = "none" => pos' = pos + 1 \/ (at = "none" /\ pos' = pos /\ life' = "closing")
      /\ at' # "none" => pos' = pos
  <2>1. CASE Moved(c)
    BY <1>2, <2>1, MovedProps
  <2>2. CASE UNCHANGED <<pos, at>> /\ life' = "closing"
    <3>1. PathInv'
      BY <1>0, <1>2, <2>2 DEF PathInv, StopPath
    <3>2. QED
      BY <1>0, <1>2, <2>2, <3>1 DEF TypeProc, Places
  <2>3. QED
    BY <1>1, <2>1, <2>2 DEF Stops
<1>4. /\ task'[c] = task[c] \/ (task[c] \in Running /\ task'[c] = "cancelled")
      /\ \A d \in Channels : d # c => task'[d] = task[d] /\ batch'[d] = batch[d] /\ late'[d] = late[d]
      /\ task' \in [Channels -> Running \cup Over] /\ batch' \in [Channels -> Seq(Updates)]
      /\ late' \in [Channels -> BOOLEAN]
      /\ batch'[c] = batch[c] \/ batch'[c] = <<>>
  <2>1. <<>> \in Seq(Updates)
    OBVIOUS
  <2>2. (start[c] = "begin") \in BOOLEAN
    OBVIOUS
  <2>3. late' = late \/ late' = [late EXCEPT ![c] = start[c] = "begin"]
    BY <1>1 DEF Stops
  <2>4. /\ \A d \in Channels : d # c => late'[d] = late[d]
        /\ late' \in [Channels -> BOOLEAN]
    BY <1>0, <2>2, <2>3 DEF TypeTask
  <2>5. CASE UNCHANGED <<task, batch>>
    BY <1>0, <2>4, <2>5 DEF TypeTask, TypeMsg
  <2>6. CASE /\ task' = [task EXCEPT ![c] = IF @ \in Running THEN "cancelled" ELSE @]
             /\ batch' = [batch EXCEPT ![c] = <<>>]
    BY <1>0, <2>1, <2>4, <2>6 DEF TypeTask, TypeMsg, Over
  <2>7. QED
    BY <1>1, <2>5, <2>6 DEF Stops
<1>5. TypeOK'
  <2>1. TypeProc'
    BY <1>0, <1>1, <1>2, <1>3 DEF TypeProc, Stops, Places
  <2>2. TypeTask'
    BY <1>0, <1>1, <1>2, <1>4 DEF TypeTask, Stops
  <2>3. TypeMsg'
    BY <1>0, <1>2, <1>4 DEF TypeMsg
  <2>4. QED
    BY <2>1, <2>2, <2>3 DEF TypeOK, TypeProc, TypeTask, TypeMsg, Updates
(* What is quiet stays so, and what is told.                               *)
<1>6. \A d \in Channels : d # c /\ Quiet(d) => Quiet(d)'
  BY <1>2, <1>4 DEF Quiet
<1>7. Told(c)'
  <2>1. CASE at = "none"
    BY <1>0, <1>1, <1>2, <2>1 DEF Told, Stops, TypeTask
  <2>2. CASE at # "none"
    BY <1>0, <1>1, <1>2, <2>2 DEF Told, Stops, StopInv
  <2>3. QED
    BY <2>1, <2>2
<1>8. task[c] \in Over \/ task'[c] = "cancelled" => Quiet(c)'
  BY <1>2, <1>4, <1>7 DEF Told, Quiet, Over, Running
<1>9. at \in {"join", "finish"} => Quiet(c)'
  BY <1>0, <1>1, <1>2, <1>4 DEF Quiet, StopInv, Stops, Over, Running
<1>10. at = "wait" /\ life' = "stopping" => Quiet(c)'
  <2>1. at = "wait" /\ life' = "stopping" =>
          task[c] \in Over \/ task' = [task EXCEPT ![c] = IF @ \in Running THEN "cancelled" ELSE @]
    BY <1>1 DEF Stops
  <2>2. task[c] \in Over \/ task[c] \in Running
    BY <1>0 DEF TypeTask
  <2>3. QED
    BY <1>0, <1>8, <2>1, <2>2 DEF TypeTask
<1>11. kind[c] \in {"hook", "echo"} => Quiet(c)'
  BY <1>0, <1>8 DEF StopInv, Over
<1>12. at' = "join" /\ Moved(c) => Quiet(c)'
  <2>1. at' = "join" =>
          \/ task[c] \in Over \/ task' = [task EXCEPT ![c] = IF @ \in Running THEN "cancelled" ELSE @]
          \/ at = "wait" /\ UNCHANGED at
    BY <1>1 DEF Stops
  <2>2. task[c] \in Over \/ task[c] \in Running
    BY <1>0 DEF TypeTask
  <2>3. QED
    BY <1>0, <1>8, <2>1, <2>2 DEF TypeTask
<1>13. Moved(c) /\ at' \in {"none", "join", "finish"} => Quiet(c)'
  <2>1. SUFFICES ASSUME Moved(c), at' \in {"none", "finish"} PROVE Quiet(c)'
    BY <1>12
  <2>2. at \in DOMAIN StopPath(c)
    BY <1>0, <1>2 DEF PathInv
  <2>3. at \in {"wait", "join", "finish"} \/ kind[c] \in {"hook", "echo"}
    BY <1>0, <2>1, <2>2, PathProps DEF Moved
  <2>4. life' = "stopping" \/ at # "wait"
    BY <1>1, <2>1, <1>2 DEF Stops
  <2>5. QED
    BY <1>9, <1>10, <1>11, <2>3, <2>4
<1>14. StopInv'
  <2>1. ASSUME NEW d \in Channels, d < pos' PROVE Quiet(d)'
    <3>1. d = c \/ d < pos
      BY <1>0, <1>2, <1>3, <2>1 DEF Channels, TypeProc
    <3>2. CASE d # c
      BY <1>0, <1>6, <3>1, <3>2 DEF StopInv
    <3>3. CASE d = c
      <4>1. pos' # pos
        BY <1>0, <1>2, <2>1, <3>3 DEF TypeProc
      <4>2. Moved(c) /\ at' = "none"
        BY <1>1, <1>3, <4>1 DEF Stops
      <4>3. QED
        BY <1>13, <3>3, <4>2
    <3>4. QED
      BY <3>2, <3>3
  <2>2. pos' \in Channels /\ at' # "none" => pos' = c
    BY <1>2, <1>3
  <2>3. pos' \in Channels /\ at' \in {"join", "finish"} => Quiet(c)'
    BY <1>1, <1>9, <1>13 DEF Stops
  <2>4. life' = "closing" => cut'
    BY <1>1, <1>2 DEF Stops
  <2>5. /\ \A d \in Channels : kind'[d] \in {"hook", "echo"} => task'[d] = "none"
        /\ \A d \in Channels : task'[d] \in Running => start'[d] # "begin"
    BY <1>0, <1>2, <1>4 DEF StopInv, Running, Over
  <2>6. pos' > 0
    BY <1>0, <1>3 DEF StopInv, TypeProc
  <2>7. QED
    <3>1. pos' \in Channels /\ at' # "none" => Told(pos)'
      BY <1>7, <2>2 DEF Told
    <3>2. pos' \in Channels /\ at' \in {"join", "finish"} => Quiet(pos)'
      BY <2>2, <2>3 DEF Quiet
    <3>3. life' = "closing" /\ ~cut' => pos' \notin Channels
      BY <2>4
    <3>4. life' \in {"stopping", "closing"}
      BY <1>2
    <3>5. life' \notin {"stopping", "closing"} => pos' = 1 /\ at' = "none"
      BY <3>4
    <3>6. \A d \in Channels : d < pos' => Quiet(d)'
      BY <2>1
    <3>7. QED
      BY <2>5, <2>6, <3>1, <3>2, <3>3, <3>5, <3>6, Zenon DEF StopInv
<1>15. BatchInv'
  <2>1. BatchInv
    BY DEF IInv
  <2>2. batch'[c] # <<>> <=> task'[c] = "handle"
    <3>1. CASE UNCHANGED <<task, batch>>
      BY <2>1, <3>1 DEF BatchInv
    <3>2. CASE /\ task' = [task EXCEPT ![c] = IF @ \in Running THEN "cancelled" ELSE @]
               /\ batch' = [batch EXCEPT ![c] = <<>>]
      BY <1>0, <3>2 DEF TypeTask, TypeMsg, Running
    <3>3. QED
      BY <1>1, <3>1, <3>2 DEF Stops
  <2>3. QED
    <3>1. SUFFICES ASSUME NEW d \in Channels
                   PROVE  /\ batch'[d] # <<>> <=> task'[d] = "handle"
                          /\ task'[d] \in {"poll", "handle"} => d \in Polling
                          /\ task'[d] = "backoff" => d \in Polling \/ kind[d] = "lark_ws"
                          /\ \A i \in DOMAIN batch'[d] : batch'[d][i] = batch'[d][1] + i - 1
      BY <1>2 DEF BatchInv, Polling
    <3>2. CASE d # c
      <4>1. batch'[d] = batch[d] /\ task'[d] = task[d]
        BY <1>4, <3>2
      <4>2. QED
        BY <2>1, <4>1 DEF BatchInv
    <3>3. CASE d = c
      <4>1. batch'[c] # <<>> => batch'[c] = batch[c]
        BY <1>4
      <4>2. task'[c] \in {"poll", "handle", "backoff"} => task'[c] = task[c]
        BY <1>4
      <4>3. \A i \in DOMAIN batch'[c] : batch'[c][i] = batch'[c][1] + i - 1
        BY <1>4, <2>1 DEF BatchInv
      <4>4. QED
        BY <2>1, <2>2, <3>3, <4>2, <4>3 DEF BatchInv
    <3>4. QED
      BY <3>2, <3>3
<1>16. OffsetInv'
  BY <1>2, <1>4 DEF OffsetInv, IInv
<1>17. OrderInv'
  <2>1. \A d \in Channels : First(d)' = First(d)
    BY <1>2 DEF First, Later
  <2>2. OrderInv
    BY DEF IInv
  <2>3. SUFFICES ASSUME NEW d \in Channels
                 PROVE  /\ kind[d] = "signal" => /\ forgot[d] <= sent[d]
                                                 /\ \A i \in DOMAIN batch'[d] : batch'[d][i] <= forgot[d]
                        /\ \A i \in DOMAIN begun[d] : batch'[d] # <<>> => begun[d][i] <= batch'[d][1]
                        /\ \A i \in DOMAIN begun[d] :
                             d \in Polling /\ task'[d] \in {"new", "poll", "backoff"} => begun[d][i] < First(d)
                        /\ start[d] = "begin" => begun[d] = <<>>
    BY <1>2, <2>1 DEF OrderInv, Polling
  <2>4. CASE d # c
    BY <1>4, <2>2, <2>4 DEF OrderInv
  <2>5. CASE d = c
    BY <1>4, <2>2, <2>5 DEF OrderInv
  <2>6. QED
    BY <2>4, <2>5
<1>18. OnceInOrder'
  BY <1>2 DEF OnceInOrder, IInv
<1>19. QED
  BY <1>3, <1>5, <1>14, <1>15, <1>16, <1>17, <1>18 DEF IInv

LEMMA ArriveStep ==
  ASSUME ChannelsAssumption, IInv, NEW c \in Channels, Arrive(c)
  PROVE  IInv'
<1> USE DEF process, stopping, tasks, history
<1>0. TypeOK /\ TypeProc /\ TypeTask /\ TypeMsg
  BY TypeParts DEF IInv
<1>1. /\ sent' = [sent EXCEPT ![c] = @ + 1] /\ sent[c] < MaxUpdates
      /\ UNCHANGED <<kind, process, stopping, stopped, tasks, forgot, history>>
  BY DEF Arrive
<1>2. TypeOK'
  <2>1. TypeProc' /\ TypeTask'
    BY <1>0, <1>1 DEF TypeProc, TypeTask
  <2>2. sent' \in [Channels -> 0..MaxUpdates]
    BY <1>0, <1>1 DEF TypeMsg, ChannelsAssumption
  <2>3. TypeMsg'
    BY <1>0, <1>1, <2>2 DEF TypeMsg
  <2>4. QED
    BY <2>1, <2>3 DEF TypeOK, TypeProc, TypeTask, TypeMsg, Updates
<1>3. PathInv'
  BY <1>1 DEF PathInv, IInv, StopPath
<1>4. StopInv'
  BY <1>1 DEF StopInv, IInv, Quiet, Told
<1>5. BatchInv' /\ OffsetInv' /\ OnceInOrder'
  BY <1>1 DEF BatchInv, OffsetInv, OnceInOrder, IInv, Polling
<1>6. OrderInv'
  <2>1. \A d \in Channels : First(d)' = First(d)
    BY <1>1 DEF First, Later
  <2>2. \A d \in Channels : forgot[d] <= sent[d] => forgot[d] <= sent'[d]
    BY <1>0, <1>1 DEF TypeMsg
  <2>3. QED
    BY <1>1, <2>1, <2>2 DEF OrderInv, IInv, Polling
<1>7. QED
  BY <1>2, <1>3, <1>4, <1>5, <1>6 DEF IInv

(* Nothing is left of a process that is gone.                              *)
DownInv ==
  life \in {"ended", "down"} => \A c \in Channels : task[c] = "none" /\ begun[c] = <<>>

LEMMA GoneStep ==
  ASSUME ChannelsAssumption, IInv, Gone, life' \in {"ended", "down"}, crashes' \in 0..MaxCrashes
  PROVE  IInv' /\ DownInv'
<1> USE DEF server
<1>0. TypeOK /\ TypeProc /\ TypeTask /\ TypeMsg
  BY TypeParts DEF IInv
<1>1. /\ start' = [c \in Channels |-> "none"] /\ task' = [c \in Channels |-> "none"]
      /\ batch' = [c \in Channels |-> <<>>] /\ attempt' = [c \in Channels |-> 0]
      /\ offset' = [c \in Channels |-> 0] /\ stopped' = [c \in Channels |-> FALSE]
      /\ begun' = [c \in Channels |-> <<>>] /\ late' = [c \in Channels |-> FALSE]
      /\ pos' = 1 /\ at' = "none" /\ cut' = FALSE
      /\ UNCHANGED <<kind, boots, sent, forgot, ended>>
  BY DEF Gone
<1>2. <<>> \in Seq(Updates) /\ 0 \in 0..(MaxUpdates + 1) /\ 0 \in 0..MaxAttempts
  BY DEF ChannelsAssumption
<1>3. TypeOK'
  <2>1. TypeProc'
    BY <1>0, <1>1 DEF TypeProc
  <2>2. TypeTask'
    BY <1>0, <1>1, <1>2 DEF TypeTask, Over
  <2>3. TypeMsg'
    BY <1>0, <1>1, <1>2 DEF TypeMsg
  <2>4. QED
    BY <2>1, <2>2, <2>3 DEF TypeOK, TypeProc, TypeTask, TypeMsg, Updates
<1>4. PathInv'
  <2>1. \A c \in Channels : "none" \in DOMAIN StopPath(c) /\ StopPath(c)' = StopPath(c)
    BY <1>0, <1>1, KindTyped, PathProps DEF StopPath
  <2>2. QED
    BY <1>1, <2>1 DEF PathInv
<1>5. StopInv'
  BY <1>1 DEF StopInv, Channels, Running, ChannelsAssumption
<1>6. BatchInv' /\ OnceInOrder' /\ DownInv'
  BY <1>1 DEF BatchInv, OnceInOrder, DownInv
<1>7. OffsetInv'
  <2>1. \A u \in Updates : ~(u < 0)
    BY DEF Updates
  <2>2. QED
    BY <1>1, <2>1 DEF OffsetInv, IInv
<1>8. OrderInv'
  BY <1>1 DEF OrderInv, IInv
<1>9. QED
  BY <1>3, <1>4, <1>5, <1>6, <1>7, <1>8 DEF IInv

LEMMA BootStep ==
  ASSUME ChannelsAssumption, IInv, DownInv, Boot
  PROVE  IInv'
<1> USE DEF stopping, server, history
<1>0. TypeOK /\ TypeProc /\ TypeTask /\ TypeMsg
  BY TypeParts DEF IInv
<1>1. /\ life \in {"ended", "down"} /\ life' = "up" /\ boots' = boots + 1 /\ boots < MaxBoots
      /\ start' = [c \in Channels |-> "begin"]
      /\ UNCHANGED <<kind, crashes, stopping, stopped, task, attempt, offset, batch, server, history>>
  BY DEF Boot
<1>2. \A c \in Channels : task[c] = "none" /\ begun[c] = <<>>
  BY <1>1 DEF DownInv
<1>3. TypeOK'
  <2>1. TypeProc'
    BY <1>0, <1>1 DEF TypeProc, ChannelsAssumption
  <2>2. TypeTask' /\ TypeMsg'
    BY <1>0, <1>1 DEF TypeTask, TypeMsg
  <2>3. QED
    BY <2>1, <2>2 DEF TypeOK, TypeProc, TypeTask, TypeMsg, Updates
<1>4. PathInv'
  BY <1>1 DEF PathInv, IInv, StopPath
<1>5. StopInv'
  BY <1>0, <1>1, <1>2 DEF StopInv, IInv, Channels, Running, TypeProc, ChannelsAssumption
<1>6. BatchInv' /\ OffsetInv' /\ OnceInOrder'
  BY <1>1 DEF BatchInv, OffsetInv, OnceInOrder, IInv, Polling
<1>7. OrderInv'
  BY <1>1, <1>2 DEF OrderInv, IInv
<1>8. QED
  BY <1>3, <1>4, <1>5, <1>6, <1>7 DEF IInv

(* The steps that only move the life of the process.                       *)
LEMMA LifeStep ==
  ASSUME ChannelsAssumption, IInv, Shutdown \/ AllStopped \/ UNCHANGED vars
  PROVE  IInv'
<1> USE DEF stopping, server, history, tasks, process
<1>0. TypeOK /\ TypeProc /\ TypeTask /\ TypeMsg
  BY TypeParts DEF IInv
<1>1. /\ \/ life = "up" /\ life' = "stopping"
         \/ life = "stopping" /\ life' = "closing" /\ pos \notin Channels
         \/ life' = life
      /\ UNCHANGED <<kind, boots, crashes, stopping, stopped, tasks, server, history>>
  BY DEF Shutdown, AllStopped, vars
<1>2. TypeOK'
  <2>1. TypeProc'
    BY <1>0, <1>1 DEF TypeProc
  <2>2. TypeTask' /\ TypeMsg'
    BY <1>0, <1>1 DEF TypeTask, TypeMsg
  <2>3. QED
    BY <2>1, <2>2 DEF TypeOK, TypeProc, TypeTask, TypeMsg, Updates
<1>3. PathInv'
  BY <1>1 DEF PathInv, IInv, StopPath
<1>4. StopInv'
  BY <1>1 DEF StopInv, IInv, Quiet, Told
<1>5. BatchInv' /\ OffsetInv' /\ OnceInOrder'
  BY <1>1 DEF BatchInv, OffsetInv, OnceInOrder, IInv, Polling
<1>6. OrderInv'
  BY <1>1 DEF OrderInv, IInv, First, Later, Polling
<1>7. QED
  BY <1>2, <1>3, <1>4, <1>5, <1>6 DEF IInv

(* While the process lives, DownInv asks nothing.                          *)
LEMMA AliveStep ==
  ASSUME NEW c \in Channels,
         TaskStep(c) \/ Receive(c) \/ Disconnected(c) \/ StopAll(c)
  PROVE  life' \in {"up", "stopping", "closing"}
BY DEF TaskStep, StopAll, Started, StartFails, StartReturns, FirstStep, Poll, PollFails, HandleEnds,
       Handled, Backoff, Connect, SetUp, CleanUp, Receive, Disconnected, Moves, Alive, BeginStop,
       Flushed, Waited, WaitedTooLong, DeadlineOver, StopStep, process

(* The inductive invariant: every step of every channel, of the shutdown   *)
(* and of the world keeps it.                                              *)
THEOREM IInvHolds == Spec => [](IInv /\ DownInv)
<1>1. Init => IInv /\ DownInv
  BY ChannelsAssumption, InitIInv DEF Init, DownInv
<1>2. IInv /\ DownInv /\ [Next]_vars => IInv' /\ DownInv'
  <2> SUFFICES ASSUME IInv, DownInv, [Next]_vars PROVE IInv' /\ DownInv'
    OBVIOUS
  <2> USE ChannelsAssumption
  <2>1. ASSUME NEW c \in Channels,
               TaskStep(c) \/ Receive(c) \/ Disconnected(c) \/ StopAll(c)
        PROVE  IInv' /\ DownInv'
    <3>1. DownInv'
      BY <2>1, AliveStep DEF DownInv
    <3>2. CASE Quietly(c)
      BY <3>1, <3>2, QuietlyIInv
    <3>3. CASE Poll(c)
      BY <3>1, <3>3, PollStep
    <3>4. CASE PollFails(c)
      BY <3>1, <3>4, PollFailsStep
    <3>5. CASE HandleEnds(c)
      BY <3>1, <3>5, HandleStep
    <3>6. CASE StopAll(c)
      BY <3>1, <3>6, StopAllStep
    <3>7. QED
      BY <2>1, <3>2, <3>3, <3>4, <3>5, <3>6 DEF TaskStep, Quietly
  <2>2. ASSUME NEW c \in Channels, Arrive(c) PROVE IInv' /\ DownInv'
    BY <2>2, ArriveStep DEF Arrive, DownInv, tasks, history, process
  <2>3. CASE Shutdown \/ AllStopped \/ UNCHANGED vars
    BY <2>3, LifeStep DEF Shutdown, AllStopped, DownInv, tasks, history, vars, process
  <2>4. CASE Close \/ Crash
    <3>1. Gone /\ life' \in {"ended", "down"} /\ crashes' \in 0..MaxCrashes
      BY <2>4 DEF Close, Crash, IInv, TypeOK, ChannelsAssumption
    <3>2. QED
      BY <3>1, GoneStep
  <2>5. CASE Boot
    BY <2>5, BootStep DEF Boot, DownInv
  <2>6. QED
    BY <2>1, <2>2, <2>3, <2>4, <2>5 DEF Next, Stopping, Idle
<1>3. QED
  BY <1>1, <1>2, PTL DEF Spec

(* The types of all variables.                                             *)
THEOREM TypeCorrect == Spec => []TypeOK
BY IInvHolds, PTL DEF IInv

(* For any channels and servers, through any failures and crashes: what    *)
(* Telegram will not hand out again has been handled to the end.           *)
THEOREM NoUpdateLostHolds == Spec => []NoUpdateLost
<1>1. IInv => NoUpdateLost
  <2> SUFFICES ASSUME IInv, NEW c \in Channels, kind[c] = "telegram", NEW u \in 1..forgot[c]
               PROVE  u \in ended[c]
    BY DEF NoUpdateLost
  <2>1. u \in Updates /\ u <= forgot[c]
    <3>1. forgot[c] \in 0..MaxUpdates /\ MaxUpdates \in Nat
      BY ChannelsAssumption DEF IInv, TypeOK, ChannelsAssumption
    <3>2. QED
      BY <3>1 DEF Updates
  <2>2. QED
    BY <2>1 DEF IInv, OffsetInv
<1>2. QED
  BY <1>1, IInvHolds, PTL

(* In any process the messages of a channel begin in their order, once.    *)
THEOREM OnceInOrderHolds == Spec => []OnceInOrder
BY IInvHolds, PTL DEF IInv

(* However many channels stop_all goes through, and however each of them   *)
(* ended: when it is through in time, no task of theirs runs any more.     *)
THEOREM StoppedIsQuietHolds == Spec => []StoppedIsQuiet
<1>1. IInv => StoppedIsQuiet
  <2> SUFFICES ASSUME IInv, life = "closing", ~cut, NEW c \in Channels
               PROVE  late[c] \/ task[c] \in Over
    BY DEF StoppedIsQuiet
  <2>1. pos \notin Channels /\ pos > 0 /\ pos \in Nat
    BY DEF IInv, StopInv, TypeOK
  <2>2. c < pos
    BY <2>1, ChannelsAssumption DEF Channels, ChannelsAssumption
  <2>3. QED
    BY <2>2 DEF IInv, StopInv, Quiet
<1>2. QED
  BY <1>1, IInvHolds, PTL
=============================================================================
