--------------------------- MODULE LarkSyncProofs ---------------------------
(***************************************************************************)
(* Proofs about LarkSync, for any number of processes, users and messages, *)
(* any even window and any number of model calls at a time.                *)
(***************************************************************************)
EXTENDS LarkSync, FiniteSetTheorems, TLAPS

(* A process still at the file lock has tries left, one past it holds it;  *)
(* a message in progress is in a process that is connected.                *)
LifeInv ==
  /\ \A p \in Procs : stage[p] \in {"off", "locking"} => locks[p] < MaxLocks
  /\ \A p \in Procs : Spawned(p) => holder = p
  /\ \A m \in Messages : InProgress(m) => home[m] \in Procs /\ Connected(home[m])

(* The writer of a process is the one message in the middle of its turn.   *)
WriterInv ==
  /\ \A p \in Procs : writer[p] # None => pc[writer[p]] = "half" /\ home[writer[p]] = p
  /\ \A m \in Messages : pc[m] = "half" => writer[home[m]] = m

(* Half a turn, by w, at the end of what is otherwise whole, unless the    *)
(* first entry has made room for it.                                       *)
HalfTurns(s, by, u, w) ==
  /\ s # <<>> /\ s[Len(s)] = <<w, "user">>
  /\ Len(s) % 2 = 0 => Len(s) = Window
  /\ \A i \in 1..Len(s) :
       /\ by[s[i][1]] = u
       /\ s[i][2] = IF i % 2 = Len(s) % 2 THEN "user" ELSE "assistant"
       /\ i % 2 = Len(s) % 2 /\ i < Len(s) => s[i + 1][1] = s[i][1]

HistoryInv ==
  \A p \in Procs, u \in Users :
    /\ Len(history[p][u]) <= Window
    /\ IF writer[p] # None /\ sender[writer[p]] = u
         THEN HalfTurns(history[p][u], sender, u, writer[p])
         ELSE WholeTurns(history[p][u], sender, u)

IInv == TypeOK /\ LifeInv /\ CallsBound /\ WriterInv /\ HistoryInv /\ WholeContext

Entries == Messages \X {"user", "assistant"}

LEMMA Parity ==
  /\ \A i \in Nat : i % 2 = 0 \/ i % 2 = 1
  /\ \A i \in Nat : (i + 1) % 2 = 1 <=> i % 2 = 0
  /\ \A i \in Nat : (i + 1) % 2 = 0 <=> i % 2 = 1
  OBVIOUS

LEMMA KeptProps ==
  ASSUME NEW s \in Seq(Entries), NEW e \in Entries, LarkSyncAssumption,
         Len(s) <= Window
  PROVE  LET k == Kept(Append(s, e)) IN
         /\ k \in Seq(Entries) /\ k # <<>> /\ k[Len(k)] = e
         /\ IF Len(s) = Window
              THEN /\ Len(k) = Window
                   /\ \A i \in 1..(Window - 1) : k[i] = s[i + 1]
              ELSE /\ Len(k) = Len(s) + 1
                   /\ \A i \in 1..Len(s) : k[i] = s[i]
<1> DEFINE a == Append(s, e)
<1>1. Window \in Nat /\ Window > 0
  BY DEF LarkSyncAssumption
<1>2. /\ a \in Seq(Entries) /\ Len(a) = Len(s) + 1 /\ a[Len(s) + 1] = e
      /\ \A i \in 1..Len(s) : a[i] = s[i]
  OBVIOUS
<1>3. CASE Len(s) = Window
  <2>1. /\ Tail(a) \in Seq(Entries) /\ Len(Tail(a)) = Window
        /\ \A i \in 1..Window : Tail(a)[i] = a[i + 1]
    BY <1>1, <1>2, <1>3
  <2>2. Kept(a) = Tail(a)
    BY <1>1, <1>2, <1>3 DEF Kept
  <2>3. Tail(a)[Window] = e
    BY <1>1, <1>2, <1>3, <2>1
  <2>4. \A i \in 1..(Window - 1) : Tail(a)[i] = s[i + 1]
    BY <1>1, <1>2, <1>3, <2>1
  <2>5. Tail(a) # <<>>
    BY <1>1, <2>1
  <2> QED
    BY <1>1, <1>3, <2>1, <2>2, <2>3, <2>4, <2>5
<1>4. CASE Len(s) # Window
  <2>1. Kept(a) = a
    BY <1>1, <1>2, <1>4 DEF Kept
  <2> QED
    BY <1>2, <1>4, <2>1
<1> QED
  BY <1>3, <1>4

(* The first of the two appends leaves half a turn.                        *)
LEMMA UserAppended ==
  ASSUME NEW s \in Seq(Entries), NEW u \in Users, NEW w \in Messages, NEW by,
         LarkSyncAssumption, Len(s) <= Window, WholeTurns(s, by, u), by[w] = u
  PROVE  HalfTurns(Kept(Append(s, <<w, "user">>)), by, u, w)
<1> DEFINE k == Kept(Append(s, <<w, "user">>))
<1>1. /\ k \in Seq(Entries) /\ k # <<>> /\ k[Len(k)] = <<w, "user">>
      /\ Len(s) = Window => Len(k) = Window /\ \A i \in 1..(Window - 1) : k[i] = s[i + 1]
      /\ Len(s) # Window => Len(k) = Len(s) + 1 /\ \A i \in 1..Len(s) : k[i] = s[i]
  <2>1. <<w, "user">> \in Entries
    BY DEF Entries
  <2> QED
    BY <2>1, KeptProps
<1>2. Window \in Nat /\ Window > 0 /\ Window % 2 = 0 /\ Len(s) \in Nat /\ Len(k) \in Nat
  BY <1>1 DEF LarkSyncAssumption
<1>3. /\ Len(s) % 2 = 0
      /\ \A i \in 1..Len(s) :
           /\ by[s[i][1]] = u
           /\ s[i][2] = IF i % 2 = 1 THEN "user" ELSE "assistant"
           /\ i % 2 = 1 => s[i + 1][1] = s[i][1]
  BY DEF WholeTurns
<1> HIDE DEF k
<1>4. ASSUME NEW i \in 1..Len(k), Len(s) = Window
      PROVE  /\ by[k[i][1]] = u
             /\ k[i][2] = IF i % 2 = Len(k) % 2 THEN "user" ELSE "assistant"
             /\ i % 2 = Len(k) % 2 /\ i < Len(k) => k[i + 1][1] = k[i][1]
  <2>1. CASE i = Window
    BY <1>1, <1>2, <1>4, <2>1
  <2>2. CASE i < Window
    <3>1. i \in 1..(Window - 1) /\ i + 1 \in 1..Len(s) /\ k[i] = s[i + 1]
      BY <1>1, <1>2, <1>4, <2>2
    <3>2. i \in Nat /\ (i % 2 = 0 <=> (i + 1) % 2 = 1)
      BY <3>1, Parity
    <3>3. Len(k) % 2 = 0
      BY <1>1, <1>2, <1>4
    <3>4. ASSUME i % 2 = 0 PROVE k[i + 1] = s[i + 2]
      <4>1. i + 1 # Window
        BY <1>2, <3>2, <3>4, Parity
      <4>2. i + 1 \in 1..(Window - 1)
        BY <1>2, <2>2, <3>1, <4>1
      <4> QED
        BY <1>1, <1>4, <3>2, <4>2
    <3> QED
      BY <1>3, <3>1, <3>2, <3>3, <3>4
  <2> QED
    BY <1>1, <1>2, <1>4, <2>1, <2>2
<1>5. ASSUME NEW i \in 1..Len(k), Len(s) # Window
      PROVE  /\ by[k[i][1]] = u
             /\ k[i][2] = IF i % 2 = Len(k) % 2 THEN "user" ELSE "assistant"
             /\ i % 2 = Len(k) % 2 /\ i < Len(k) => k[i + 1][1] = k[i][1]
  <2>0. Len(k) = Len(s) + 1 /\ Len(k) % 2 = 1
    BY <1>1, <1>2, <1>3, <1>5, Parity
  <2>1. CASE i = Len(s) + 1
    BY <1>1, <1>2, <2>0, <2>1
  <2>2. CASE i \in 1..Len(s)
    <3>1. k[i] = s[i]
      BY <1>1, <1>5, <2>2
    <3>2. ASSUME i % 2 = 1 PROVE i + 1 \in 1..Len(s) /\ k[i + 1] = s[i + 1]
      <4>1. i # Len(s)
        BY <1>3, <3>2
      <4> QED
        BY <1>1, <1>2, <1>5, <2>2, <4>1
    <3>3. i % 2 = 0 \/ i % 2 = 1
      BY <2>2, Parity
    <3> QED
      BY <1>3, <2>0, <2>2, <3>1, <3>2, <3>3
  <2> QED
    BY <1>2, <2>0, <2>1, <2>2
<1>6. Len(k) % 2 = 0 => Len(k) = Window
  BY <1>1, <1>2, <1>3, Parity
<1>7. HalfTurns(k, by, u, w)
  BY <1>1, <1>4, <1>5, <1>6 DEF HalfTurns
<1> QED
  BY <1>7 DEF k

(* The second makes it whole.                                              *)
LEMMA AssistantAppended ==
  ASSUME NEW s \in Seq(Entries), NEW u \in Users, NEW w \in Messages, NEW by,
         LarkSyncAssumption, Len(s) <= Window, HalfTurns(s, by, u, w), by[w] = u
  PROVE  WholeTurns(Kept(Append(s, <<w, "assistant">>)), by, u)
<1> DEFINE k == Kept(Append(s, <<w, "assistant">>))
<1>1. /\ k \in Seq(Entries) /\ k # <<>> /\ k[Len(k)] = <<w, "assistant">>
      /\ Len(s) = Window => Len(k) = Window /\ \A i \in 1..(Window - 1) : k[i] = s[i + 1]
      /\ Len(s) # Window => Len(k) = Len(s) + 1 /\ \A i \in 1..Len(s) : k[i] = s[i]
  <2>1. <<w, "assistant">> \in Entries
    BY DEF Entries
  <2> QED
    BY <2>1, KeptProps
<1>2. Window \in Nat /\ Window > 0 /\ Window % 2 = 0 /\ Len(s) \in Nat /\ Len(k) \in Nat
  BY <1>1 DEF LarkSyncAssumption
<1>3. /\ s[Len(s)] = <<w, "user">> /\ Len(s) > 0
      /\ Len(s) % 2 = 0 => Len(s) = Window
      /\ \A i \in 1..Len(s) :
           /\ by[s[i][1]] = u
           /\ s[i][2] = IF i % 2 = Len(s) % 2 THEN "user" ELSE "assistant"
           /\ i % 2 = Len(s) % 2 /\ i < Len(s) => s[i + 1][1] = s[i][1]
  BY <1>2 DEF HalfTurns
<1> HIDE DEF k
<1>4. ASSUME NEW i \in 1..Len(k), Len(s) = Window
      PROVE  /\ by[k[i][1]] = u
             /\ k[i][2] = IF i % 2 = 1 THEN "user" ELSE "assistant"
             /\ i % 2 = 1 => k[i + 1][1] = k[i][1]
  <2>1. CASE i = Window
    BY <1>1, <1>2, <1>4, <2>1
  <2>2. CASE i < Window
    <3>1. i \in 1..(Window - 1) /\ i + 1 \in 1..Len(s) /\ k[i] = s[i + 1]
      BY <1>1, <1>2, <1>4, <2>2
    <3>2. i \in Nat /\ (i % 2 = 1 <=> (i + 1) % 2 = 0)
      BY <3>1, Parity
    <3>3. Len(s) % 2 = 0
      BY <1>2, <1>4
    <3>4. ASSUME i % 2 = 1 PROVE k[i + 1][1] = s[i + 1][1]
      <4>1. CASE i + 1 = Window
        BY <1>1, <1>3, <1>4, <4>1
      <4>2. CASE i + 1 # Window
        <5>1. i + 1 \in 1..(Window - 1)
          BY <1>2, <2>2, <3>1, <4>2
        <5>2. k[i + 1] = s[i + 2] /\ i + 1 < Len(s)
          BY <1>1, <1>2, <1>4, <3>2, <5>1
        <5> QED
          BY <1>3, <3>1, <3>2, <3>3, <3>4, <5>2
      <4> QED
        BY <4>1, <4>2
    <3>5. i % 2 = 0 \/ i % 2 = 1
      BY <3>2, Parity
    <3> QED
      BY <1>3, <3>1, <3>2, <3>3, <3>4, <3>5
  <2> QED
    BY <1>1, <1>2, <1>4, <2>1, <2>2
<1>5. ASSUME NEW i \in 1..Len(k), Len(s) # Window
      PROVE  /\ by[k[i][1]] = u
             /\ k[i][2] = IF i % 2 = 1 THEN "user" ELSE "assistant"
             /\ i % 2 = 1 => k[i + 1][1] = k[i][1]
  <2>0. Len(k) = Len(s) + 1 /\ Len(s) % 2 = 1 /\ Len(k) % 2 = 0
    BY <1>1, <1>2, <1>3, <1>5, Parity
  <2>1. CASE i = Len(s) + 1
    BY <1>1, <1>2, <2>0, <2>1
  <2>2. CASE i \in 1..Len(s)
    <3>1. k[i] = s[i]
      BY <1>1, <1>5, <2>2
    <3>2. ASSUME i % 2 = 1 PROVE k[i + 1][1] = s[i][1]
      <4>1. CASE i = Len(s)
        BY <1>1, <1>3, <2>0, <4>1
      <4>2. CASE i # Len(s)
        <5>1. i < Len(s) /\ i + 1 \in 1..Len(s) /\ i % 2 = Len(s) % 2
          BY <1>2, <2>0, <2>2, <3>2, <4>2
        <5>2. k[i + 1] = s[i + 1]
          BY <1>1, <1>5, <5>1
        <5> QED
          BY <1>3, <2>2, <5>1, <5>2
      <4> QED
        BY <4>1, <4>2
    <3> QED
      BY <1>3, <2>0, <2>2, <3>1, <3>2
  <2> QED
    BY <1>2, <2>0, <2>1, <2>2
<1>6. Len(k) % 2 = 0
  BY <1>1, <1>2, <1>3, Parity
<1>7. WholeTurns(k, by, u)
  BY <1>4, <1>5, <1>6 DEF WholeTurns
<1> QED
  BY <1>7 DEF k
-----------------------------------------------------------------------------
LEMMA EmptyTurns == \A u, by : WholeTurns(<<>>, by, u)
BY DEF WholeTurns

LEMMA InitIInv == LarkSyncAssumption /\ Init => IInv
<1> SUFFICES ASSUME LarkSyncAssumption, Init PROVE IInv
  OBVIOUS
<1>1. TypeOK
  BY DEF Init, TypeOK, LarkSyncAssumption, Over
<1>2. LifeInv
  BY DEF Init, LifeInv, LarkSyncAssumption, Spawned, InProgress, Over
<1>3. CallsBound
  <2>1. {m \in Messages : pc[m] = "llm"} = {}
    BY DEF Init
  <2> QED
    <3>1. Cardinality({m \in Messages : pc[m] = "llm"}) = 0
      BY <2>1, FS_EmptySet
    <3>2. MaxLLM \in Nat
      BY DEF LarkSyncAssumption
    <3> QED
      BY <3>1, <3>2 DEF CallsBound
<1>4. WriterInv
  BY DEF Init, WriterInv
<1>6. HistoryInv /\ WholeContext
  BY EmptyTurns DEF Init, HistoryInv, WholeContext, LarkSyncAssumption
<1> QED
  BY <1>1, <1>2, <1>3, <1>4, <1>6 DEF IInv

(* A handler that runs is in a process.                                    *)
LEMMA AtHome ==
  ASSUME IInv, NEW m \in Messages, pc[m] \notin {"away", "done", "lost"}
  PROVE  /\ home[m] \in Procs /\ Connected(home[m])
         /\ sender[m] \in Users /\ history[home[m]][sender[m]] \in Seq(Entries)
         /\ Len(history[home[m]][sender[m]]) <= Window
BY DEF IInv, LifeInv, InProgress, Over, TypeOK, HistoryInv, Entries

LEMMA LifeType ==
  ASSUME LarkSyncAssumption, TypeOK, LifeInv, NEW p \in Procs, Life(p)
  PROVE  TypeOK'
<1> USE DEF process, memory, request, delivery
<1>1. CASE Launch(p)
  BY <1>1 DEF TypeOK, Launch
<1>2. CASE Acquire(p)
  BY <1>2 DEF TypeOK, Acquire, LarkSyncAssumption
<1>3. CASE Refused(p)
  <2>1. locks[p] \in Nat /\ locks[p] < MaxLocks /\ MaxLocks \in Nat
    BY <1>3 DEF TypeOK, Refused, LifeInv, LarkSyncAssumption
  <2>2. locks' \in [Procs -> 0..MaxLocks]
    BY <1>3, <2>1 DEF TypeOK, Refused
  <2>3. stage' \in [Procs -> {"off", "locking", "starting", "up", "closing",
                             "leaving", "gone"}]
    BY <1>3 DEF TypeOK, Refused
  <2> QED
    BY <1>3, <2>2, <2>3 DEF TypeOK, Refused
<1>4. CASE WorkerStep(p)
  <2>1. Ahead[worker[p]] \in {"loop", "ready", "stopped"}
    BY <1>4 DEF WorkerStep, Ahead
  <2> QED
    BY <1>4, <2>1 DEF TypeOK, WorkerStep
<1>5. CASE Connect(p)
  BY <1>5 DEF TypeOK, Connect
<1>6. CASE Interrupt(p)
  BY <1>6 DEF TypeOK, Interrupt
<1>7. CASE CloseClient(p)
  BY <1>7 DEF TypeOK, CloseClient
<1>8. CASE StopLoop(p)
  BY <1>8 DEF TypeOK, StopLoop
<1>9. CASE End(p)
  <2> USE <1>9 DEF TypeOK, End
  <2>1. stage' \in [Procs -> {"off", "locking", "starting", "up", "closing",
                             "leaving", "gone"}]
    OBVIOUS
  <2>2. locks' \in [Procs -> 0..MaxLocks] /\ holder' \in Procs \cup {None}
    BY DEF LarkSyncAssumption
  <2>3. worker' \in [Procs -> {"none", "loop", "ready", "closed", "stopping",
                              "stopped"}]
    OBVIOUS
  <2>4. history' \in [Procs -> [Users -> Seq(Messages \X {"user", "assistant"})]]
    OBVIOUS
  <2>5. /\ writer' \in [Procs -> Messages \cup {None}]
        /\ queue' \in [Procs -> Seq(Messages)]
    OBVIOUS
  <2>6. pc' \in [Messages -> {"away", "token", "wait", "llm", "write", "half",
                             "reply"} \cup Over]
    BY DEF Over
  <2>7. /\ home' \in [Messages -> Procs \cup {None}]
        /\ try' \in [Messages -> 0..MaxTries]
        /\ sender' \in [Messages -> Users]
    BY DEF LarkSyncAssumption
  <2>8. snapshot' \in [Messages -> Seq(Messages \X {"user", "assistant"})]
    OBVIOUS
  <2>9. replied' \in [Messages -> SUBSET Messages]
    OBVIOUS
  <2> QED
    BY <2>1, <2>2, <2>3, <2>4, <2>5, <2>6, <2>7, <2>8, <2>9
<1> QED
  BY <1>1, <1>2, <1>3, <1>4, <1>5, <1>6, <1>7, <1>8, <1>9 DEF Life, Main, Exit, Crash

LEMMA OnMessageType ==
  ASSUME LarkSyncAssumption, TypeOK, NEW m \in Messages, NEW p \in Procs,
         OnMessage(m, p)
  PROVE  TypeOK'
<1> USE DEF process, request
<1>1. /\ Answered(m, p) \in SUBSET Messages
      /\ history[p][sender[m]] \in Seq(Messages \X {"user", "assistant"})
  BY DEF TypeOK, Answered, At
<1>2. home' \in [Messages -> Procs \cup {None}]
  BY DEF OnMessage, TypeOK
<1>3. pc' \in [Messages -> {"away", "token", "wait", "llm", "write", "half",
                           "reply"} \cup Over]
  <2>1. pc' = [pc EXCEPT ![m] = "token"] \/ pc' = [pc EXCEPT ![m] = "lost"]
    BY DEF OnMessage
  <2>2. pc \in [Messages -> {"away", "token", "wait", "llm", "write", "half",
                            "reply"} \cup Over]
    BY DEF TypeOK
  <2> QED
    BY <2>1, <2>2 DEF Over
<1>4. snapshot' \in [Messages -> Seq(Messages \X {"user", "assistant"})]
  <2>1. \/ snapshot' = snapshot
        \/ snapshot' = [snapshot EXCEPT ![m] = history[p][sender[m]]]
    BY DEF OnMessage
  <2>2. snapshot \in [Messages -> Seq(Messages \X {"user", "assistant"})]
    BY DEF TypeOK
  <2> QED
    BY <1>1, <2>1, <2>2
<1>5. replied' \in [Messages -> SUBSET Messages]
  <2>1. replied' = replied \/ replied' = [replied EXCEPT ![m] = Answered(m, p)]
    BY DEF OnMessage
  <2>2. replied \in [Messages -> SUBSET Messages]
    BY DEF TypeOK
  <2> QED
    BY <1>1, <2>1, <2>2
<1> QED
  BY <1>2, <1>3, <1>4, <1>5 DEF OnMessage, TypeOK

LEMMA DropType ==
  ASSUME LarkSyncAssumption, TypeOK, NEW m \in Messages, Drop(m)
  PROVE  /\ try' \in [Messages -> 0..MaxTries]
         /\ snapshot' \in [Messages -> Seq(Messages \X {"user", "assistant"})]
         /\ replied' \in [Messages -> SUBSET Messages]
BY DEF TypeOK, Drop, LarkSyncAssumption

LEMMA RecordedType ==
  ASSUME LarkSyncAssumption, IInv, NEW m \in Messages, home[m] \in Procs,
         NEW role \in {"user", "assistant"}
  PROVE  /\ Recorded(m, role) \in [Procs -> [Users -> Seq(Messages \X {"user", "assistant"})]]
         /\ \A p \in Procs, u \in Users :
              Recorded(m, role)[p][u] =
                IF p = home[m] /\ u = sender[m]
                  THEN Kept(Append(history[p][u], <<m, role>>)) ELSE history[p][u]
<1>1. sender[m] \in Users /\ history \in [Procs -> [Users -> Seq(Entries)]]
  BY DEF IInv, TypeOK, Entries
<1>2. history[home[m]][sender[m]] \in Seq(Entries) /\ <<m, role>> \in Entries
  BY <1>1 DEF Entries
<1>3. Len(history[home[m]][sender[m]]) <= Window
  BY <1>1 DEF IInv, HistoryInv
<1>4. Kept(Append(history[home[m]][sender[m]], <<m, role>>)) \in Seq(Entries)
  BY <1>2, <1>3, KeptProps
<1> QED
  BY <1>1, <1>4 DEF Recorded, Entries

LEMMA HandlerType ==
  ASSUME LarkSyncAssumption, IInv, NEW m \in Messages, Handler(m)
  PROVE  TypeOK'
<1> USE DEF process, memory, request, delivery
<1>0. TypeOK /\ (pc[m] \notin {"away", "done", "lost"} => home[m] \in Procs)
  BY AtHome DEF IInv
<1>1. CASE Prepare(m)
  <2>1. queue' \in [Procs -> Seq(Messages)]
    <3>1. home[m] \in Procs /\ Append(queue[home[m]], m) \in Seq(Messages)
      BY <1>0, <1>1 DEF Prepare, Runs, TypeOK
    <3>2. queue \in [Procs -> Seq(Messages)]
      BY <1>0 DEF TypeOK
    <3>3. queue' = [queue EXCEPT ![home[m]] = Append(@, m)] \/ queue' = queue
      BY <1>1 DEF Prepare
    <3> QED
      BY <3>1, <3>2, <3>3
  <2>2. pc' \in [Messages -> {"away", "token", "wait", "llm", "write", "half",
                             "reply"} \cup Over]
    BY <1>0, <1>1 DEF Prepare, Goes, TypeOK, Over
  <2>3. /\ try' \in [Messages -> 0..MaxTries]
        /\ snapshot' \in [Messages -> Seq(Messages \X {"user", "assistant"})]
        /\ replied' \in [Messages -> SUBSET Messages]
    BY <1>0, <1>1, DropType DEF Prepare, TypeOK
  <2> QED
    BY <1>0, <1>1, <2>1, <2>2, <2>3 DEF Prepare, TypeOK
<1>2. CASE Enter(m)
  <2>1. queue' \in [Procs -> Seq(Messages)]
    BY <1>0, <1>2 DEF Enter, Runs, TypeOK
  <2>2. 1 \in 0..MaxTries
    BY DEF LarkSyncAssumption
  <2>3. /\ try' \in [Messages -> 0..MaxTries]
        /\ pc' \in [Messages -> {"away", "token", "wait", "llm", "write", "half",
                                 "reply"} \cup Over]
    BY <1>0, <1>2, <2>2 DEF Enter, Goes, TypeOK
  <2> QED
    BY <1>0, <1>2, <2>1, <2>3 DEF Enter, TypeOK
<1>3. CASE Replied(m)
  BY <1>0, <1>3, DropType DEF Replied, Goes, After, TypeOK
<1>4. CASE TryAgain(m)
  BY <1>0, <1>4 DEF TryAgain, TypeOK, LarkSyncAssumption
<1>5. CASE WriteUser(m)
  <2>1. home[m] \in Procs
    BY <1>0, <1>5 DEF WriteUser, Runs
  <2>2. history' \in [Procs -> [Users -> Seq(Messages \X {"user", "assistant"})]]
    BY <1>5, <2>1, RecordedType DEF WriteUser
  <2> QED
    BY <1>0, <1>5, <2>1, <2>2 DEF WriteUser, Goes, TypeOK
<1>6. CASE WriteAssistant(m)
  <2>1. home[m] \in Procs
    BY <1>0, <1>6 DEF WriteAssistant
  <2>2. history' \in [Procs -> [Users -> Seq(Messages \X {"user", "assistant"})]]
    BY <1>6, <2>1, RecordedType DEF WriteAssistant
  <2> QED
    BY <1>0, <1>6, <2>1, <2>2 DEF WriteAssistant, Goes, After, TypeOK
<1>7. CASE Reply(m)
  BY <1>0, <1>7 DEF Reply, Goes, After, TypeOK, Over
<1> QED
  BY <1>1, <1>2, <1>3, <1>4, <1>5, <1>6, <1>7 DEF Handler
-----------------------------------------------------------------------------
LEMMA LifeLife ==
  ASSUME LarkSyncAssumption, IInv, NEW q \in Procs, Life(q)
  PROVE  LifeInv'
<1> USE DEF process, memory, request, delivery
<1>1. TypeOK /\ LifeInv /\ None \notin Procs
  BY DEF IInv, LarkSyncAssumption
<1>2. CASE End(q)
  <2>1. \A p \in Procs : stage'[p] \in {"off", "locking"} => locks'[p] < MaxLocks
    BY <1>1, <1>2 DEF End, LifeInv, TypeOK
  <2>2. \A p \in Procs : Spawned(p)' => holder' = p
    BY <1>1, <1>2 DEF End, LifeInv, TypeOK, Spawned
  <2>3. ASSUME NEW m \in Messages, InProgress(m)'
        PROVE  home'[m] \in Procs /\ Connected(home[m])'
    <3>1. InProgress(m) /\ home[m] # q
      BY <1>1, <1>2, <2>3 DEF End, InProgress, At, Over, TypeOK
    <3> QED
      BY <1>1, <1>2, <3>1 DEF End, LifeInv, TypeOK, Connected, At
  <2> QED
    BY <2>1, <2>2, <2>3 DEF LifeInv
<1>3. ASSUME ~End(q) PROVE UNCHANGED <<pc, home>>
  BY <1>3 DEF Life, Main, Exit, Crash, Launch, Acquire, Refused, WorkerStep,
              Connect, Interrupt, CloseClient, StopLoop
<1>4. CASE ~End(q)
  <2>1. /\ \A p \in Procs : stage'[p] \in {"off", "locking"} => locks'[p] < MaxLocks
        /\ \A p \in Procs : Spawned(p)' => holder' = p
        /\ \A p \in Procs : Connected(p) => Connected(p)'
    <3>1. CASE Launch(q)
      BY <1>1, <3>1 DEF Launch, LifeInv, TypeOK, Spawned, Connected
    <3>2. CASE Acquire(q)
      BY <1>1, <3>2 DEF Acquire, LifeInv, TypeOK, Spawned, Connected, LarkSyncAssumption
    <3>3. CASE Refused(q)
      BY <1>1, <3>3 DEF Refused, LifeInv, TypeOK, Spawned, Connected, LarkSyncAssumption
    <3>4. CASE WorkerStep(q)
      BY <1>1, <3>4 DEF WorkerStep, LifeInv, TypeOK, Spawned, Connected
    <3>5. CASE Connect(q)
      BY <1>1, <3>5 DEF Connect, LifeInv, TypeOK, Spawned, Connected
    <3>6. CASE Interrupt(q)
      BY <1>1, <3>6 DEF Interrupt, LifeInv, TypeOK, Spawned, Connected
    <3>7. CASE CloseClient(q)
      BY <1>1, <3>7 DEF CloseClient, LifeInv, TypeOK, Spawned, Connected
    <3>8. CASE StopLoop(q)
      BY <1>1, <3>8 DEF StopLoop, LifeInv, TypeOK, Spawned, Connected
    <3> QED
      BY <1>4, <3>1, <3>2, <3>3, <3>4, <3>5, <3>6, <3>7, <3>8
         DEF Life, Main, Exit, Crash
  <2>2. UNCHANGED <<pc, home>>
    BY <1>3, <1>4
  <2> QED
    BY <1>1, <2>1, <2>2 DEF LifeInv, InProgress
<1> QED
  BY <1>2, <1>4

LEMMA OtherLife ==
  ASSUME LarkSyncAssumption, IInv,
         \/ \E m \in Messages, p \in Procs : OnMessage(m, p)
         \/ \E m \in Messages : Handler(m)
  PROVE  LifeInv'
<1> USE DEF process, memory, request, delivery
<1>1. TypeOK /\ LifeInv
  BY DEF IInv
<1>2. ASSUME NEW m \in Messages, NEW p \in Procs, OnMessage(m, p)
      PROVE  LifeInv'
  <2>1. UNCHANGED <<stage, locks, holder>> /\ Connected(p)
    BY <1>2 DEF OnMessage, Receives, Connected
  <2>2. /\ home'[m] = p
        /\ \A x \in Messages \ {m} : home'[x] = home[x] /\ pc'[x] = pc[x]
    BY <1>1, <1>2 DEF OnMessage, TypeOK
  <2> QED
    BY <1>1, <2>1, <2>2 DEF LifeInv, Spawned, Connected, InProgress
<1>3. ASSUME NEW m \in Messages, Handler(m)
      PROVE  LifeInv'
  <2>1. InProgress(m)
    BY <1>3 DEF Handler, Prepare, Enter, Replied, TryAgain, WriteUser,
                WriteAssistant, Reply, Runs, InProgress, Over
  <2>2. UNCHANGED <<stage, locks, holder, home>>
    BY <1>3 DEF Handler, Prepare, Enter, Replied, TryAgain, WriteUser,
                WriteAssistant, Reply
  <2>3. \A x \in Messages \ {m} : pc'[x] = pc[x]
    BY <1>1, <1>3 DEF Handler, Prepare, Enter, Replied, TryAgain, WriteUser,
                WriteAssistant, Reply, Goes, TypeOK
  <2> QED
    BY <1>1, <2>1, <2>2, <2>3 DEF LifeInv, Spawned, Connected, InProgress
<1> QED
  BY <1>2, <1>3

(* Nothing but Enter adds a call, and the calls it counts are all there    *)
(* are.                                                                    *)
LEMMA CallsStep ==
  ASSUME LarkSyncAssumption, IInv, [Next]_vars
  PROVE  CallsBound'
<1> DEFINE calls == {m \in Messages : pc[m] = "llm"}
<1> USE DEF process, memory, request, delivery
<1>1. TypeOK /\ LifeInv /\ Cardinality(calls) <= MaxLLM /\ IsFiniteSet(Messages)
      /\ MaxLLM \in Nat
  BY DEF IInv, CallsBound, LarkSyncAssumption
<1>2. IsFiniteSet(calls) /\ Cardinality(calls) \in Nat
  BY <1>1, FS_Subset, FS_CardinalityType
<1>3. ASSUME \A m \in Messages : pc'[m] = "llm" => pc[m] = "llm"
      PROVE  CallsBound'
  <2>1. calls' \subseteq calls
    BY <1>3
  <2>2. Cardinality(calls') <= Cardinality(calls) /\ Cardinality(calls') \in Nat
    BY <1>2, <2>1, FS_Subset, FS_CardinalityType
  <2> QED
    BY <1>1, <1>2, <2>2 DEF CallsBound
<1>4. ASSUME NEW m \in Messages, Enter(m) PROVE CallsBound'
  <2>1. pc[m] = "wait" /\ InProgress(m) /\ Slots(home[m])
    BY <1>4 DEF Enter, Runs, InProgress, Over
  <2>2. home[m] \in Procs /\ holder = home[m]
    BY <1>1, <2>1 DEF LifeInv, Connected, Spawned
  <2>3. ASSUME NEW x \in calls PROVE home[x] = home[m]
    BY <1>1, <2>2 DEF LifeInv, Connected, Spawned, InProgress, Over
  <2>4. calls = Calling(home[m])
    BY <2>3 DEF Calling, At
  <2>5. Cardinality(calls) < MaxLLM
    BY <2>1, <2>4 DEF Slots
  <2>6. calls' = calls \cup {m}
    <3>1. pc' = [pc EXCEPT ![m] = "llm"] /\ pc = [x \in Messages |-> pc[x]]
      BY <1>1, <1>4 DEF Enter, Goes, TypeOK
    <3>2. \A x \in Messages : pc'[x] = "llm" <=> (x = m \/ pc[x] = "llm")
      BY <3>1
    <3> QED
      BY <3>2
  <2>7. Cardinality(calls \cup {m}) <= Cardinality(calls) + 1
        /\ Cardinality(calls \cup {m}) \in Nat
    <3> HIDE DEF calls
    <3>1. \/ Cardinality(calls \cup {m}) = Cardinality(calls)
          \/ Cardinality(calls \cup {m}) = Cardinality(calls) + 1
      BY <1>2, FS_AddElement
    <3> QED
      BY <1>2, <3>1
  <2> QED
    <3>1. Cardinality(calls') <= MaxLLM
      <4> HIDE DEF calls
      <4> QED
        BY <1>1, <1>2, <2>5, <2>6, <2>7
    <3> QED
      BY <3>1 DEF CallsBound
<1>5. ASSUME NEW p \in Procs, Life(p) PROVE CallsBound'
  <2>1. \A m \in Messages : pc'[m] = "llm" => pc[m] = "llm"
    BY <1>1, <1>5 DEF Life, Main, Exit, Crash, End, Launch, Acquire, Refused,
         WorkerStep, Connect, Interrupt, CloseClient, StopLoop
  <2> QED
    BY <1>3, <2>1
<1>6. ASSUME NEW m \in Messages, NEW p \in Procs, OnMessage(m, p) PROVE CallsBound'
  <2>1. \A x \in Messages : pc'[x] = "llm" => pc[x] = "llm"
    BY <1>1, <1>6 DEF OnMessage, TypeOK
  <2> QED
    BY <1>3, <2>1
<1>7. ASSUME NEW m \in Messages, Handler(m), ~Enter(m) PROVE CallsBound'
  <2>1. \A x \in Messages : pc'[x] = "llm" => pc[x] = "llm"
    BY <1>1, <1>7 DEF Handler, Prepare, Replied, TryAgain, WriteUser,
         WriteAssistant, Reply, Goes, After, TypeOK
  <2> QED
    BY <1>3, <2>1
<1>8. CASE UNCHANGED vars
  <2>1. \A x \in Messages : pc'[x] = "llm" => pc[x] = "llm"
    BY <1>8 DEF vars
  <2> QED
    BY <1>3, <2>1
<1> QED
  BY <1>4, <1>5, <1>6, <1>7, <1>8 DEF Next
-----------------------------------------------------------------------------
TurnInv == WriterInv /\ HistoryInv /\ WholeContext

LEMMA TurnUnchanged ==
  ASSUME TurnInv, UNCHANGED <<sender, history, writer, home>>,
         \A m \in Messages : pc'[m] = "half" <=> pc[m] = "half",
         \A m \in Messages : snapshot'[m] = snapshot[m] \/ snapshot'[m] = <<>>,
         TypeOK
  PROVE  TurnInv'
<1>1. WriterInv'
  BY DEF TurnInv, WriterInv, TypeOK
<1>2. HistoryInv'
  BY DEF TurnInv, HistoryInv
<1>3. ASSUME NEW m \in Messages PROVE WholeTurns(snapshot[m], sender, sender[m])'
  <2>1. CASE snapshot'[m] = snapshot[m]
    BY <2>1 DEF TurnInv, WholeContext
  <2>2. CASE snapshot'[m] = <<>>
    BY <2>2, EmptyTurns
  <2> QED
    BY <2>1, <2>2
<1> QED
  BY <1>1, <1>2, <1>3 DEF TurnInv, WholeContext

(* A process that ends takes its own turns along and no other's.           *)
LEMMA TurnEnd ==
  ASSUME LarkSyncAssumption, IInv, NEW q \in Procs, End(q)
  PROVE  TurnInv'
<1>1. TypeOK /\ WriterInv /\ HistoryInv /\ WholeContext
  BY DEF IInv
<1>2. /\ writer' = [writer EXCEPT ![q] = None]
      /\ history' = [history EXCEPT ![q] = [u \in Users |-> <<>>]]
      /\ sender' = sender
      /\ \A m \in Messages : snapshot'[m] = snapshot[m] \/ snapshot'[m] = <<>>
  BY DEF End
<1>3. \A m \in Messages : home[m] # q => pc'[m] = pc[m] /\ home'[m] = home[m]
  BY DEF End, At
<1>4. \A m \in Messages : pc'[m] = "half" => pc[m] = "half" /\ home[m] # q
  BY DEF End, At, InProgress, Over
<1>5. WriterInv'
  <2>1. ASSUME NEW p \in Procs, writer'[p] # None
        PROVE  pc'[writer'[p]] = "half" /\ home'[writer'[p]] = p
    <3>1. p # q /\ writer'[p] = writer[p] /\ writer[p] \in Messages
      BY <1>1, <1>2, <2>1 DEF TypeOK
    <3>2. pc[writer[p]] = "half" /\ home[writer[p]] = p
      BY <1>1, <2>1, <3>1 DEF WriterInv
    <3> QED
      BY <1>3, <3>1, <3>2
  <2>2. ASSUME NEW m \in Messages, pc'[m] = "half" PROVE writer'[home'[m]] = m
    <3>1. pc[m] = "half" /\ home[m] # q /\ home'[m] = home[m]
      BY <1>3, <1>4, <2>2
    <3>2. home[m] \in Procs /\ writer[home[m]] = m
      BY <1>1, <3>1, AtHome DEF WriterInv
    <3> QED
      BY <1>1, <1>2, <3>1, <3>2 DEF TypeOK
  <2> QED
    BY <2>1, <2>2 DEF WriterInv
<1>6. ASSUME NEW p \in Procs, NEW u \in Users
      PROVE  /\ Len(history'[p][u]) <= Window
             /\ IF writer'[p] # None /\ sender'[writer'[p]] = u
                  THEN HalfTurns(history[p][u], sender, u, writer[p])'
                  ELSE WholeTurns(history[p][u], sender, u)'
  <2>1. CASE p = q
    <3>1. writer'[p] = None /\ history'[p][u] = <<>>
      BY <1>1, <1>2, <2>1 DEF TypeOK
    <3> QED
      BY <3>1, EmptyTurns DEF LarkSyncAssumption
  <2>2. CASE p # q
    <3>1. writer'[p] = writer[p] /\ history'[p][u] = history[p][u]
      BY <1>1, <1>2, <2>2 DEF TypeOK
    <3> QED
      BY <1>1, <1>2, <3>1 DEF HistoryInv
  <2> QED
    BY <2>1, <2>2
<1>7. ASSUME NEW m \in Messages PROVE WholeTurns(snapshot[m], sender, sender[m])'
  <2>1. CASE snapshot'[m] = snapshot[m]
    BY <1>1, <1>2, <2>1 DEF WholeContext
  <2>2. CASE snapshot'[m] = <<>>
    BY <2>2, EmptyTurns
  <2> QED
    BY <1>2, <2>1, <2>2
<1> QED
  BY <1>5, <1>6, <1>7 DEF TurnInv, HistoryInv, WholeContext

LEMMA TurnOnMessage ==
  ASSUME LarkSyncAssumption, IInv, NEW m \in Messages, NEW p \in Procs,
         OnMessage(m, p)
  PROVE  TurnInv'
<1>1. TypeOK /\ WriterInv /\ HistoryInv /\ WholeContext
  BY DEF IInv
<1>2. /\ pc[m] = "away" /\ writer[p] = None
      /\ UNCHANGED <<sender, history, writer>>
      /\ home' = [home EXCEPT ![m] = p]
      /\ pc' = [pc EXCEPT ![m] = "token"] \/ pc' = [pc EXCEPT ![m] = "lost"]
      /\ \/ snapshot' = snapshot
         \/ snapshot' = [snapshot EXCEPT ![m] = history[p][sender[m]]]
  BY DEF OnMessage, Receives, request
<1>3. WriterInv'
  <2>1. /\ pc'[m] # "half"
        /\ \A x \in Messages \ {m} : pc'[x] = pc[x] /\ home'[x] = home[x]
    BY <1>1, <1>2 DEF TypeOK
  <2>2. \A q \in Procs : writer[q] # m
    BY <1>1, <1>2 DEF WriterInv, LarkSyncAssumption
  <2>3. \A q \in Procs : writer[q] \in Messages \cup {None}
    BY <1>1 DEF TypeOK
  <2> QED
    BY <1>1, <1>2, <2>1, <2>2, <2>3 DEF WriterInv
<1>4. HistoryInv'
  BY <1>1, <1>2 DEF HistoryInv
<1>5. ASSUME NEW x \in Messages PROVE WholeTurns(snapshot[x], sender, sender[x])'
  <2>1. \/ snapshot'[x] = snapshot[x]
        \/ snapshot'[x] = history[p][sender[x]]
    BY <1>1, <1>2 DEF TypeOK
  <2>2. WholeTurns(history[p][sender[x]], sender, sender[x])
    BY <1>1, <1>2 DEF TypeOK, HistoryInv
  <2>3. WholeTurns(snapshot[x], sender, sender[x])
    BY <1>1 DEF WholeContext
  <2> QED
    BY <1>2, <2>1, <2>2, <2>3
<1> QED
  BY <1>3, <1>4, <1>5 DEF TurnInv, WholeContext

LEMMA TurnWrite ==
  ASSUME LarkSyncAssumption, IInv, NEW m \in Messages,
         WriteUser(m) \/ WriteAssistant(m)
  PROVE  TurnInv'
<1> DEFINE h == home[m]  u0 == sender[m]
<1> USE DEF delivery, request
<1>1. TypeOK /\ WriterInv /\ HistoryInv /\ WholeContext
  BY DEF IInv
<1>2. h \in Procs /\ u0 \in Users /\ history[h][u0] \in Seq(Entries)
      /\ Len(history[h][u0]) <= Window
  BY AtHome DEF WriteUser, WriteAssistant, Runs
<1>3. UNCHANGED <<sender, home, snapshot>>
  BY DEF WriteUser, WriteAssistant
<1>4. WholeContext'
  BY <1>1, <1>3 DEF WholeContext
<1>5. CASE WriteUser(m)
  <2>1. /\ writer[h] = None /\ writer' = [writer EXCEPT ![h] = m]
        /\ pc[m] = "write" /\ pc' = [pc EXCEPT ![m] = "half"]
        /\ history' = Recorded(m, "user")
    BY <1>5 DEF WriteUser, Runs, Goes
  <2>2. WriterInv'
    <3>1. pc'[m] = "half" /\ \A x \in Messages \ {m} : pc'[x] = pc[x]
      BY <1>1, <2>1 DEF TypeOK
    <3>2. writer'[h] = m /\ \A q \in Procs \ {h} : writer'[q] = writer[q]
      BY <1>1, <1>2, <2>1 DEF TypeOK
    <3>3. \A x \in Messages : pc[x] = "half" => home[x] # h
      BY <1>1, <2>1 DEF WriterInv, LarkSyncAssumption
    <3>4. \A q \in Procs : writer[q] \in Messages \cup {None} /\ writer[q] # m
      BY <1>1, <2>1 DEF WriterInv, TypeOK, LarkSyncAssumption
    <3>5. \A x \in Messages : pc[x] = "half" => home[x] \in Procs
      BY AtHome
    <3> QED
      BY <1>1, <1>2, <1>3, <3>1, <3>2, <3>3, <3>4, <3>5 DEF WriterInv
  <2>3. ASSUME NEW p \in Procs, NEW u \in Users
        PROVE  /\ Len(history'[p][u]) <= Window
               /\ IF writer'[p] # None /\ sender'[writer'[p]] = u
                    THEN HalfTurns(history[p][u], sender, u, writer[p])'
                    ELSE WholeTurns(history[p][u], sender, u)'
    <3>1. CASE p = h /\ u = u0
      <4>1. history'[p][u] = Kept(Append(history[p][u], <<m, "user">>))
        BY <1>2, <2>1, <3>1, RecordedType
      <4>2. WholeTurns(history[p][u], sender, u)
        BY <1>1, <2>1, <3>1 DEF HistoryInv
      <4>3. HalfTurns(Kept(Append(history[p][u], <<m, "user">>)), sender, u, m)
        BY <1>2, <3>1, <4>2, UserAppended
      <4>4. Len(Kept(Append(history[p][u], <<m, "user">>))) <= Window
        <5>1. <<m, "user">> \in Entries
          BY DEF Entries
        <5> HIDE DEF h, u0
        <5> QED
          BY <1>2, <3>1, <5>1, KeptProps DEF LarkSyncAssumption
      <4>5. writer'[p] = m /\ m # None /\ sender'[m] = u
        BY <1>1, <1>2, <1>3, <2>1, <3>1 DEF TypeOK, LarkSyncAssumption
      <4> QED
        BY <1>3, <4>1, <4>3, <4>4, <4>5
    <3>2. CASE ~(p = h /\ u = u0)
      <4>1. history'[p][u] = history[p][u]
        <5>1. \A x \in Procs, y \in Users :
                Recorded(m, "user")[x][y] =
                  IF x = home[m] /\ y = sender[m]
                    THEN Kept(Append(history[x][y], <<m, "user">>)) ELSE history[x][y]
          BY <1>2, RecordedType
        <5> QED
          BY <2>1, <3>2, <5>1
      <4>2. ~(writer[p] # None /\ sender[writer[p]] = u) =>
              ~(writer'[p] # None /\ sender'[writer'[p]] = u)
        BY <1>1, <1>2, <1>3, <2>1, <3>2 DEF TypeOK
      <4>3. (writer[p] # None /\ sender[writer[p]] = u) =>
              (writer'[p] = writer[p] /\ sender'[writer'[p]] = u)
        BY <1>1, <1>2, <1>3, <2>1, <3>2 DEF TypeOK
      <4> QED
        BY <1>1, <1>3, <4>1, <4>2, <4>3 DEF HistoryInv
    <3> QED
      BY <3>1, <3>2
  <2> QED
    BY <1>4, <2>2, <2>3 DEF TurnInv, HistoryInv
<1>6. CASE WriteAssistant(m)
  <2>1. /\ writer' = [writer EXCEPT ![h] = None]
        /\ pc[m] = "half" /\ pc' = [pc EXCEPT ![m] = "reply"]
        /\ history' = Recorded(m, "assistant")
    BY <1>6 DEF WriteAssistant, Goes, After
  <2>2. writer[h] = m
    BY <1>1, <2>1 DEF WriterInv
  <2>3. WriterInv'
    <3>1. pc'[m] # "half" /\ \A x \in Messages \ {m} : pc'[x] = pc[x]
      BY <1>1, <2>1 DEF TypeOK
    <3>2. writer'[h] = None /\ \A q \in Procs \ {h} : writer'[q] = writer[q]
      BY <1>1, <1>2, <2>1 DEF TypeOK
    <3>3. \A x \in Messages \ {m} : pc[x] = "half" => home[x] # h
      BY <1>1, <2>2 DEF WriterInv
    <3>4. \A q \in Procs \ {h} : writer[q] \in Messages \cup {None} /\ writer[q] # m
      <4>1. m # None
        BY DEF LarkSyncAssumption
      <4> QED
        BY <1>1, <1>2, <4>1 DEF WriterInv, TypeOK
    <3>5. \A x \in Messages : pc[x] = "half" => home[x] \in Procs
      BY AtHome
    <3> QED
      BY <1>1, <1>2, <1>3, <3>1, <3>2, <3>3, <3>4, <3>5 DEF WriterInv
  <2>4. ASSUME NEW p \in Procs, NEW u \in Users
        PROVE  /\ Len(history'[p][u]) <= Window
               /\ IF writer'[p] # None /\ sender'[writer'[p]] = u
                    THEN HalfTurns(history[p][u], sender, u, writer[p])'
                    ELSE WholeTurns(history[p][u], sender, u)'
    <3>1. CASE p = h /\ u = u0
      <4>1. history'[p][u] = Kept(Append(history[p][u], <<m, "assistant">>))
        BY <1>2, <2>1, <3>1, RecordedType
      <4>2. HalfTurns(history[p][u], sender, u, m)
        <5>1. m # None
          BY DEF LarkSyncAssumption
        <5> QED
          BY <1>1, <2>2, <3>1, <5>1 DEF HistoryInv
      <4>3. WholeTurns(Kept(Append(history[p][u], <<m, "assistant">>)), sender, u)
        BY <1>2, <3>1, <4>2, AssistantAppended
      <4>4. Len(Kept(Append(history[p][u], <<m, "assistant">>))) <= Window
        <5>1. <<m, "assistant">> \in Entries
          BY DEF Entries
        <5> HIDE DEF h, u0
        <5> QED
          BY <1>2, <3>1, <5>1, KeptProps DEF LarkSyncAssumption
      <4>5. writer'[p] = None
        BY <1>1, <1>2, <2>1, <3>1 DEF TypeOK
      <4> QED
        BY <1>3, <4>1, <4>3, <4>4, <4>5
    <3>2. CASE ~(p = h /\ u = u0)
      <4>1. history'[p][u] = history[p][u]
        <5>1. \A x \in Procs, y \in Users :
                Recorded(m, "assistant")[x][y] =
                  IF x = home[m] /\ y = sender[m]
                    THEN Kept(Append(history[x][y], <<m, "assistant">>)) ELSE history[x][y]
          BY <1>2, RecordedType
        <5> QED
          BY <2>1, <3>2, <5>1
      <4>2. (writer'[p] # None /\ sender'[writer'[p]] = u) <=>
              (writer[p] # None /\ sender[writer[p]] = u)
        BY <1>1, <1>2, <1>3, <2>1, <2>2, <3>2 DEF TypeOK
      <4>3. (writer'[p] # None /\ sender'[writer'[p]] = u) => writer'[p] = writer[p]
        BY <1>1, <1>2, <1>3, <2>1, <3>2 DEF TypeOK
      <4> QED
        BY <1>1, <1>3, <4>1, <4>2, <4>3 DEF HistoryInv
    <3> QED
      BY <3>1, <3>2
  <2> QED
    BY <1>4, <2>3, <2>4 DEF TurnInv, HistoryInv
<1> QED
  BY <1>5, <1>6

LEMMA TurnHandler ==
  ASSUME LarkSyncAssumption, IInv, NEW m \in Messages, Handler(m)
  PROVE  TurnInv'
<1>1. CASE WriteUser(m) \/ WriteAssistant(m)
  BY <1>1, TurnWrite
<1>2. CASE Prepare(m) \/ Enter(m) \/ Replied(m) \/ TryAgain(m) \/ Reply(m)
  <2>1. UNCHANGED <<sender, history, writer, home>>
    BY <1>2 DEF Prepare, Enter, Replied, TryAgain, Reply, memory, delivery
  <2>2. TypeOK /\ TurnInv
    BY DEF IInv, TurnInv
  <2>3. \A x \in Messages : pc'[x] = "half" <=> pc[x] = "half"
    <3>1. pc[m] # "half"
      BY <1>2 DEF Prepare, Enter, Replied, TryAgain, Reply, Runs
    <3>2. \/ UNCHANGED pc
          \/ \E to \in {"wait", "lost", "llm", "write", "done"} : pc' = [pc EXCEPT ![m] = to]
      BY <1>2 DEF Prepare, Enter, Replied, TryAgain, Reply, Goes, After
    <3> QED
      BY <2>2, <3>1, <3>2 DEF TypeOK
  <2>4. \A x \in Messages : snapshot'[x] = snapshot[x] \/ snapshot'[x] = <<>>
    <3>1. UNCHANGED snapshot \/ snapshot' = [snapshot EXCEPT ![m] = <<>>]
      BY <1>2 DEF Prepare, Enter, Replied, TryAgain, Reply, Drop, request
    <3> QED
      BY <2>2, <3>1 DEF TypeOK
  <2> QED
    BY <2>1, <2>2, <2>3, <2>4, TurnUnchanged
<1> QED
  BY <1>1, <1>2 DEF Handler

LEMMA TurnLife ==
  ASSUME LarkSyncAssumption, IInv, NEW p \in Procs, Life(p)
  PROVE  TurnInv'
<1>1. CASE End(p)
  BY <1>1, TurnEnd
<1>2. CASE ~End(p)
  <2>1. UNCHANGED <<sender, history, writer, home, pc, snapshot>>
    BY <1>2 DEF Life, Main, Exit, Crash, Launch, Acquire, Refused, WorkerStep,
         Connect, Interrupt, CloseClient, StopLoop, memory, request, delivery
  <2>2. TypeOK /\ TurnInv
    BY DEF IInv, TurnInv
  <2> QED
    BY <2>1, <2>2, TurnUnchanged
<1> QED
  BY <1>1, <1>2

LEMMA NextIInv == LarkSyncAssumption /\ IInv /\ [Next]_vars => IInv'
<1> SUFFICES ASSUME LarkSyncAssumption, IInv, [Next]_vars PROVE IInv'
  OBVIOUS
<1>1. CallsBound'
  BY CallsStep
<1>2. ASSUME NEW p \in Procs, Life(p) PROVE TypeOK' /\ LifeInv' /\ TurnInv'
  BY <1>2, LifeType, LifeLife, TurnLife DEF IInv
<1>3. ASSUME NEW m \in Messages, NEW p \in Procs, OnMessage(m, p)
      PROVE  TypeOK' /\ LifeInv' /\ TurnInv'
  BY <1>3, OnMessageType, OtherLife, TurnOnMessage DEF IInv
<1>4. ASSUME NEW m \in Messages, Handler(m) PROVE TypeOK' /\ LifeInv' /\ TurnInv'
  BY <1>4, HandlerType, OtherLife, TurnHandler
<1>5. ASSUME UNCHANGED vars PROVE TypeOK' /\ LifeInv' /\ TurnInv'
  <2>1. /\ UNCHANGED <<stage, locks, holder, worker, history, writer>>
        /\ UNCHANGED <<queue, pc, try, snapshot, replied>>
        /\ UNCHANGED <<sender, home>>
    BY <1>5 DEF vars, process, memory, request, delivery
  <2>2. TypeOK' /\ LifeInv'
    BY <2>1 DEF IInv, TypeOK, LifeInv, Spawned, Connected, InProgress
  <2>3. TurnInv'
    <3>1. TypeOK /\ TurnInv
      BY DEF IInv, TurnInv
    <3> QED
      BY <2>1, <3>1, TurnUnchanged
  <2> QED
    BY <2>2, <2>3
<1>6. TypeOK' /\ LifeInv' /\ TurnInv'
  BY <1>2, <1>3, <1>4, <1>5 DEF Next
<1> QED
  BY <1>1, <1>6 DEF IInv, TurnInv

(* The inductive invariant of the script holds in every state.             *)
THEOREM IInvHolds == Spec => []IInv
<1>1. Init => IInv
  BY InitIInv, LarkSyncAssumption
<1>2. IInv /\ [Next]_vars => IInv'
  BY NextIInv, LarkSyncAssumption
<1> QED
  BY <1>1, <1>2, PTL DEF Spec

(* The types of all variables.                                             *)
THEOREM TypeCorrect == Spec => []TypeOK
BY IInvHolds, PTL DEF IInv

(* For any number of processes launched at any time: one is connected, and *)
(* messages are worked on there.                                           *)
THEOREM OneInstanceHolds == Spec => []OneInstance
<1>1. IInv => OneInstance
  BY DEF IInv, LifeInv, OneInstance, Connected, Spawned
<1> QED
  BY <1>1, IInvHolds, PTL

(* For any number of messages: no more model calls at a time than the      *)
(* semaphore allows one process.                                           *)
THEOREM CallsBoundHolds == Spec => []CallsBound
BY IInvHolds, PTL DEF IInv

(* For any even window and any number of messages: what a message is       *)
(* answered with is made of whole turns of its user.                       *)
THEOREM WholeContextHolds == Spec => []WholeContext
BY IInvHolds, PTL DEF IInv
-----------------------------------------------------------------------------
(* What a later message sees of an answered one                            *)

Mentions(s, x) == Len(s) = Window \/ \E i \in DOMAIN s : s[i][1] = x

Recounted == {"half", "reply", "done"}

(* From its first entry on a turn is in the history of its process, until  *)
(* a window full of others has pushed it out.                              *)
SeenInv ==
  /\ SeesReplied
  /\ \A x \in Messages :
       home[x] \in Procs /\ pc[x] \in Recounted => Mentions(history[home[x]][sender[x]], x)

LEMMA MentionsAppended ==
  ASSUME LarkSyncAssumption, NEW s \in Seq(Entries), NEW e \in Entries, Len(s) <= Window,
         NEW x, Mentions(s, x) \/ e[1] = x
  PROVE  Mentions(Kept(Append(s, e)), x)
<1> DEFINE k == Kept(Append(s, e))
<1>1. /\ k \in Seq(Entries) /\ k # <<>> /\ k[Len(k)] = e
      /\ IF Len(s) = Window
           THEN Len(k) = Window
           ELSE /\ Len(k) = Len(s) + 1
                /\ \A i \in 1..Len(s) : k[i] = s[i]
  BY KeptProps
<1> HIDE DEF k
<1>2. CASE Len(s) = Window
  BY <1>1, <1>2 DEF Mentions, k
<1>3. CASE Len(s) # Window
  <2>1. Len(k) = Len(s) + 1 /\ DOMAIN k = 1..(Len(s) + 1) /\ Len(s) \in Nat
        /\ \A i \in 1..Len(s) : k[i] = s[i]
    BY <1>1, <1>3
  <2>2. CASE e[1] = x
    <3>1. Len(s) + 1 \in DOMAIN k /\ k[Len(s) + 1][1] = x
      BY <1>1, <2>1, <2>2
    <3>2. QED
      BY <3>1 DEF Mentions, k
  <2>3. CASE e[1] # x
    <3>1. PICK i \in DOMAIN s : s[i][1] = x
      BY <1>3, <2>3 DEF Mentions
    <3>2. i \in DOMAIN k /\ k[i][1] = x
      BY <2>1, <3>1
    <3>3. QED
      BY <3>2 DEF Mentions, k
  <2>4. QED
    BY <2>2, <2>3
<1>4. QED
  BY <1>2, <1>3

LEMMA SeenUnchanged ==
  ASSUME SeenInv, UNCHANGED <<sender, history, home>>,
         \A x \in Messages : pc'[x] \in Recounted => pc[x] \in Recounted,
         \A x \in Messages : \/ replied'[x] = replied[x] /\ snapshot'[x] = snapshot[x]
                             \/ replied'[x] = {}
  PROVE  SeenInv'
<1>1. SeesReplied'
  BY DEF SeenInv, SeesReplied
<1>2. QED
  BY <1>1 DEF SeenInv, Mentions

LEMMA SeenOnMessage ==
  ASSUME LarkSyncAssumption, IInv, SeenInv, NEW m \in Messages, NEW p \in Procs,
         OnMessage(m, p)
  PROVE  SeenInv'
<1>1. /\ pc[m] = "away" /\ UNCHANGED <<sender, history>>
      /\ home' = [home EXCEPT ![m] = p]
      /\ \/ /\ pc' = [pc EXCEPT ![m] = "token"]
            /\ snapshot' = [snapshot EXCEPT ![m] = history[p][sender[m]]]
            /\ replied' = [replied EXCEPT ![m] = Answered(m, p)]
         \/ pc' = [pc EXCEPT ![m] = "lost"] /\ UNCHANGED <<snapshot, replied>>
  BY DEF OnMessage, request
<1>2. TypeOK
  BY DEF IInv
<1>3. /\ pc'[m] \in {"token", "lost"}
      /\ \A x \in Messages \ {m} :
           /\ pc'[x] = pc[x] /\ home'[x] = home[x]
           /\ snapshot'[x] = snapshot[x] /\ replied'[x] = replied[x]
      /\ \/ snapshot'[m] = history[p][sender[m]] /\ replied'[m] = Answered(m, p)
         \/ snapshot'[m] = snapshot[m] /\ replied'[m] = replied[m]
  BY <1>1, <1>2 DEF TypeOK
<1>4. ASSUME NEW x \in Answered(m, p) PROVE Mentions(history[p][sender[m]], x)
  BY <1>4 DEF Answered, At, SeenInv, Recounted
<1>5. SeesReplied'
  <2> SUFFICES ASSUME NEW y \in Messages, NEW x \in replied'[y]
               PROVE  Mentions(snapshot'[y], x)
    BY DEF SeesReplied, Mentions
  <2>1. CASE y = m /\ snapshot'[m] = history[p][sender[m]] /\ replied'[m] = Answered(m, p)
    BY <1>4, <2>1
  <2>2. CASE snapshot'[y] = snapshot[y] /\ replied'[y] = replied[y]
    BY <2>2 DEF SeenInv, SeesReplied, Mentions
  <2>3. QED
    BY <1>3, <2>1, <2>2
<1>6. ASSUME NEW x \in Messages, home'[x] \in Procs, pc'[x] \in Recounted
      PROVE  Mentions(history[home'[x]][sender[x]], x)
  <2>1. x # m
    BY <1>3, <1>6 DEF Recounted
  <2>2. QED
    BY <1>3, <1>6, <2>1 DEF SeenInv
<1>7. QED
  BY <1>1, <1>5, <1>6 DEF SeenInv, Mentions

LEMMA SeenWrite ==
  ASSUME LarkSyncAssumption, IInv, SeenInv, NEW m \in Messages,
         NEW role \in {"user", "assistant"},
         pc[m] \in {"write", "half"}, \A x \in Messages \ {m} : pc'[x] = pc[x],
         history' = Recorded(m, role), UNCHANGED <<sender, home, snapshot, replied>>
  PROVE  SeenInv'
<1>1. /\ home[m] \in Procs /\ sender[m] \in Users
      /\ \A p \in Procs, u \in Users :
           /\ history[p][u] \in Seq(Entries) /\ Len(history[p][u]) <= Window
           /\ history'[p][u] = IF p = home[m] /\ u = sender[m]
                               THEN Kept(Append(history[p][u], <<m, role>>))
                               ELSE history[p][u]
  <2>1. home[m] \in Procs /\ sender[m] \in Users
    BY AtHome
  <2>2. \A p \in Procs, u \in Users :
          history[p][u] \in Seq(Entries) /\ Len(history[p][u]) <= Window
    BY DEF IInv, TypeOK, HistoryInv, Entries
  <2>3. \A p \in Procs, u \in Users :
          Recorded(m, role)[p][u] = IF p = home[m] /\ u = sender[m]
                                    THEN Kept(Append(history[p][u], <<m, role>>))
                                    ELSE history[p][u]
    BY <2>1, RecordedType
  <2>4. \A p \in Procs, u \in Users :
          history'[p][u] = IF p = home[m] /\ u = sender[m]
                           THEN Kept(Append(history[p][u], <<m, role>>))
                           ELSE history[p][u]
    BY <2>3
  <2>5. QED
    BY <2>1, <2>2, <2>4
<1>2. TypeOK /\ <<m, role>> \in Entries /\ <<m, role>>[1] = m
  BY DEF IInv, Entries
<1>3. ASSUME NEW x \in Messages, home[x] \in Procs, pc'[x] \in Recounted
      PROVE  Mentions(history'[home[x]][sender[x]], x)
  <2> DEFINE s == history[home[x]][sender[x]]
  <2>1. /\ sender[x] \in Users /\ s \in Seq(Entries) /\ Len(s) <= Window
        /\ history'[home[x]][sender[x]] = IF home[x] = home[m] /\ sender[x] = sender[m]
                                          THEN Kept(Append(s, <<m, role>>)) ELSE s
    BY <1>1, <1>2, <1>3 DEF TypeOK
  <2>2. x = m \/ Mentions(s, x)
    BY <1>2, <1>3 DEF SeenInv, TypeOK
  <2> HIDE DEF s
  <2>3. CASE home[x] = home[m] /\ sender[x] = sender[m]
    BY <1>2, <2>1, <2>2, <2>3, MentionsAppended
  <2>4. CASE ~(home[x] = home[m] /\ sender[x] = sender[m])
    BY <2>1, <2>2, <2>4
  <2>5. QED
    BY <2>3, <2>4
<1>4. SeesReplied'
  BY DEF SeenInv, SeesReplied
<1>5. QED
  BY <1>3, <1>4 DEF SeenInv, Mentions

LEMMA SeenNext ==
  ASSUME LarkSyncAssumption, IInv, SeenInv, [Next]_vars
  PROVE  SeenInv'
<1>0. TypeOK
  BY DEF IInv
<1>1. ASSUME NEW p \in Procs, Life(p) PROVE SeenInv'
  <2>1. CASE End(p)
    <3>1. /\ sender' = sender
          /\ history' = [history EXCEPT ![p] = [u \in Users |-> <<>>]]
          /\ \A x \in Messages : home[x] = p => home'[x] = None
          /\ \A x \in Messages : home[x] # p => home'[x] = home[x] /\ pc'[x] = pc[x]
          /\ \A x \in Messages : \/ replied'[x] = replied[x] /\ snapshot'[x] = snapshot[x]
                                 \/ replied'[x] = {}
      BY <2>1 DEF End, At
    <3>2. None \notin Procs
      BY DEF LarkSyncAssumption
    <3>3. SeesReplied'
      BY <3>1 DEF SeenInv, SeesReplied
    <3>4. ASSUME NEW x \in Messages, home'[x] \in Procs, pc'[x] \in Recounted
          PROVE  Mentions(history'[home'[x]][sender[x]], x)
      <4>1. home[x] # p /\ home'[x] = home[x] /\ pc'[x] = pc[x]
        BY <3>1, <3>2, <3>4
      <4>2. history'[home[x]] = history[home[x]]
        BY <1>0, <3>1, <3>4, <4>1 DEF TypeOK
      <4>3. QED
        BY <3>4, <4>1, <4>2 DEF SeenInv
    <3>5. QED
      BY <3>1, <3>3, <3>4 DEF SeenInv, Mentions
  <2>2. CASE ~End(p)
    <3>1. UNCHANGED <<sender, history, home, pc, snapshot, replied>>
      BY <1>1, <2>2 DEF Life, Main, Exit, Crash, Launch, Acquire, Refused, WorkerStep,
           Connect, Interrupt, CloseClient, StopLoop, memory, request, delivery
    <3>2. QED
      BY <3>1, SeenUnchanged
  <2>3. QED
    BY <2>1, <2>2
<1>2. ASSUME NEW m \in Messages, Handler(m) PROVE SeenInv'
  <2>1. CASE WriteUser(m)
    <3>1. /\ pc[m] \in {"write", "half"} /\ \A x \in Messages \ {m} : pc'[x] = pc[x]
          /\ history' = Recorded(m, "user")
          /\ UNCHANGED <<sender, home, snapshot, replied>>
      BY <1>0, <2>1 DEF WriteUser, Runs, Goes, TypeOK, request, delivery
    <3>2. "user" \in {"user", "assistant"}
      OBVIOUS
    <3>3. QED
      BY <3>1, <3>2, SeenWrite
  <2>2. CASE WriteAssistant(m)
    <3>1. /\ pc[m] \in {"write", "half"} /\ \A x \in Messages \ {m} : pc'[x] = pc[x]
          /\ history' = Recorded(m, "assistant")
          /\ UNCHANGED <<sender, home, snapshot, replied>>
      BY <1>0, <2>2 DEF WriteAssistant, Goes, TypeOK, request, delivery
    <3>2. "assistant" \in {"user", "assistant"}
      OBVIOUS
    <3>3. QED
      BY <3>1, <3>2, SeenWrite
  <2>3. CASE Prepare(m) \/ Enter(m) \/ Replied(m) \/ TryAgain(m) \/ Reply(m)
    <3>1. UNCHANGED <<sender, history, home>>
      BY <2>3 DEF Prepare, Enter, Replied, TryAgain, Reply, memory, delivery
    <3>2. \A x \in Messages : pc'[x] \in Recounted => pc[x] \in Recounted
      <4>1. \/ UNCHANGED pc
            \/ \E to \in {"wait", "lost", "llm", "write"} : pc' = [pc EXCEPT ![m] = to]
            \/ pc[m] = "reply" /\ pc' = [pc EXCEPT ![m] = "done"]
        BY <2>3 DEF Prepare, Enter, Replied, TryAgain, Reply, Runs, Goes, After
      <4>2. QED
        BY <1>0, <4>1 DEF TypeOK, Recounted
    <3>3. \A x \in Messages : \/ replied'[x] = replied[x] /\ snapshot'[x] = snapshot[x]
                              \/ replied'[x] = {}
      <4>1. UNCHANGED <<snapshot, replied>> \/ Drop(m)
        BY <2>3 DEF Prepare, Enter, Replied, TryAgain, Reply, request
      <4>2. QED
        BY <1>0, <4>1 DEF Drop, TypeOK
    <3>4. QED
      BY <3>1, <3>2, <3>3, SeenUnchanged
  <2>4. QED
    BY <1>2, <2>1, <2>2, <2>3 DEF Handler
<1>3. CASE UNCHANGED vars
  <2>1. UNCHANGED <<sender, history, home, pc, snapshot, replied>>
    BY <1>3 DEF vars, memory, request, delivery
  <2>2. QED
    BY <2>1, SeenUnchanged
<1>4. QED
  BY <1>1, <1>2, <1>3, SeenOnMessage DEF Next

(* A message that comes after a reply of the same process was on its way   *)
(* is answered with that turn before it, or with a window full of later    *)
(* ones, for any even window and any number of messages and handlers.      *)
THEOREM SeesRepliedHolds == Spec => []SeesReplied
<1>1. Init => SeenInv
  BY DEF Init, SeenInv, SeesReplied, Recounted
<1>2. IInv /\ SeenInv /\ [Next]_vars => SeenInv'
  BY SeenNext, LarkSyncAssumption
<1>3. SeenInv => SeesReplied
  BY DEF SeenInv
<1>4. QED
  BY <1>1, <1>2, <1>3, IInvHolds, PTL DEF Spec
=============================================================================
