----------------------------- MODULE LarkDedup -----------------------------
(***************************************************************************)
(* The deduplication state of the Lark channel (channels/lark.py): the     *)
(* bounded, expiring record of message ids, its file, and the writers that *)
(* save it from executor threads, across crashes and restarts.             *)
(*                                                                         *)
(* Deciding about a delivery and taking the snapshot to save is one step   *)
(* of the event loop.  The threads' file operations interleave one by one; *)
(* all of them go through the same temporary path.                         *)
(***************************************************************************)
EXTENDS Integers, FiniteSets, Sequences, SequencesExt

CONSTANTS
  Ids,           (* message ids                                             *)
  Legacy,        (* ids in a file of the old format: they never expire      *)
  Cap,           (* DEDUP_CACHE_SIZE                                        *)
  TTL,           (* DEDUP_TTL_SECONDS; never, if not positive               *)
  MaxCalls,      (* bound: saves started                                    *)
  MaxTime,       (* bound: the clock                                        *)
  MaxRestarts    (* bound: crashes                                          *)

ASSUME LarkDedupAssumption ==
  /\ IsFiniteSet(Ids) /\ Legacy \subseteq Ids
  /\ Cap \in Nat \ {0} /\ TTL \in Int
  /\ MaxCalls \in Nat /\ MaxTime \in Nat \ {0} /\ MaxRestarts \in Nat

VARIABLES
  now,       (* time.time(); 0 is the time stamp of legacy entries          *)
  known,     (* _seen_message_ids: id -> time it was recorded               *)
  order,     (* _seen_message_order                                         *)
  calls,     (* saves started so far, by number                             *)
  stage,     (* per save: where its thread stands                           *)
  snap,      (* per save: the entries to write                              *)
  fd,        (* per save: the inode it has open                             *)
  file,      (* inode -> [state, entries]: "empty", "torn" or "whole"       *)
  tmp,       (* the inode the temporary path names, 0 if none               *)
  path,      (* the inode the file's path names, 0 if none                  *)
  restarts,
  log,       (* history: what was recorded in this life, [msg, at, again]   *)
  ever       (* history: <<msg, at>> recorded in any life                   *)

dedupVars == <<now, known, order, calls, stage, snap, fd, file, tmp, path,
               restarts, log, ever>>
memory == <<known, order, log, ever>>
saves  == <<calls, stage, snap, fd>>
files  == <<file, tmp, path>>

Saves == 1..MaxCalls
Inodes == 1..(MaxCalls + 1)    (* named after the save that created them   *)
LegacyInode == MaxCalls + 1

Stages == {"none", "queued", "open", "written", "saved", "failed", "lost"}

Whole(entries) == [state |-> "whole", entries |-> entries]
Empty == [state |-> "empty", entries |-> <<>>]
Torn  == [state |-> "torn", entries |-> <<>>]

(* The saves whose thread is not through. *)
Writing == {n \in Saves : stage[n] \in {"queued", "open", "written"}}

(* A dict from ids to time stamps. *)
Entries == UNION {[D -> 0..MaxTime] : D \in SUBSET Ids}

Lives(at) == at = 0 \/ TTL <= 0 \/ now - at < TTL

IsFresh(m) == m \in DOMAIN known /\ Lives(known[m])

(***************************************************************************)
(* _load_seen_message_ids: the entries that still live, the newest Cap of  *)
(* them, oldest first (ties in any order).                                 *)
(***************************************************************************)
Loads(entries, o) ==
  LET live == {m \in DOMAIN entries : Lives(entries[m])} IN
  \E K \in SUBSET live :
    /\ Cardinality(K) = IF Cardinality(live) < Cap THEN Cardinality(live) ELSE Cap
    /\ \A k \in K, l \in live \ K : entries[k] >= entries[l]
    /\ o \in SetToSeqs(K)
    /\ \A i, j \in DOMAIN o : i < j => entries[o[i]] <= entries[o[j]]

(* What is read from the file: nothing from a missing or damaged one.      *)
OnDisk_Refreshed ==
  IF path = 0 \/ file[path].state # "whole" THEN <<>>
  ELSE [m \in DOMAIN file[path].entries |-> now]
OnDisk == IF path = 0 \/ file[path].state # "whole" THEN <<>> ELSE file[path].entries

Load ==
  \E o \in UNION {SetToSeqs(K) : K \in SUBSET (DOMAIN OnDisk)} :
    /\ Loads(OnDisk, o)
    /\ order' = o
    /\ known' = [m \in ToSet(o) |-> OnDisk[m]]

DedupInit ==
  /\ now = 1
  /\ calls = 0
  /\ stage = [n \in Saves |-> "none"]
  /\ snap = [n \in Saves |-> <<>>]
  /\ fd = [n \in Saves |-> 0]
  /\ file = [i \in Inodes |-> IF i = LegacyInode /\ Legacy # {}
                              THEN Whole([m \in Legacy |-> 0]) ELSE Empty]
  /\ tmp = 0
  /\ path = IF Legacy = {} THEN 0 ELSE LegacyInode
  /\ restarts = 0
  /\ log = <<>>
  /\ ever = {<<m, 0>> : m \in Legacy}
  /\ \E o \in SetToSeqs(Legacy) :
       /\ order = SubSeq(o, 1, IF Len(o) < Cap THEN Len(o) ELSE Cap)
       /\ known = [m \in ToSet(order) |-> 0]

-----------------------------------------------------------------------------
(* _is_duplicate *)

Excess_TooMany(o) == IF Len(o) >= Cap THEN Len(o) - Cap + 1 ELSE 0
Excess(o) == IF Len(o) > Cap THEN Len(o) - Cap ELSE 0

(* Which ids go with the oldest n entries of the list. *)
Forgotten(o, n) == {o[i] : i \in 1..n}

(* _persist_seen_message_ids_async: the snapshot is taken on the loop.     *)
StartSave ==
  /\ calls < MaxCalls
  /\ calls' = calls + 1
  /\ stage' = [stage EXCEPT ![calls + 1] = "queued"]
  /\ snap' = [snap EXCEPT ![calls + 1] =
                [k \in DOMAIN known' \cap ToSet(order') |-> known'[k]]]
  /\ UNCHANGED fd

(* A message whose id is not known, or known for longer than the TTL, is   *)
(* recorded, the list cut to its capacity and the state saved; the message *)
(* is handled afterwards, whether or not the save worked.                  *)
Admit(m) ==
  /\ ~IsFresh(m)
  /\ LET o == Append(order, m)
         n == Excess(o)
     IN  /\ order' = SubSeq(o, n + 1, Len(o))
         /\ known' = [k \in (DOMAIN known \cup {m}) \ Forgotten(o, n) |->
                       IF k = m THEN now ELSE known[k]]
  /\ log' = Append(log, [msg |-> m, at |-> now, again |-> m \in ToSet(order)])
  /\ ever' = ever \cup {<<m, now>>}
  /\ StartSave
  /\ UNCHANGED <<now, files, restarts>>

(* stop() saves once more. *)
Stop ==
  /\ UNCHANGED <<now, memory, files, restarts>>
  /\ StartSave

-----------------------------------------------------------------------------
(* The write in an executor thread *)

(* write_text opens the temporary path, truncating what is there ...       *)
Open(n) ==
  /\ stage[n] = "queued"
  /\ LET inode == IF tmp = 0 THEN n ELSE tmp IN
       /\ fd' = [fd EXCEPT ![n] = inode]
       /\ file' = [file EXCEPT ![inode] = Empty]
       /\ tmp' = inode
  /\ stage' = [stage EXCEPT ![n] = "open"]
  /\ UNCHANGED <<now, memory, calls, snap, path, restarts>>

(* ... and writes from its start: what another thread wrote into the same  *)
(* file meanwhile is overwritten, or shows behind a shorter text.          *)
Write(n) ==
  /\ stage[n] = "open"
  /\ \E text \in {Whole(snap[n])} \cup (IF file[fd[n]] = Empty THEN {} ELSE {Torn}) :
       file' = [file EXCEPT ![fd[n]] = text]
  /\ stage' = [stage EXCEPT ![n] = "written"]
  /\ UNCHANGED <<now, memory, calls, snap, fd, tmp, path, restarts>>

(* rename; it fails when another thread has renamed the file already.      *)
Rename(n) ==
  /\ stage[n] = "written"
  /\ IF tmp = 0
     THEN stage' = [stage EXCEPT ![n] = "failed"] /\ UNCHANGED <<tmp, path>>
     ELSE stage' = [stage EXCEPT ![n] = "saved"] /\ path' = tmp /\ tmp' = 0
  /\ UNCHANGED <<now, memory, calls, snap, fd, file, restarts>>

(* The process dies, its threads with it, and starts again.                *)
Restart ==
  /\ restarts < MaxRestarts
  /\ restarts' = restarts + 1
  /\ Load
  /\ log' = <<>>
  /\ stage' = [n \in Saves |-> IF n \in Writing THEN "lost" ELSE stage[n]]
  /\ UNCHANGED <<now, ever, calls, snap, fd, files>>

Tick ==
  /\ now < MaxTime
  /\ now' = now + 1
  /\ UNCHANGED <<memory, saves, files, restarts>>

(* No thread is writing; nothing need happen any more. *)
DedupQuiet ==
  /\ Writing = {}
  /\ UNCHANGED dedupVars

DedupNext ==
  \/ \E m \in Ids : Admit(m)
  \/ \E n \in Saves : Open(n) \/ Write(n) \/ Rename(n)
  \/ Stop \/ Restart \/ Tick \/ DedupQuiet

DedupSpec == DedupInit /\ [][DedupNext]_dedupVars

-----------------------------------------------------------------------------
DedupTypeOK ==
  /\ now \in 1..MaxTime
  /\ known \in Entries
  /\ order \in Seq(Ids) /\ Len(order) <= Cap
  /\ calls \in 0..MaxCalls
  /\ stage \in [Saves -> Stages]
  /\ snap \in [Saves -> Entries] /\ fd \in [Saves -> {0} \cup Inodes]
  /\ file \in [Inodes -> [state : {"empty", "torn", "whole"}, entries : Entries]]
  /\ tmp \in {0} \cup Inodes /\ path \in {0} \cup Inodes
  /\ restarts \in 0..MaxRestarts
  /\ ever \subseteq Ids \X (0..MaxTime)

(* A message is only ever dropped as a duplicate of one that was really    *)
(* recorded, at the time its entry says: whatever the writers leave in the *)
(* file, a restart makes no entry up.                                      *)
NoFalseDuplicate == \A m \in DOMAIN known : <<m, known[m]>> \in ever

(* Within one life a message is recorded, and so handled, again only after *)
(* its entry expired or as many others were recorded as the list holds --  *)
(* provided its id was not still listed then: an expired id that is        *)
(* recorded again is listed twice and goes with its older position.        *)
NoEarlyRepeat ==
  \A i, j \in DOMAIN log :
    (i < j /\ log[i].msg = log[j].msg /\ ~log[i].again)
      => (TTL > 0 /\ log[j].at - log[i].at >= TTL) \/ j - i > Cap
=============================================================================
