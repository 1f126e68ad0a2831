----------------------- MODULE JournalPipelineProofs ------------------------
(***************************************************************************)
(* Proofs about the journal pipeline, for any number of changes and of     *)
(* journals.                                                               *)
(***************************************************************************)
EXTENDS JournalPipeline, SequenceTheorems, TLAPS

\* First-order steps; a step with arithmetic or with records and updates names SMT.
USE Zenon

\* Nothing that is buffered, queued, prepared, loaded or stored is ahead of the
\* volume.
Bounded ==
  /\ job.body \subseteq 1..head /\ job.cursor \in 0..head
  /\ \A i \in 1..Len(chan) : chan[i].changes \subseteq 1..head /\ chan[i].cursor \in 0..head
  /\ load \in [some : BOOLEAN, changes : SUBSET (1..head)]
  /\ disk \in [some : BOOLEAN, changes : SUBSET (1..head)]
  /\ cursor \in 0..head /\ diskCursor \in 0..head /\ preRead \in 0..head

\* A daemon that is down or booting holds nothing of this drive.
AtRest ==
  up # "up" => tier = "Parked" /\ load = None /\ chan = <<>> /\ job = NoJob /\ lastJid = 0

FirstJournal == jid > 0 /\ (jid = 1 => base = 0)

JInv == TypeOK /\ Bounded /\ AtRest /\ FirstJournal

LEMMA InitJInv == Init => JInv
<1> SUFFICES ASSUME Init PROVE JInv
  OBVIOUS
<1> USE ChangesAssumption DEF Init, NoJob, None, Some
<1>a. saveDue \in BOOLEAN /\ applyDue \in BOOLEAN
  OBVIOUS
<1>b. <<>> \in Seq(Messages)
  BY EmptySeq
<1>c. job \in [kind : {"none", "save", "apply", "wrap", "persist"}, cursor : Usns,
              body : SUBSET Changes]
  BY SMT DEF Usns
<1>1. TypeOK
  BY SMT, <1>a, <1>b, <1>c DEF TypeOK, Usns
<1>2. Bounded
  BY SMT DEF Bounded
<1> QED
  BY SMT, <1>1, <1>2 DEF JInv, AtRest, FirstJournal

LEMMA NaturalsOK ==
  ASSUME JInv
  PROVE  /\ head \in Nat /\ base \in 0..head /\ first \in base..head /\ jid \in Nat /\ 0 \in 0..head
         /\ cursor \in Nat /\ diskCursor \in Nat /\ preRead \in Nat /\ lastJid \in Nat
         /\ Len(chan) \in Nat
<1>1. Len(chan) \in Nat
  BY SMT DEF JInv, TypeOK
<1> QED
  BY SMT, <1>1, ChangesAssumption DEF JInv, TypeOK, Usns

LEMMA BatchIsChanges == ASSUME JInv PROVE 1..head \subseteq Changes /\ 0..head \subseteq Usns
  BY SMT, ChangesAssumption DEF JInv, TypeOK, Usns, Changes

\* The channel after a message was sent, and after the first n were taken.
LEMMA Sent ==
  ASSUME JInv, NEW k \in {"save", "apply", "wrap"}, NEW S \in SUBSET (1..head), NEW c \in 0..head
  PROVE  LET s == Append(chan, [kind |-> k, changes |-> S, cursor |-> c])
         IN /\ s \in Seq(Messages)
            /\ \A i \in 1..Len(s) : s[i].changes \subseteq 1..head /\ s[i].cursor \in 0..head
<1> DEFINE m == [kind |-> k, changes |-> S, cursor |-> c]
<1>1. m \in Messages /\ chan \in Seq(Messages)
  BY BatchIsChanges DEF Messages, JInv, TypeOK
<1> HIDE DEF m
<1>2. /\ Append(chan, m) \in Seq(Messages) /\ Len(Append(chan, m)) = Len(chan) + 1
      /\ \A i \in 1..Len(chan) : Append(chan, m)[i] = chan[i]
      /\ Append(chan, m)[Len(chan) + 1] = m
  BY SMT, <1>1
<1>3. m.changes \subseteq 1..head /\ m.cursor \in 0..head
  BY DEF m
<1>4. \A i \in 1..(Len(chan) + 1) : i \in 1..Len(chan) \/ i = Len(chan) + 1
  BY SMT, NaturalsOK
<1>5. \A i \in 1..(Len(chan) + 1) :
        Append(chan, m)[i].changes \subseteq 1..head /\ Append(chan, m)[i].cursor \in 0..head
  BY <1>2, <1>3, <1>4 DEF JInv, Bounded
<1> QED
  BY <1>2, <1>5 DEF m

LEMMA Taken ==
  ASSUME JInv, NEW n \in 0..Len(chan), NEW s, s = SubSeq(chan, n + 1, Len(chan))
  PROVE  /\ s \in Seq(Messages) /\ Len(s) = Len(chan) - n
         /\ \A i \in 1..Len(s) : s[i] = chan[i + n]
         /\ \A i \in 1..Len(s) : s[i].changes \subseteq 1..head /\ s[i].cursor \in 0..head
<1>1. chan \in Seq(Messages) /\ Len(chan) \in Nat
  BY SMT DEF JInv, TypeOK
<1>2. /\ s \in Seq(Messages) /\ Len(s) = Len(chan) - n
      /\ \A i \in 1..Len(s) : s[i] = chan[i + n]
  <2>1. \A i \in (n + 1)..Len(chan) : chan[i] \in Messages
    BY SMT, <1>1
  <2> QED
    BY SMT, <1>1, <2>1, SubSeqProperties
<1>3. \A i \in 1..Len(s) : i + n \in 1..Len(chan)
  BY SMT, <1>1, <1>2
<1>4. \A i \in 1..Len(s) : s[i].changes \subseteq 1..head /\ s[i].cursor \in 0..head
  BY <1>2, <1>3 DEF JInv, Bounded
<1> QED
  BY <1>2, <1>4

LEMMA TailIsTaken ==
  ASSUME JInv, chan # <<>>
  PROVE  /\ Tail(chan) = SubSeq(chan, 1 + 1, Len(chan)) /\ 1 \in 1..Len(chan)
         /\ Head(chan) = chan[1] /\ chan[1] \in Messages
  BY SMT, TailIsSubSeq DEF JInv, TypeOK

LEMMA PollBounds ==
  ASSUME JInv PROVE PollChanges \subseteq 1..head /\ PollCursor \in 0..head /\ NextUsn \in 0..head
  BY SMT, ChangesAssumption DEF JInv, TypeOK, Bounded, Usns, PollChanges, PollCursor, NextUsn

LEMMA VolumeSteps == ASSUME JInv, Volume PROVE JInv'
<1> USE ChangesAssumption DEF JInv, volume, loop, stored, shard, Usns
<1>1. CASE Write
  <2>1. TypeOK'
    BY SMT, <1>1 DEF Write, TypeOK
  <2>2. 1..head \subseteq 1..head' /\ 0..head \subseteq 0..head'
    BY SMT, <1>1 DEF Write, TypeOK
  <2>3. Bounded'
    BY <1>1, <2>2 DEF Write, TypeOK, Bounded
  <2>4. AtRest' /\ FirstJournal'
    BY <1>1 DEF Write, AtRest, FirstJournal
  <2> QED
    BY <2>1, <2>3, <2>4
<1>2. CASE Trim
  BY SMT, <1>2 DEF Trim, TypeOK, Bounded, AtRest, FirstJournal
<1>3. CASE Recreate
  BY SMT, <1>3 DEF Recreate, TypeOK, Bounded, AtRest, FirstJournal
<1>4. CASE CacheLost
  BY SMT, <1>4 DEF CacheLost, TypeOK, Bounded, AtRest, FirstJournal, None
<1> QED
  BY <1>1, <1>2, <1>3, <1>4 DEF Volume

\* A tick of the loop, without the triggers: changes read are buffered, or sent
\* together with those buffered before.
LEMMA TickFacts ==
  ASSUME NEW f, PollTick(f)
  PROVE  /\ up = "up" /\ lastJid \in {0, jid} /\ lastJid' = jid /\ cursor' = PollCursor
         /\ \/ pending' = pending \cup PollChanges /\ chan' = chan
            \/ pending' = {} /\ pending \cup PollChanges = {} /\ chan' = chan
            \/ /\ pending' = {}
               /\ \/ chan' = Append(chan, [kind |-> "save", changes |-> pending \cup PollChanges,
                                          cursor |-> PollCursor])
                  \/ chan' = Append(chan, [kind |-> "apply", changes |-> pending \cup PollChanges,
                                          cursor |-> 0])
         /\ head' = head /\ first' = first /\ base' = base /\ jid' = jid /\ up' = up
         /\ preRead' = preRead /\ job' = job /\ tier' = tier /\ body' = body /\ load' = load
         /\ saves' = saves /\ disk' = disk /\ diskCursor' = diskCursor
<1>1. /\ up = "up" /\ lastJid \in {0, jid} /\ lastJid' = jid /\ cursor' = PollCursor
      /\ UNCHANGED <<volume, up, preRead, job, shard, stored>>
  BY Zenon DEF PollTick
<1>2. \/ pending' = pending \cup PollChanges /\ chan' = chan
      \/ pending' = {} /\ pending \cup PollChanges = {} /\ chan' = chan
      \/ /\ pending' = {}
         /\ \/ chan' = Append(chan, [kind |-> "save", changes |-> pending \cup PollChanges,
                                    cursor |-> PollCursor])
            \/ chan' = Append(chan, [kind |-> "apply", changes |-> pending \cup PollChanges,
                                    cursor |-> 0])
  BY Zenon DEF PollTick
<1> QED
  BY <1>1, <1>2 DEF volume, shard, stored

LEMMA LoopSteps == ASSUME JInv, Loop PROVE JInv'
<1>1. CASE PollWrapped
  <2> USE DEF volume, stored, shard, Usns
  <2>1. /\ chan' \in Seq(Messages)
        /\ \A i \in 1..Len(chan') : chan'[i].changes \subseteq 1..head /\ chan'[i].cursor \in 0..head
    BY <1>1, Sent, NaturalsOK DEF PollWrapped
  <2>2. TypeOK'
    <3>1. cursor' \in Usns /\ diskCursor' \in Usns /\ lastJid' \in 0..jid' /\ pending' \subseteq 1..head'
      BY SMT, <1>1, NaturalsOK, ChangesAssumption DEF PollWrapped
    <3> QED
      BY <1>1, <2>1, <3>1 DEF PollWrapped, JInv, TypeOK
  <2>3. Bounded'
    BY <1>1, <2>1, NaturalsOK DEF PollWrapped, JInv, Bounded
  <2> QED
    BY <1>1, <2>2, <2>3 DEF PollWrapped, JInv, AtRest, FirstJournal
<1>2. ASSUME NEW f, PollTick(f) PROVE JInv'
  <2>1. PollCursor \in 0..head /\ 0 \in 0..head /\ (pending \cup PollChanges) \subseteq 1..head
    BY PollBounds, NaturalsOK DEF JInv, TypeOK
  <2>2. /\ chan' \in Seq(Messages)
        /\ \A i \in 1..Len(chan') : chan'[i].changes \subseteq 1..head /\ chan'[i].cursor \in 0..head
    <3>1. CASE chan' = chan
      BY <3>1 DEF JInv, TypeOK, Bounded
    <3> QED
      BY <1>2, <2>1, <3>1, TickFacts, Sent
  <2>3. saveDue' \in BOOLEAN /\ applyDue' \in BOOLEAN
    <3>1. /\ saveDue' \in {saveDue \/ PollChanges # {}, FALSE}
          /\ applyDue' \in {applyDue \/ PollChanges # {}, FALSE}
      BY <1>2, Zenon DEF PollTick
    <3> QED
      BY <3>1, Zenon
  <2>4. cursor' \in Usns /\ cursor' \in 0..head /\ lastJid' \in 0..jid /\ pending' \subseteq 1..head
    BY SMT, <1>2, <2>1, TickFacts, NaturalsOK, BatchIsChanges
  <2>5. TypeOK'
    BY <1>2, <2>2, <2>3, <2>4, TickFacts DEF JInv, TypeOK
  <2>6. Bounded'
    BY <1>2, <2>2, <2>4, TickFacts DEF JInv, Bounded
  <2> QED
    BY <1>2, <2>5, <2>6, TickFacts DEF JInv, AtRest, FirstJournal
<1> QED
  BY <1>1, <1>2 DEF Loop, Fire

Jobs == [kind : {"none", "save", "apply", "wrap", "persist"}, cursor : Usns, body : SUBSET Changes]

LEMMA JobOK ==
  ASSUME JInv
  PROVE  /\ \A k \in {"none", "save", "apply", "wrap", "persist"}, c \in 0..head, S \in SUBSET (1..head) :
              [kind |-> k, cursor |-> c, body |-> S] \in Jobs
         /\ NoJob \in Jobs /\ \A c \in 0..head : PersistJob(c) \in Jobs
         /\ job \in Jobs /\ job.body \in SUBSET (1..head) /\ job.cursor \in 0..head
<1>1. \A k \in {"none", "save", "apply", "wrap", "persist"}, c \in 0..head, S \in SUBSET (1..head) :
         [kind |-> k, cursor |-> c, body |-> S] \in Jobs
  BY BatchIsChanges DEF Jobs
<1>2. NoJob \in Jobs
  BY BatchIsChanges, NaturalsOK DEF Jobs, NoJob
<1>3. \A c \in 0..head : PersistJob(c) \in Jobs
  BY BatchIsChanges DEF Jobs, PersistJob
<1> QED
  BY <1>1, <1>2, <1>3 DEF JInv, TypeOK, Bounded, Jobs

\* The changes of the first n messages.
FirstOf(n) == UNION {chan[i].changes : i \in 1..n}

\* Taking n applies, or one save, prepares a body with their changes; a save
\* without changes only has its cursor to store.
LEMMA TakeFacts ==
  ASSUME JInv, TakeSave \/ TakeApply
  PROVE  \E n \in 1..Len(chan), k \in {"save", "apply"}, c \in 0..head :
           /\ up = "up" /\ job = NoJob
           /\ \A i \in 1..n : chan[i].kind = k
           /\ k = "save" => n = 1 /\ c = chan[1].cursor
           /\ chan' = SubSeq(chan, n + 1, Len(chan))
           /\ FirstOf(n) \subseteq 1..head
           /\ \/ tier = "Warm" /\ job' = [kind |-> k, cursor |-> c, body |-> body \cup FirstOf(n)]
              \/ tier # "Warm" /\ job' = NoJob
              \/ k = "save" /\ FirstOf(n) = {} /\ job' = PersistJob(c)
           /\ UNCHANGED <<volume, up, preRead, loop, shard, stored>>
<1>1. \A n \in 1..Len(chan) : FirstOf(n) \subseteq 1..head
  <2>1. \A n \in 1..Len(chan) : \A i \in 1..n : chan[i].changes \subseteq 1..head
    <3>1. \A n \in 1..Len(chan) : \A i \in 1..n : i \in 1..Len(chan)
      BY SMT, NaturalsOK
    <3> QED
      BY <3>1 DEF JInv, Bounded
  <2> QED
    BY <2>1 DEF FirstOf
<1>2. CASE TakeSave
  <2>1. chan # <<>> /\ Head(chan).kind = "save" /\ chan' = Tail(chan)
    BY <1>2 DEF TakeSave
  <2>2. /\ 1 \in 1..Len(chan) /\ Head(chan) = chan[1] /\ chan' = SubSeq(chan, 1 + 1, Len(chan))
        /\ chan[1].cursor \in 0..head
    BY <2>1, TailIsTaken DEF JInv, Bounded
  <2>3. FirstOf(1) = chan[1].changes /\ \A i \in 1..1 : chan[i].kind = "save"
    BY SMT, <2>1, <2>2 DEF FirstOf
  <2> USE <2>2
  <2> WITNESS 1 \in 1..Len(chan), "save" \in {"save", "apply"}, chan[1].cursor \in 0..head
  <2> QED
    BY <1>1, <1>2, <2>1, <2>2, <2>3 DEF TakeSave, Patch
<1>3. CASE TakeApply
  <2>1. PICK n \in 1..Len(chan) : /\ \A i \in 1..n : chan[i].kind = "apply"
                                  /\ Patch("apply", FirstOf(n), 0)
                                  /\ chan' = SubSeq(chan, n + 1, Len(chan))
    BY <1>3 DEF TakeApply, FirstOf
  <2>2. 0 \in 0..head
    BY NaturalsOK
  <2> USE <2>2
  <2> WITNESS n \in 1..Len(chan), "apply" \in {"save", "apply"}, 0 \in 0..head
  <2> QED
    BY <1>1, <1>3, <2>1 DEF TakeApply, Patch
<1> QED
  BY <1>2, <1>3

LEMMA ApplierSteps == ASSUME JInv, Applier PROVE JInv'
<1> USE DEF volume, loop, stored, shard
<1>1. CASE TakeSave \/ TakeApply
  <2>1. PICK n \in 1..Len(chan), k \in {"save", "apply"}, c \in 0..head :
           /\ up = "up" /\ job = NoJob
           /\ chan' = SubSeq(chan, n + 1, Len(chan))
           /\ FirstOf(n) \subseteq 1..head
           /\ \/ job' = [kind |-> k, cursor |-> c, body |-> body \cup FirstOf(n)]
              \/ job' = NoJob
              \/ job' = PersistJob(c)
           /\ UNCHANGED <<volume, up, preRead, loop, shard, stored>>
    BY <1>1, TakeFacts
  <2>2. /\ chan' \in Seq(Messages)
        /\ \A i \in 1..Len(chan') : chan'[i].changes \subseteq 1..head /\ chan'[i].cursor \in 0..head
    <3>1. n \in 0..Len(chan)
      BY SMT, <2>1, NaturalsOK
    <3> QED
      BY <2>1, <3>1, Taken
  <2>3. /\ job' \in Jobs
        /\ job'.body \subseteq 1..head /\ job'.cursor \in 0..head
    <3>1. body \cup FirstOf(n) \in SUBSET (1..head)
      BY <2>1 DEF JInv, TypeOK
    <3>2. job' \in Jobs
      BY <2>1, <3>1, JobOK
    <3> QED
      BY SMT, <2>1, <3>1, <3>2, NaturalsOK DEF NoJob, PersistJob
  <2> QED
    BY <2>1, <2>2, <2>3 DEF JInv, TypeOK, Bounded, AtRest, FirstJournal, Jobs
<1>2. CASE TakeWrap \/ TakeWrapFails
  <2>1. /\ up = "up" /\ chan' = SubSeq(chan, 1 + 1, Len(chan)) /\ 1 \in 1..Len(chan)
        /\ job' \in {[kind |-> "wrap", cursor |-> 0, body |-> 1..head], job}
        /\ saves' \subseteq saves \cup {1..head}
        /\ UNCHANGED <<volume, up, preRead, loop, shard, disk, diskCursor>>
    BY <1>2, TailIsTaken DEF TakeWrap, TakeWrapFails, LiveRead
  <2>2. /\ chan' \in Seq(Messages)
        /\ \A i \in 1..Len(chan') : chan'[i].changes \subseteq 1..head /\ chan'[i].cursor \in 0..head
    <3>1. 1 \in 0..Len(chan)
      BY SMT, <2>1, NaturalsOK
    <3> QED
      BY <2>1, <3>1, Taken
  <2>3. /\ job' \in Jobs
        /\ job'.body \subseteq 1..head /\ job'.cursor \in 0..head
    <3>1. CASE job' = job
      BY <3>1, JobOK
    <3>2. CASE job' = [kind |-> "wrap", cursor |-> 0, body |-> 1..head]
      BY <3>2, JobOK, NaturalsOK
    <3> QED
      BY <2>1, <3>1, <3>2
  <2> QED
    BY <2>1, <2>2, <2>3 DEF JInv, TypeOK, Bounded, AtRest, FirstJournal, Jobs
<1>3. CASE Swap
  <2>1. /\ up = "up" /\ body' \in {body, job.body} /\ (tier = "Parked" => body' = body)
        /\ saves' \subseteq saves \cup {job.body} /\ job' \in {NoJob, PersistJob(job.cursor)}
        /\ UNCHANGED <<volume, up, preRead, loop, chan, tier, load, disk, diskCursor>>
    BY <1>3 DEF Swap
  <2>2. /\ job' \in Jobs
        /\ job'.body \subseteq 1..head /\ job'.cursor \in 0..head
    BY SMT, <2>1, JobOK, NaturalsOK DEF NoJob, PersistJob
  <2>3. body' \subseteq 1..head /\ saves' \subseteq SUBSET (1..head)
    BY <2>1, JobOK DEF JInv, TypeOK
  <2> QED
    BY <2>1, <2>2, <2>3 DEF JInv, TypeOK, Bounded, AtRest, FirstJournal, Jobs
<1>4. CASE Persist
  <2>1. NoJob \in Jobs
    BY JobOK
  <2> QED
    BY <1>4, <2>1, NaturalsOK DEF Persist, JInv, TypeOK, Bounded, AtRest, FirstJournal, NoJob, Jobs
<1> QED
  BY <1>1, <1>2, <1>3, <1>4 DEF Applier

LEMMA WriterSteps == ASSUME JInv, Writers PROVE JInv'
<1> USE DEF volume, loop, shard, Some
<1>1. PICK b \in saves : SaveDone(b) \/ SaveFails(b)
  BY DEF Writers
<1>2. b \subseteq 1..head
  BY DEF JInv, TypeOK
<1>3. disk' \in [some : BOOLEAN, changes : SUBSET (1..head)]
  <2>1. disk' \in {disk, [some |-> TRUE, changes |-> b]}
    BY <1>1 DEF SaveDone, SaveFails
  <2>2. b \in SUBSET (1..head) /\ disk \in [some : BOOLEAN, changes : SUBSET (1..head)]
    BY <1>2 DEF JInv, Bounded
  <2>3. [some |-> TRUE, changes |-> b] \in [some : BOOLEAN, changes : SUBSET (1..head)]
    BY <2>2
  <2> QED
    BY <2>1, <2>2, <2>3
<1>4. saves' \subseteq saves /\ UNCHANGED <<volume, up, preRead, loop, chan, job, shard, diskCursor>>
  BY <1>1 DEF SaveDone, SaveFails
<1> QED
  BY SMT, <1>3, <1>4 DEF JInv, TypeOK, Bounded, AtRest, FirstJournal

LEMMA TieringSteps == ASSUME JInv, Tiering PROVE JInv'
<1> USE DEF volume, loop, stored, None, Some
<1>1. CASE Demote
  BY <1>1 DEF Demote, JInv, TypeOK, Bounded, AtRest, FirstJournal
<1>2. CASE PromoteLoad
  BY <1>2 DEF PromoteLoad, LiveRead, JInv, TypeOK, Bounded, AtRest, FirstJournal
<1>3. CASE PromoteFallback
  BY <1>3 DEF PromoteFallback, JInv, TypeOK, Bounded, AtRest, FirstJournal
<1>4. CASE PromoteSwap
  BY <1>4 DEF PromoteSwap, JInv, TypeOK, Bounded, AtRest, FirstJournal
<1> QED
  BY <1>1, <1>2, <1>3, <1>4 DEF Tiering

LEMMA CrashStep == ASSUME JInv, Crash PROVE JInv'
<1> USE DEF volume
<1>1. /\ NoJob \in Jobs /\ <<>> \in Seq(Messages) /\ 0 \in Usns /\ 0 \in 0..head /\ 0 \in 0..jid
  BY SMT, JobOK, EmptySeq, NaturalsOK, BatchIsChanges
<1>2. TypeOK'
  BY <1>1 DEF Crash, JInv, TypeOK, Jobs, None
<1>3. Bounded'
  BY SMT, <1>1 DEF Crash, JInv, Bounded, NoJob, None
<1> QED
  BY <1>2, <1>3 DEF Crash, JInv, AtRest, FirstJournal

LEMMA BootSteps == ASSUME JInv, Boot PROVE JInv'
<1> USE DEF volume, stored
<1>1. CASE BootQuery
  <2>1. /\ up = "down" /\ up' \in {"up", "boot"}
        /\ cursor' \in {cursor, diskCursor} /\ preRead' \in {preRead, NextUsn}
        /\ body' \in {body, disk.changes}
        /\ \/ tier' = tier /\ body' = body
           \/ up' = "up" /\ tier' = "Warm"
        /\ UNCHANGED <<volume, lastJid, saveDue, applyDue, pending, chan, job, load, stored>>
    BY <1>1 DEF BootQuery
  <2>2. NextUsn \in 0..head /\ NextUsn \in Usns
    BY PollBounds, BatchIsChanges
  <2>3. TypeOK'
    BY SMT, <2>1, <2>2 DEF JInv, TypeOK, AtRest, None
  <2> QED
    BY <2>1, <2>2, <2>3 DEF JInv, Bounded, AtRest, FirstJournal
<1>2. CASE BootLoad
  <2>1. /\ up = "boot" /\ up' = "up" /\ tier' = "Warm" /\ body' = 1..head
        /\ saves' = saves \cup {1..head} /\ preRead' = 0
        /\ cursor' = diskCursor' /\ diskCursor' \in {diskCursor, preRead}
        /\ UNCHANGED <<volume, lastJid, saveDue, applyDue, pending, chan, job, load, disk>>
    BY <1>2 DEF BootLoad, LiveRead
  <2>2. 0 \in Usns /\ 0 \in 0..head
    BY NaturalsOK, BatchIsChanges
  <2>3. TypeOK'
    <3>1. cursor' \in Usns /\ diskCursor' \in Usns /\ load.some = FALSE
      BY SMT, <2>1 DEF JInv, TypeOK, AtRest, None
    <3> QED
      BY <2>1, <2>2, <3>1 DEF JInv, TypeOK
  <2> QED
    BY <2>1, <2>2, <2>3 DEF JInv, Bounded, AtRest, FirstJournal
<1> QED
  BY <1>1, <1>2 DEF Boot

LEMMA NextJInv == ASSUME JInv, [Next]_vars PROVE JInv'
<1>1. CASE UNCHANGED vars
  BY SMT, <1>1 DEF vars, JInv, TypeOK, Bounded, AtRest, FirstJournal
<1> QED
  BY <1>1, VolumeSteps, LoopSteps, ApplierSteps, WriterSteps, TieringSteps, CrashStep, BootSteps
  DEF Next

\* Every variable of the pipeline stays in its domain, nothing in it is ahead of the volume,
\* and a demoted drive serves no body, for any faults, changes and journals.
THEOREM TypeCorrect == Spec => []TypeOK
<1>1. Init => JInv
  BY InitJInv
<1>2. JInv /\ [Next]_vars => JInv'
  BY NextJInv
<1>3. JInv => TypeOK
  BY DEF JInv
<1> QED
  BY <1>1, <1>2, <1>3, PTL DEF Spec

\* full_rebuild starts the loop from a cursor that the rebuilt body reflects: whatever was
\* written, trimmed, stored or lost before, no change falls between body and journal.
THEOREM RebuildsHaveNoGap == Spec => RebuildHasNoGap
<1>1. ASSUME JInv, [Next]_vars
      PROVE  up = "boot" /\ up' = "up" /\ jid = 1 => 1..(base + cursor') \subseteq body'
  <2> SUFFICES ASSUME up = "boot", up' = "up", jid = 1 PROVE 1..(base + cursor') \subseteq body'
    OBVIOUS
  <2>1. BootLoad
    BY <1>1 DEF Next, vars, Volume, Write, Trim, Recreate, CacheLost, Loop, Fire, PollWrapped,
                PollTick, Applier, TakeSave, TakeApply, TakeWrap, TakeWrapFails, Swap, Persist,
                Writers, SaveDone, SaveFails, Tiering, Demote, PromoteLoad, PromoteFallback,
                PromoteSwap, Crash, Boot, BootQuery
  <2>2. base = 0 /\ body' = 1..head
    BY <1>1, <2>1 DEF BootLoad, LiveRead, JInv, FirstJournal
  <2>3. cursor' \in 0..head
    BY <1>1, <2>1 DEF BootLoad, JInv, Bounded
  <2>4. head \in Nat
    BY <1>1, NaturalsOK
  <2>5. \A c \in 0..head : 1..(0 + c) \subseteq 1..head
    BY SMT, <2>4
  <2> QED
    BY <2>2, <2>3, <2>5
<1> QED
  BY <1>1, InitJInv, NextJInv, PTL DEF Spec, RebuildHasNoGap

\* The cursors on their way to disk, the stored one, those of the applier and of the
\* queued saves in order and that of the loop, ascend.
Ascending ==
  jid = 1 /\ first = 0 =>
    /\ up = "up" => diskCursor <= cursor
    /\ job.kind \in {"save", "persist"} => diskCursor <= job.cursor /\ job.cursor <= cursor
    /\ \A i \in 1..Len(chan) : chan[i].kind = "save" =>
         /\ diskCursor <= chan[i].cursor /\ chan[i].cursor <= cursor
         /\ job.kind \in {"save", "persist"} => job.cursor <= chan[i].cursor
         /\ \A k \in 1..i : chan[k].kind = "save" => chan[k].cursor <= chan[i].cursor

LEMMA NextAscending ==
  ASSUME JInv, Ascending, [Next]_vars
  PROVE  Ascending' /\ (jid' = 1 /\ first' = 0 => diskCursor' >= diskCursor)
<1> SUFFICES ASSUME jid' = 1, first' = 0 PROVE Ascending' /\ diskCursor' >= diskCursor
  BY DEF Ascending
<1> USE NaturalsOK DEF volume, loop, shard, stored
<1>1. CASE UNCHANGED <<cursor, diskCursor, chan, job, up>> /\ jid = 1 /\ first = 0
  BY SMT, <1>1 DEF Ascending
<1>2. CASE Volume \/ Writers \/ Tiering \/ UNCHANGED vars
  <2>1. UNCHANGED <<cursor, diskCursor, chan, job, up>>
    BY <1>2, Zenon
    DEF Volume, Write, Trim, Recreate, CacheLost, Writers, SaveDone, SaveFails, Tiering,
        Demote, PromoteLoad, PromoteFallback, PromoteSwap, vars
  <2>2. jid = 1 /\ first = 0
    <3>1. CASE Trim \/ Recreate
      BY SMT, <3>1 DEF Trim, Recreate, JInv, FirstJournal
    <3>2. CASE ~Trim /\ ~Recreate
      <4>1. UNCHANGED <<jid, first>>
        BY <1>2, <3>2, Zenon
        DEF Volume, Write, CacheLost, Writers, SaveDone, SaveFails, Tiering,
            Demote, PromoteLoad, PromoteFallback, PromoteSwap, vars
      <4> QED
        BY <4>1
    <3> QED
      BY <3>1, <3>2
  <2> QED
    BY <1>1, <2>1, <2>2
<1>3. CASE Loop
  <2>1. ~PollWrapped
    BY SMT DEF PollWrapped, JInv, TypeOK
  <2>2. PICK f : PollTick(f)
    BY <1>3, <2>1 DEF Loop, Fire
  <2>3. jid = 1 /\ first = 0 /\ cursor <= cursor' /\ cursor' = PollCursor /\ PollCursor \in Nat
    BY SMT, <2>2, TickFacts, PollBounds DEF PollCursor, NextUsn
  <2>4. CASE chan' = chan
    <3>1. up = "up" /\ job' = job /\ diskCursor' = diskCursor
      BY <2>2, TickFacts
    <3>2. job.cursor \in Nat /\ \A i \in 1..Len(chan) : chan[i].cursor \in Nat
      BY SMT DEF JInv, Bounded
    <3> QED
      BY SMT, <2>3, <2>4, <3>1, <3>2 DEF Ascending
  <2>5. CASE \E k \in {"save", "apply"} : \E S, c :
               /\ chan' = Append(chan, [kind |-> k, changes |-> S, cursor |-> c])
               /\ k = "save" => c = PollCursor
    <3>0. PICK k \in {"save", "apply"} : \E S, c :
            /\ chan' = Append(chan, [kind |-> k, changes |-> S, cursor |-> c])
            /\ k = "save" => c = PollCursor
      BY <2>5
    <3>1. PICK S, c : /\ chan' = Append(chan, [kind |-> k, changes |-> S, cursor |-> c])
                      /\ k = "save" => c = PollCursor
      BY <3>0
    <3> DEFINE m == [kind |-> k, changes |-> S, cursor |-> c]
    <3>2. /\ Len(chan') = Len(chan) + 1 /\ \A i \in 1..Len(chan) : chan'[i] = chan[i]
          /\ chan'[Len(chan) + 1] = m
      BY SMT, <3>1
    <3>3. up = "up" /\ job' = job /\ diskCursor' = diskCursor
      BY <2>2, TickFacts
    <3>4. m.kind = "save" => m.cursor = cursor'
      BY <2>3, <3>1
    <3> HIDE DEF m
    <3>5. /\ diskCursor <= cursor'
          /\ job.kind \in {"save", "persist"} => diskCursor <= job.cursor /\ job.cursor <= cursor'
      BY SMT, <2>3, <3>3, JobOK DEF Ascending
    <3>6. ASSUME NEW i \in 1..Len(chan), chan[i].kind = "save"
          PROVE  /\ diskCursor <= chan[i].cursor /\ chan[i].cursor <= cursor'
                 /\ job.kind \in {"save", "persist"} => job.cursor <= chan[i].cursor
                 /\ \A l \in 1..i : chan[l].kind = "save" => chan[l].cursor <= chan[i].cursor
      <4>1. chan[i].cursor \in Nat
        BY SMT DEF JInv, Bounded
      <4>2. /\ diskCursor <= chan[i].cursor /\ chan[i].cursor <= cursor
            /\ job.kind \in {"save", "persist"} => job.cursor <= chan[i].cursor
            /\ \A l \in 1..i : chan[l].kind = "save" => chan[l].cursor <= chan[i].cursor
        BY <2>3, <3>6 DEF Ascending
      <4> QED
        BY SMT, <2>3, <4>1, <4>2
    <3>7. ASSUME NEW i \in 1..Len(chan'), chan'[i].kind = "save"
          PROVE  /\ diskCursor <= chan'[i].cursor /\ chan'[i].cursor <= cursor'
                 /\ job.kind \in {"save", "persist"} => job.cursor <= chan'[i].cursor
                 /\ \A l \in 1..i : chan'[l].kind = "save" => chan'[l].cursor <= chan'[i].cursor
      <4>1. CASE i \in 1..Len(chan)
        <5>1. \A l \in 1..i : l \in 1..Len(chan) /\ chan'[l] = chan[l]
          BY SMT, <3>2, <4>1
        <5> QED
          BY <3>2, <3>6, <3>7, <4>1, <5>1
      <4>2. CASE i = Len(chan) + 1
        BY SMT, <2>3, <3>2, <3>4, <3>5, <3>6, <3>7, <4>2
      <4>3. i \in 1..Len(chan) \/ i = Len(chan) + 1
        BY SMT, <3>2
      <4> QED
        BY <4>1, <4>2, <4>3
    <3>8. Ascending'
      BY <3>3, <3>5, <3>7 DEF Ascending
    <3> QED
      BY SMT, <3>3, <3>8
  <2> QED
    BY <2>2, <2>4, <2>5, TickFacts
<1>4. CASE TakeSave \/ TakeApply \/ TakeWrap \/ TakeWrapFails
  <2>1. PICK n \in 1..Len(chan) :
          /\ chan' = SubSeq(chan, n + 1, Len(chan)) /\ job = NoJob
          /\ job'.kind \in {"save", "persist"} => /\ n = 1 /\ chan[1].kind = "save"
                                                  /\ job'.cursor = chan[1].cursor
          /\ UNCHANGED <<volume, up, loop, diskCursor>>
    <3>1. CASE TakeSave \/ TakeApply
      <4>1. PICK n \in 1..Len(chan), k \in {"save", "apply"}, c \in 0..head :
               /\ job = NoJob /\ \A i \in 1..n : chan[i].kind = k
               /\ k = "save" => n = 1 /\ c = chan[1].cursor
               /\ chan' = SubSeq(chan, n + 1, Len(chan))
               /\ \/ job' = [kind |-> k, cursor |-> c, body |-> body \cup FirstOf(n)]
                  \/ job' = NoJob
                  \/ k = "save" /\ job' = PersistJob(c)
               /\ UNCHANGED <<volume, up, loop, stored>>
        BY <3>1, TakeFacts, SMTT(30)
      <4>2. job'.kind \in {"save", "persist"} => k = "save" /\ job'.cursor = c
        BY SMT, <4>1 DEF NoJob, PersistJob
      <4> QED
        BY SMT, <4>1, <4>2
    <3>2. CASE TakeWrap \/ TakeWrapFails
      <4>1. /\ job = NoJob /\ chan # <<>> /\ chan' = Tail(chan)
            /\ UNCHANGED <<volume, up, loop, diskCursor>>
        BY <3>2 DEF TakeWrap, TakeWrapFails
      <4>2. job'.kind \in {"wrap", "none"}
        BY SMT, <3>2 DEF TakeWrap, TakeWrapFails, NoJob
      <4> QED
        BY <4>1, <4>2, TailIsTaken
    <3> QED
      BY <1>4, <3>1, <3>2
  <2>2. /\ Len(chan') = Len(chan) - n /\ \A i \in 1..Len(chan') : chan'[i] = chan[i + n]
    <3>1. n \in 0..Len(chan)
      BY SMT
    <3> QED
      BY <2>1, <3>1, Taken
  <2>3. \A i \in 1..Len(chan') : i + n \in 1..Len(chan) /\ \A k \in 1..i : k + n \in 1..(i + n)
    BY SMT, <2>2
  <2>4. jid = 1 /\ first = 0 /\ cursor' = cursor /\ diskCursor' = diskCursor
    BY <2>1
  <2>5. ASSUME NEW i \in 1..Len(chan'), chan'[i].kind = "save"
        PROVE  /\ diskCursor <= chan'[i].cursor /\ chan'[i].cursor <= cursor
               /\ job'.kind \in {"save", "persist"} => job'.cursor <= chan'[i].cursor
               /\ \A k \in 1..i : chan'[k].kind = "save" => chan'[k].cursor <= chan'[i].cursor
    <3>1. /\ i + n \in 1..Len(chan) /\ chan'[i] = chan[i + n] /\ 1 \in 1..(i + n)
          /\ \A k \in 1..i : k + n \in 1..(i + n) /\ chan'[k] = chan[k + n]
      <4>1. 1 \in 1..(i + n) /\ \A k \in 1..i : k \in 1..Len(chan')
        BY SMT, <2>2
      <4> QED
        BY <2>2, <2>3, <4>1
    <3> QED
      BY <2>1, <2>4, <2>5, <3>1 DEF Ascending
  <2>6. job'.kind \in {"save", "persist"} => diskCursor <= job'.cursor /\ job'.cursor <= cursor
    BY <2>1, <2>4 DEF Ascending
  <2>7. up' = "up" => diskCursor <= cursor
    BY <2>1, <2>4 DEF Ascending
  <2>8. Ascending'
    BY <2>4, <2>5, <2>6, <2>7 DEF Ascending
  <2> QED
    BY SMT, <2>4, <2>8
<1>5. CASE Swap
  <2>1. job' = PersistJob(job.cursor) => job.kind = "save"
    BY SMT, <1>5 DEF Swap, NoJob, PersistJob
  <2>2. /\ job'.kind \in {"save", "persist"} => job.kind = "save" /\ job'.cursor = job.cursor
        /\ UNCHANGED <<volume, up, loop, chan, diskCursor>>
    BY SMT, <1>5, <2>1 DEF Swap, NoJob, PersistJob
  <2> QED
    BY SMT, <2>2 DEF Ascending
<1>6. CASE Persist
  <2>1. /\ job.kind = "persist" /\ job'.kind = "none" /\ diskCursor' = job.cursor /\ up = "up"
        /\ UNCHANGED <<volume, up, loop, chan>>
    BY <1>6 DEF Persist, NoJob
  <2> QED
    BY <2>1 DEF Ascending
<1>7. CASE Crash
  <2>1. up' = "down" /\ chan' = <<>> /\ job'.kind = "none" /\ diskCursor' = diskCursor
    BY <1>7 DEF Crash, NoJob
  <2>2. Len(chan') = 0
    BY <2>1
  <2> QED
    BY SMT, <2>1, <2>2 DEF Ascending
<1>8. CASE Boot
  <2>1. /\ chan' = <<>> /\ job'.kind = "none" /\ Len(chan') = 0
    BY SMT, <1>8 DEF Boot, BootQuery, BootLoad, JInv, AtRest, NoJob
  <2>2. (up' = "up" => cursor' = diskCursor') /\ diskCursor' >= diskCursor
    BY SMT, <1>8 DEF Boot, BootQuery, BootLoad
  <2>3. diskCursor' \in Nat
    BY <1>8 DEF Boot, BootQuery, BootLoad
  <2> QED
    BY SMT, <2>1, <2>2, <2>3 DEF Ascending
<1> QED
  BY <1>2, <1>3, <1>4, <1>5, <1>6, <1>7, <1>8 DEF Next, Applier

\* The persisted cursor never moves back within a journal that was not trimmed, for any
\* interleaving of save ticks, applier, crashes and warm loads: the applier stores cursors
\* in the order of the saves, and a restart resumes at the stored one or after it.
THEOREM CursorsAscend == Spec => CursorMonotone
<1>1. Init => JInv /\ Ascending
  BY SMT, InitJInv DEF Init, Ascending, NoJob
<1>2. JInv /\ Ascending /\ [Next]_vars => JInv' /\ Ascending'
  BY NextJInv, NextAscending
<1>3. JInv /\ Ascending /\ [Next]_vars => (jid' = 1 /\ first' = 0 => diskCursor' >= diskCursor)
  BY NextAscending
<1> QED
  BY <1>1, <1>2, <1>3, PTL DEF Spec, CursorMonotone

-----------------------------------------------------------------------------
(* Without demotion the applier is the only one that replaces the body of a *)
(* drive that is up.                                                        *)

Growing ==
  /\ up = "up" => tier = "Warm"
  /\ job.kind \in {"save", "apply", "wrap"} => body \subseteq job.body
  /\ job.kind \in {"none", "persist"} => job.body = {}

LEMMA InitGrowing == Init => Growing
  BY SMT DEF Init, Growing, NoJob

LEMMA NextGrowing ==
  ASSUME "demote" \notin Faults, JInv, Growing, [Next]_vars
  PROVE  Growing' /\ (tier = "Warm" /\ tier' = "Warm" => body \subseteq body')
<1> USE DEF volume, loop, shard, stored
<1>1. CASE UNCHANGED <<up, tier, body, job>>
  BY <1>1 DEF Growing
<1>2. CASE Volume \/ Writers \/ UNCHANGED vars
  BY <1>1, <1>2 DEF Volume, Write, Trim, Recreate, CacheLost, Writers, SaveDone, SaveFails, vars
<1>3. CASE Loop
  BY <1>1, <1>3, TickFacts DEF Loop, Fire, PollWrapped
<1>4. CASE Tiering
  BY <1>4 DEF Tiering, Demote, PromoteLoad, PromoteFallback, PromoteSwap, Growing
<1>5. CASE TakeSave \/ TakeApply
  <2>1. PICK n \in 1..Len(chan), k \in {"save", "apply"}, c \in 0..head :
           /\ \/ job' = [kind |-> k, cursor |-> c, body |-> body \cup FirstOf(n)]
              \/ job' = NoJob
              \/ k = "save" /\ job' = PersistJob(c)
           /\ UNCHANGED <<up, shard>>
    BY <1>5, TakeFacts
  <2>2. /\ job'.kind \in {"save", "apply", "wrap"} => body \subseteq job'.body
        /\ job'.kind \in {"none", "persist"} => job'.body = {}
    BY SMT, <2>1 DEF NoJob, PersistJob
  <2> QED
    BY <2>1, <2>2 DEF Growing
<1>6. CASE TakeWrap \/ TakeWrapFails
  <2>1. /\ job' \in {[kind |-> "wrap", cursor |-> 0, body |-> 1..head], job}
        /\ UNCHANGED <<up, shard>>
    BY <1>6 DEF TakeWrap, TakeWrapFails, LiveRead
  <2>2. /\ job'.kind \in {"save", "apply", "wrap"} => body \subseteq job'.body
        /\ job'.kind \in {"none", "persist"} => job'.body = {}
    <3>1. body \subseteq 1..head
      BY DEF JInv, TypeOK
    <3>2. CASE job' = [kind |-> "wrap", cursor |-> 0, body |-> 1..head]
      BY <3>1, <3>2
    <3>3. CASE job' = job
      BY <3>3 DEF Growing
    <3> QED
      BY <2>1, <3>2, <3>3
  <2> QED
    BY <2>1, <2>2 DEF Growing
<1>7. CASE Swap \/ Persist
  <2>1. /\ body' \in {body, job.body} /\ (body' # body => job.kind \in {"save", "apply", "wrap"})
        /\ job' \in {NoJob, PersistJob(job.cursor)} /\ UNCHANGED <<up, tier>>
    BY <1>7 DEF Swap, Persist
  <2>2. job'.kind \notin {"save", "apply", "wrap"} /\ job'.body = {}
    BY SMT, <2>1 DEF NoJob, PersistJob
  <2> QED
    BY <2>1, <2>2 DEF Growing
<1>8. CASE Crash
  BY <1>8 DEF Crash, Growing, NoJob
<1>9. CASE Boot
  <2>1. tier = "Parked" /\ job' = NoJob /\ (up' = "up" => tier' = "Warm")
    BY <1>9 DEF Boot, BootQuery, BootLoad, JInv, AtRest
  <2> QED
    BY <2>1 DEF Growing, NoJob
<1> QED
  BY <1>2, <1>3, <1>4, <1>5, <1>6, <1>7, <1>8, <1>9 DEF Next, Applier

\* Without demotion, the body a search sees never loses a change again, though save, apply
\* and refresh prepare theirs off-lock and swap it in later, and whatever else fails.
THEOREM ServedBodiesGrow == ASSUME "demote" \notin Faults PROVE Spec => ServedBodyGrows
<1>1. Init => JInv /\ Growing
  BY InitJInv, InitGrowing
<1>2. JInv /\ Growing /\ [Next]_vars => JInv' /\ Growing'
  BY NextJInv, NextGrowing
<1>3. JInv /\ Growing /\ [Next]_vars => (tier = "Warm" /\ tier' = "Warm" => body \subseteq body')
  BY NextGrowing
<1> QED
  BY <1>1, <1>2, <1>3, PTL DEF Spec, ServedBodyGrows

-----------------------------------------------------------------------------
(* Where a change is that the loop has read past.                           *)

Lossless == Faults \cap {"demote", "refreshFails", "crash"} = {}

\* A loop that has seen the current journal reads inside it, and what lies before its
\* cursor is on its way or a full refresh is.
Accounted ==
  /\ up = "up"
  /\ lastJid \in {0, jid} => base + cursor <= head
  /\ lastJid \in {0, jid} /\ ~WrapQueued => 1..(base + cursor) \subseteq InFlight

LEMMA InFlightIs ==
  \A x : x \in InFlight <=> \/ x \in body \/ x \in pending \/ x \in job.body
                            \/ \E i \in 1..Len(chan) : x \in chan[i].changes
<1> DEFINE U == UNION {chan[i].changes : i \in 1..Len(chan)}
           E(x) == \E i \in 1..Len(chan) : x \in chan[i].changes
<1>1. \A x : x \in U <=> E(x)
  BY Zenon
<1>2. InFlight = body \cup pending \cup job.body \cup U
  BY DEF InFlight
<1> HIDE DEF U, E
<1>3. \A x : x \in InFlight <=> \/ x \in body \/ x \in pending \/ x \in job.body \/ E(x)
  BY <1>1, <1>2
<1> QED
  BY <1>3 DEF E

LEMMA InFlightWillBe ==
  \A x : x \in InFlight' <=> \/ x \in body' \/ x \in pending' \/ x \in job'.body
                            \/ \E i \in 1..Len(chan') : x \in chan'[i].changes
<1> DEFINE U == UNION {chan'[i].changes : i \in 1..Len(chan')}
           E(x) == \E i \in 1..Len(chan') : x \in chan'[i].changes
<1>1. \A x : x \in U <=> E(x)
  BY Zenon
<1>2. InFlight' = body' \cup pending' \cup job'.body \cup U
  BY DEF InFlight
<1> HIDE DEF U, E
<1>3. \A x : x \in InFlight' <=> \/ x \in body' \/ x \in pending' \/ x \in job'.body \/ E(x)
  BY <1>1, <1>2
<1> QED
  BY <1>3 DEF E

\* It is enough that what was in flight still is and no queued refresh was taken.
LEMMA AccountedKeeps ==
  ASSUME Accounted, UNCHANGED <<up, lastJid, jid, base, cursor>>, head' \in Nat, head <= head',
         JInv, WrapQueued => WrapQueued', InFlight \subseteq InFlight'
  PROVE  Accounted'
<1>1. lastJid' \in {0, jid'} => base' + cursor' <= head'
  BY SMT, NaturalsOK DEF Accounted
<1>2. lastJid' \in {0, jid'} /\ ~WrapQueued' => 1..(base' + cursor') \subseteq InFlight'
  BY DEF Accounted
<1> QED
  BY <1>1, <1>2 DEF Accounted

\* The steps that leave loop, applier and body alone.
LEMMA Elsewhere ==
  ASSUME JInv, Write \/ Trim \/ CacheLost \/ Writers \/ UNCHANGED vars
  PROVE  /\ UNCHANGED <<up, lastJid, jid, base, cursor, chan, body, pending, job>>
         /\ head' \in Nat /\ head <= head' /\ (head' # head => LI!Write)
<1> USE DEF volume, loop, shard, stored
<1>1. CASE Write
  BY SMT, <1>1, NaturalsOK DEF Write, LI!Write
<1>2. CASE Trim \/ CacheLost \/ Writers \/ UNCHANGED vars
  <2>1. UNCHANGED <<head, up, lastJid, jid, base, cursor, chan, body, pending, job>>
    BY <1>2, Zenon DEF Trim, CacheLost, Writers, SaveDone, SaveFails, vars
  <2> QED
    BY SMT, <2>1, NaturalsOK
<1> QED
  BY <1>1, <1>2

\* The first n messages go into the body the applier prepares; the others move up.
LEMMA TakeKeeps ==
  ASSUME JInv, Growing, TakeSave \/ TakeApply
  PROVE  \E n \in 1..Len(chan) :
           /\ UNCHANGED <<head, up, lastJid, jid, base, cursor, body, pending>>
           /\ job.body = {} /\ (body \cup job'.body = body \cup FirstOf(n))
           /\ \A i \in 1..n : chan[i].kind # "wrap"
           /\ Len(chan') = Len(chan) - n
           /\ \A i \in 1..Len(chan') : chan'[i] = chan[i + n]
           /\ \A i \in 1..Len(chan) : i \in 1..n \/ (i - n \in 1..Len(chan') /\ chan'[i - n] = chan[i])
<1>1. PICK n \in 1..Len(chan), k \in {"save", "apply"}, c \in 0..head :
         /\ up = "up" /\ job = NoJob
         /\ \A i \in 1..n : chan[i].kind = k
         /\ chan' = SubSeq(chan, n + 1, Len(chan))
         /\ \/ tier = "Warm" /\ job' = [kind |-> k, cursor |-> c, body |-> body \cup FirstOf(n)]
            \/ tier # "Warm" /\ job' = NoJob
            \/ FirstOf(n) = {} /\ job' = PersistJob(c)
         /\ UNCHANGED <<volume, up, loop, shard>>
  BY TakeFacts
<1>2. body \cup job'.body = body \cup FirstOf(n)
  <2>1. CASE job' = [kind |-> k, cursor |-> c, body |-> body \cup FirstOf(n)]
    BY <2>1
  <2>2. CASE FirstOf(n) = {} /\ job' = PersistJob(c)
    BY <2>2 DEF PersistJob
  <2> QED
    BY <1>1, <2>1, <2>2 DEF Growing
<1>3. n \in 0..Len(chan) /\ Len(chan) \in Nat
  BY SMT, NaturalsOK
<1>4. /\ Len(chan') = Len(chan) - n /\ \A i \in 1..Len(chan') : chan'[i] = chan[i + n]
  BY <1>1, <1>3, Taken
<1>5. \A i \in 1..Len(chan) : i \in 1..n \/ (i - n \in 1..Len(chan') /\ (i - n) + n = i)
  BY SMT, <1>3, <1>4
<1>6. \A i \in 1..Len(chan) : i \in 1..n \/ (i - n \in 1..Len(chan') /\ chan'[i - n] = chan[i])
  BY <1>4, <1>5
<1>7. job.body = {} /\ \A i \in 1..n : chan[i].kind # "wrap"
  BY <1>1 DEF NoJob
<1>8. UNCHANGED <<head, up, lastJid, jid, base, cursor, body, pending>>
  BY <1>1 DEF volume, loop, shard
<1> QED
  BY <1>2, <1>4, <1>6, <1>7, <1>8

LEMMA NextAccounted ==
  ASSUME Lossless, JInv, Growing, Accounted, [Next]_vars
  PROVE  Accounted'
<1> USE NaturalsOK DEF volume, loop, shard, stored
<1>1. CASE Write \/ Trim \/ CacheLost \/ Writers \/ UNCHANGED vars
  <2>1. /\ UNCHANGED <<up, lastJid, jid, base, cursor, chan, body, pending, job>>
        /\ head' \in Nat /\ head <= head'
    BY <1>1, Elsewhere
  <2>2. (WrapQueued' <=> WrapQueued) /\ InFlight' = InFlight
    BY <2>1 DEF WrapQueued, InFlight
  <2> QED
    BY <2>1, <2>2, AccountedKeeps
<1>2. CASE Recreate
  <2>1. /\ lastJid # 0 /\ lastJid' = lastJid /\ jid' = jid + 1 /\ up' = up
    BY <1>2 DEF Recreate, Accounted
  <2>2. lastJid' \notin {0, jid'}
    <3>1. lastJid \in 0..jid
      BY DEF JInv, TypeOK
    <3> QED
      BY SMT, <2>1, <3>1
  <2> QED
    BY <2>1, <2>2 DEF Accounted
<1>3. CASE PollWrapped
  <2>1. /\ chan' = Append(chan, [kind |-> "wrap", changes |-> {}, cursor |-> 0])
        /\ up' = "up" /\ base' = base /\ cursor' = 0 /\ head' = head
    BY <1>3 DEF PollWrapped
  <2>2. Len(chan') = Len(chan) + 1 /\ chan'[Len(chan) + 1].kind = "wrap"
    BY SMT, <2>1
  <2>3. WrapQueued'
    BY SMT, <2>2 DEF WrapQueued
  <2> QED
    BY SMT, <2>1, <2>3 DEF Accounted
<1>4. ASSUME NEW f, PollTick(f) PROVE Accounted'
  <2>1. base + PollCursor <= head /\ PollCursor \in Nat
    BY SMT, <1>4, TickFacts DEF PollCursor, NextUsn, Accounted
  <2>2. 1..(base + PollCursor) \subseteq 1..(base + cursor) \cup PollChanges
    BY SMT, <1>4, TickFacts DEF PollCursor, NextUsn, PollChanges, Accounted
  <2>3. InFlight \cup PollChanges \subseteq InFlight' /\ (WrapQueued => WrapQueued')
    <3>1. CASE chan' = chan
      <4>1. pending \cup PollChanges \subseteq pending'
        BY SMT, <1>4, <3>1, TickFacts
      <4>2. WrapQueued => WrapQueued'
        BY <3>1 DEF WrapQueued
      <4> QED
        BY <1>4, <3>1, <4>1, <4>2, TickFacts, InFlightIs, InFlightWillBe
    <3>2. CASE chan' # chan
      <4>1. PICK m : chan' = Append(chan, m) /\ m.changes = pending \cup PollChanges
        BY SMT, <1>4, <3>2, TickFacts
      <4>2. /\ Len(chan') = Len(chan) + 1 /\ \A i \in 1..Len(chan) : chan'[i] = chan[i]
            /\ chan'[Len(chan) + 1] = m
        BY SMT, <4>1
      <4>3. Len(chan) + 1 \in 1..Len(chan') /\ \A i \in 1..Len(chan) : i \in 1..Len(chan')
        BY SMT, <4>2
      <4>4. WrapQueued => WrapQueued'
        BY <4>2, <4>3 DEF WrapQueued
      <4>5. body' = body /\ job' = job
        BY <1>4, TickFacts
      <4> QED
        BY <4>1, <4>2, <4>3, <4>4, <4>5, InFlightIs, InFlightWillBe
    <3> QED
      BY <3>1, <3>2
  <2>5. up' = "up" /\ base' = base /\ head' = head /\ cursor' = PollCursor
    BY <1>4, TickFacts
  <2> QED
    BY <1>4, <2>1, <2>2, <2>3, <2>5, TickFacts DEF Accounted
<1>5. CASE TakeSave \/ TakeApply
  <2>1. PICK n \in 1..Len(chan) :
           /\ UNCHANGED <<head, up, lastJid, jid, base, cursor, body, pending>>
           /\ job.body = {} /\ (body \cup job'.body = body \cup FirstOf(n))
           /\ \A i \in 1..n : chan[i].kind # "wrap"
           /\ \A i \in 1..Len(chan) : i \in 1..n \/ (i - n \in 1..Len(chan') /\ chan'[i - n] = chan[i])
    BY <1>5, TakeKeeps
  <2>2. WrapQueued => WrapQueued'
    BY <2>1 DEF WrapQueued
  <2>3. \A i \in 1..n : \A x \in chan[i].changes : x \in body' \/ x \in job'.body
    BY <2>1 DEF FirstOf
  <2>4. InFlight \subseteq InFlight'
    BY <2>1, <2>3, InFlightIs, InFlightWillBe
  <2>5. head' \in Nat /\ head <= head'
    BY SMT, <2>1
  <2> QED
    BY <2>1, <2>2, <2>4, <2>5, AccountedKeeps
<1>6. CASE TakeWrap \/ TakeWrapFails
  <2>1. /\ job' = [kind |-> "wrap", cursor |-> 0, body |-> 1..head]
        /\ UNCHANGED <<volume, up, loop, shard>>
    BY <1>6 DEF TakeWrap, TakeWrapFails, LiveRead, Lossless
  <2>2. 1..head \subseteq InFlight'
    BY <2>1, InFlightWillBe
  <2>3. base + cursor <= head => 1..(base + cursor) \subseteq 1..head
    BY SMT
  <2> QED
    BY <2>1, <2>2, <2>3 DEF Accounted
<1>7. CASE Swap
  <2>1. /\ body' = job.body /\ body \subseteq job.body
        /\ UNCHANGED <<volume, up, loop, chan>>
    BY <1>7 DEF Swap, Growing, Accounted
  <2>2. InFlight \subseteq InFlight'
    BY <2>1, InFlightIs, InFlightWillBe
  <2>3. WrapQueued => WrapQueued'
    BY <2>1 DEF WrapQueued
  <2>4. /\ UNCHANGED <<up, lastJid, jid, base, cursor>>
        /\ head' \in Nat /\ head <= head'
    BY SMT, <2>1
  <2> QED
    BY <2>2, <2>3, <2>4, AccountedKeeps
<1>8. CASE Persist
  <2>1. job.body = {} /\ UNCHANGED <<volume, up, loop, chan, body>>
    BY <1>8 DEF Persist, Growing
  <2>2. InFlight \subseteq InFlight'
    BY <2>1, InFlightIs, InFlightWillBe
  <2>3. WrapQueued => WrapQueued'
    BY <2>1 DEF WrapQueued
  <2>4. /\ UNCHANGED <<up, lastJid, jid, base, cursor>>
        /\ head' \in Nat /\ head <= head'
    BY SMT, <2>1
  <2> QED
    BY <2>2, <2>3, <2>4, AccountedKeeps
<1>9. ~Tiering /\ ~Crash /\ ~Boot
  BY DEF Tiering, Demote, PromoteLoad, PromoteFallback, PromoteSwap, Crash, Boot, BootQuery,
         BootLoad, Lossless, Growing, Accounted
<1> QED
  BY <1>1, <1>2, <1>3, <1>4, <1>5, <1>6, <1>7, <1>8, <1>9
  DEF Next, Volume, Loop, Fire, Applier

\* Without demotion, crash and failed refreshes, every change the loop has read past is in
\* the served body or on its way to it, or a full refresh is queued, over trims, recreated
\* journals, failed saves and a lost cache: accept, the triggers, coalescing, patch and
\* swap drop nothing.
THEOREM NothingIsLost == ASSUME Lossless PROVE Spec => []NothingLost
<1>1. Init => JInv /\ Growing /\ Accounted
  <2>1. Init => Accounted
    BY SMT DEF Init, Accounted
  <2> QED
    BY <2>1, InitJInv, InitGrowing
<1>2. JInv /\ Growing /\ Accounted /\ [Next]_vars => (JInv /\ Growing /\ Accounted)'
  BY NextJInv, NextGrowing, NextAccounted DEF Lossless
<1>3. JInv /\ Growing /\ Accounted => NothingLost
  BY DEF Accounted, NothingLost
<1> QED
  BY <1>1, <1>2, <1>3, PTL DEF Spec

-----------------------------------------------------------------------------
(* The changes arrive in order.                                             *)

UpTo(S) == \E k \in 0..head : S = 1..k

\* What the applier holds when it has taken the first n messages.
Held(n) == body \cup job.body \cup FirstOf(n)

\* The served body reflects the changes up to some point, so will every one the applier
\* makes of the messages before a refresh, and so would the one made of all that is in
\* flight.  (A refresh reads everything, whatever is queued behind it.)
Ordered ==
  /\ UpTo(body)
  /\ \A n \in 0..Len(chan) : (\A i \in 1..n : chan[i].kind # "wrap") => UpTo(Held(n))
  /\ lastJid \in {0, jid} /\ ~WrapQueued => UpTo(InFlight)

LEMMA FirstOfIs == ASSUME NEW n PROVE \A x : x \in FirstOf(n) <=> \E i \in 1..n : x \in chan[i].changes
  BY Zenon DEF FirstOf

LEMMA FirstOfWillBe ==
  ASSUME NEW n PROVE \A x : x \in FirstOf(n)' <=> \E i \in 1..n : x \in chan'[i].changes
  BY Zenon DEF FirstOf

\* All messages and the buffer together are what is in flight.
LEMMA HeldAll == ASSUME JInv PROVE InFlight = Held(Len(chan)) \cup pending
  BY DEF InFlight, Held, FirstOf

LEMMA NoChangeHeld ==
  ASSUME UNCHANGED <<body, job, chan>>
  PROVE  \A n : Held(n)' = Held(n)
  BY DEF Held, FirstOf

LEMMA NextOrdered ==
  ASSUME Lossless, JInv, Growing, Accounted, Ordered, [Next]_vars
  PROVE  Ordered' /\ [LI!Next]_<<head, body>>
<1> USE NaturalsOK DEF volume, loop, shard, stored
<1>1. CASE Write \/ Trim \/ CacheLost \/ Writers \/ UNCHANGED vars
  <2>1. /\ UNCHANGED <<lastJid, jid, chan, body, pending, job>>
        /\ head' \in Nat /\ head <= head'
        /\ head' # head => LI!Write
    BY <1>1, Elsewhere
  <2>2. /\ WrapQueued' <=> WrapQueued
        /\ InFlight' = InFlight /\ \A n : Held(n)' = Held(n)
    BY <2>1, NoChangeHeld DEF WrapQueued, InFlight
  <2>3. \A k \in 0..head : k \in 0..head'
    BY SMT, <2>1
  <2>4. UpTo(body)' /\ (lastJid' \in {0, jid'} /\ ~WrapQueued' => UpTo(InFlight)')
    BY <2>1, <2>2, <2>3 DEF Ordered, UpTo
  <2>5. \A n \in 0..Len(chan') : (\A i \in 1..n : chan'[i].kind # "wrap") => UpTo(Held(n))'
    BY <2>1, <2>2, <2>3 DEF Ordered, UpTo
  <2> QED
    BY <2>1, <2>4, <2>5 DEF Ordered, LI!Next
<1>2. CASE Recreate
  <2>1. /\ lastJid # 0 /\ lastJid' = lastJid /\ jid' = jid + 1
        /\ UNCHANGED <<head, body, job, chan>>
    BY <1>2 DEF Recreate, Accounted
  <2>2. lastJid' \notin {0, jid'}
    <3>1. lastJid \in 0..jid
      BY DEF JInv, TypeOK
    <3> QED
      BY SMT, <2>1, <3>1
  <2>3. \A n : Held(n)' = Held(n)
    BY <2>1, NoChangeHeld
  <2> QED
    BY <2>1, <2>2, <2>3 DEF Ordered, UpTo
<1>3. ASSUME NEW m, chan' = Append(chan, m), UNCHANGED <<head, body, job>>,
             m.kind # "wrap" /\ ~WrapQueued => UpTo(body \cup job.body \cup FirstOf(Len(chan)) \cup m.changes)
      PROVE  \A n \in 0..Len(chan') : (\A i \in 1..n : chan'[i].kind # "wrap") => UpTo(Held(n))'
  <2>1. /\ Len(chan') = Len(chan) + 1 /\ \A i \in 1..Len(chan) : chan'[i] = chan[i]
        /\ chan'[Len(chan) + 1] = m
    BY SMT, <1>3
  <2> SUFFICES ASSUME NEW n \in 0..Len(chan'), \A i \in 1..n : chan'[i].kind # "wrap"
               PROVE  UpTo(Held(n)')
    BY <1>3 DEF UpTo
  <2>2. CASE n \in 0..Len(chan)
    <3>1. \A i \in 1..n : i \in 1..Len(chan) /\ chan'[i] = chan[i]
      BY SMT, <2>1, <2>2
    <3>2. Held(n)' = Held(n)
      <4>1. \A x : x \in FirstOf(n)' <=> x \in FirstOf(n)
        BY <3>1, FirstOfIs, FirstOfWillBe
      <4> QED
        BY <1>3, <4>1 DEF Held
    <3> QED
      BY <2>2, <3>1, <3>2 DEF Ordered
  <2>3. CASE n = Len(chan) + 1
    <3>1. /\ \A i \in 1..Len(chan) : i \in 1..n
          /\ n \in 1..n /\ \A i \in 1..n : i \in 1..Len(chan) \/ i = n
      BY SMT, <2>3
    <3>2. m.kind # "wrap" /\ ~WrapQueued
      BY <2>1, <2>3, <3>1 DEF WrapQueued
    <3>3. ASSUME NEW x
          PROVE  x \in FirstOf(n)' <=> x \in FirstOf(Len(chan)) \/ x \in m.changes
      <4>1. /\ x \in FirstOf(n)' <=> \E i \in 1..n : x \in chan'[i].changes
            /\ x \in FirstOf(Len(chan)) <=> \E i \in 1..Len(chan) : x \in chan[i].changes
        BY Zenon DEF FirstOf
      <4>2. chan'[n] = m /\ \A i \in 1..Len(chan) : chan'[i] = chan[i]
        BY <2>1, <2>3
      <4> QED
        BY <3>1, <4>1, <4>2
    <3>4. Held(n)' = body \cup job.body \cup FirstOf(Len(chan)) \cup m.changes
      BY <1>3, <3>3 DEF Held
    <3> QED
      BY <1>3, <3>2, <3>4
  <2> QED
    BY SMT, <2>1, <2>2, <2>3
<1>4. CASE PollWrapped
  <2>1. /\ chan' = Append(chan, [kind |-> "wrap", changes |-> {}, cursor |-> 0])
        /\ UNCHANGED <<head, body, job>>
    BY <1>4 DEF PollWrapped
  <2>2. Len(chan') = Len(chan) + 1 /\ chan'[Len(chan) + 1].kind = "wrap"
    BY SMT, <2>1
  <2>3. WrapQueued'
    BY SMT, <2>2 DEF WrapQueued
  <2>4. \A n \in 0..Len(chan') : (\A i \in 1..n : chan'[i].kind # "wrap") => UpTo(Held(n))'
    BY <1>3, <2>1
  <2> QED
    BY <2>1, <2>3, <2>4 DEF Ordered, UpTo
<1>5. ASSUME NEW f, PollTick(f) PROVE Ordered' /\ UNCHANGED <<head, body>>
  <2>1. ~WrapQueued => UpTo(InFlight \cup PollChanges)
    <3> SUFFICES ASSUME ~WrapQueued PROVE UpTo(InFlight \cup PollChanges)
      OBVIOUS
    <3>1. PICK k \in 0..head : InFlight = 1..k
      BY <1>5, TickFacts DEF Ordered, UpTo
    <3>2. base + cursor \in 0..head /\ 1..(base + cursor) \subseteq 1..k
      BY SMT, <1>5, <3>1, TickFacts DEF Accounted
    <3>3. CASE PollChanges = {}
      BY <3>1, <3>3 DEF UpTo
    <3>4. CASE PollChanges = (base + cursor + 1)..head
      <4>1. InFlight \cup PollChanges = 1..head
        BY SMT, <3>1, <3>2, <3>4
      <4> QED
        BY SMT, <4>1 DEF UpTo
    <3> QED
      BY <3>3, <3>4 DEF PollChanges
  <2>2. UNCHANGED <<head, body, job, jid>> /\ UpTo(body)'
    BY <1>5, TickFacts DEF Ordered, UpTo
  <2>3. CASE chan' = chan
    <3>1. pending' = pending \cup PollChanges
      BY SMT, <1>5, <2>3, TickFacts
    <3>2. InFlight' = InFlight \cup PollChanges
      BY <2>2, <2>3, <3>1, InFlightIs, InFlightWillBe
    <3>3. \A n : Held(n)' = Held(n)
      BY <2>2, <2>3, NoChangeHeld
    <3>4. WrapQueued' <=> WrapQueued
      BY <2>3 DEF WrapQueued
    <3>5. \A n \in 0..Len(chan') : (\A i \in 1..n : chan'[i].kind # "wrap") => UpTo(Held(n))'
      BY <2>2, <2>3, <3>3 DEF Ordered, UpTo
    <3>6. ~WrapQueued' => UpTo(InFlight)'
      BY <2>1, <2>2, <3>2, <3>4 DEF UpTo
    <3> QED
      BY <2>2, <3>5, <3>6 DEF Ordered
  <2>4. CASE chan' # chan
    <3>1. PICK m : chan' = Append(chan, m) /\ m.changes = pending \cup PollChanges /\ m.kind # "wrap"
      BY SMT, <1>5, <2>4, TickFacts
    <3>2. pending' = {}
      BY <1>5, <2>4, TickFacts
    <3>3. InFlight \cup PollChanges = body \cup job.body \cup FirstOf(Len(chan)) \cup m.changes
      BY <3>1, HeldAll DEF Held
    <3>4. \A n \in 0..Len(chan') : (\A i \in 1..n : chan'[i].kind # "wrap") => UpTo(Held(n))'
      BY <1>3, <2>1, <2>2, <3>1, <3>3
    <3>5. /\ Len(chan') = Len(chan) + 1 /\ \A i \in 1..Len(chan) : chan'[i] = chan[i]
          /\ chan'[Len(chan) + 1] = m
      BY SMT, <3>1
    <3>6. \A i \in 1..Len(chan) : i \in 1..Len(chan')
      BY SMT, <3>5
    <3>7. WrapQueued => WrapQueued'
      BY <3>5, <3>6 DEF WrapQueued
    <3>8. InFlight' = InFlight \cup PollChanges
      <4>1. Len(chan) + 1 \in 1..Len(chan') /\ \A i \in 1..Len(chan') : i \in 1..Len(chan) \/ i = Len(chan) + 1
        BY SMT, <3>5
      <4> QED
        BY <2>2, <3>1, <3>2, <3>5, <3>6, <4>1, InFlightIs, InFlightWillBe
    <3>9. ~WrapQueued' => UpTo(InFlight)'
      BY <2>1, <2>2, <3>7, <3>8 DEF UpTo
    <3> QED
      BY <2>2, <3>4, <3>9 DEF Ordered
  <2> QED
    BY <2>2, <2>3, <2>4
<1>6. CASE TakeSave \/ TakeApply
  <2>1. PICK n \in 1..Len(chan) :
           /\ UNCHANGED <<head, up, lastJid, jid, base, cursor, body, pending>>
           /\ job.body = {} /\ (body \cup job'.body = body \cup FirstOf(n))
           /\ \A i \in 1..n : chan[i].kind # "wrap"
           /\ Len(chan') = Len(chan) - n
           /\ \A i \in 1..Len(chan') : chan'[i] = chan[i + n]
           /\ \A i \in 1..Len(chan) : i \in 1..n \/ (i - n \in 1..Len(chan') /\ chan'[i - n] = chan[i])
    BY <1>6, TakeKeeps
  <2>2. /\ job.body = {} /\ \A x : x \in body \/ x \in job'.body <=> x \in body \/ x \in FirstOf(n)
        /\ UNCHANGED <<head, jid, lastJid, body, pending>>
    BY <2>1
  <2>3. /\ Len(chan') = Len(chan) - n /\ \A i \in 1..Len(chan') : chan'[i] = chan[i + n]
    BY <2>1
  <2>4. ASSUME NEW j \in 0..Len(chan')
        PROVE  /\ \A i \in 1..j : i + n \in 1..(j + n) /\ chan'[i] = chan[i + n]
               /\ \A i \in 1..(j + n) : i \in 1..n \/ (i - n \in 1..j /\ chan'[i - n] = chan[i])
    <3>1. \A i \in 1..j : i \in 1..Len(chan') /\ i + n \in 1..(j + n)
      BY SMT, <2>3
    <3>2. \A i \in 1..(j + n) : i \in 1..n \/ (i - n \in 1..j /\ i - n \in 1..Len(chan') /\ (i - n) + n = i)
      BY SMT, <2>3
    <3>3. \A i \in 1..(j + n) : i - n \in 1..Len(chan') => chan'[i - n] = chan[(i - n) + n]
      BY <2>3
    <3> QED
      BY <2>3, <3>1, <3>2, <3>3
  <2>5. ASSUME NEW j \in 0..Len(chan')
        PROVE  Held(j)' = Held(j + n)
    <3>1. \A i \in 1..n : i \in 1..(j + n)
      BY SMT, <2>3
    <3>2. ASSUME NEW x PROVE x \in FirstOf(j + n) <=> x \in FirstOf(n) \/ x \in FirstOf(j)'
      <4>0. /\ \A i \in 1..j : i + n \in 1..(j + n) /\ chan'[i] = chan[i + n]
            /\ \A i \in 1..(j + n) : i \in 1..n \/ (i - n \in 1..j /\ chan'[i - n] = chan[i])
        BY <2>4
      <4>a. /\ x \in FirstOf(j)' <=> \E i \in 1..j : x \in chan'[i].changes
            /\ x \in FirstOf(j + n) <=> \E i \in 1..(j + n) : x \in chan[i].changes
            /\ x \in FirstOf(n) <=> \E i \in 1..n : x \in chan[i].changes
        BY FirstOfIs, FirstOfWillBe, Zenon
      <4>1. x \in FirstOf(j)' => x \in FirstOf(j + n)
        BY <4>0, <4>a
      <4>2. x \in FirstOf(n) => x \in FirstOf(j + n)
        BY <3>1, <4>a
      <4>3. x \in FirstOf(j + n) => x \in FirstOf(n) \/ x \in FirstOf(j)'
        BY <4>0, <4>a
      <4> QED
        BY <4>1, <4>2, <4>3
    <3> QED
      BY <2>2, <3>2 DEF Held
  <2>6. ASSUME NEW j \in 0..Len(chan'), \A i \in 1..j : chan'[i].kind # "wrap"
        PROVE  UpTo(Held(j))'
    <3>1. j + n \in 0..Len(chan) /\ \A i \in 1..(j + n) : chan[i].kind # "wrap"
      <4>1. j + n \in 0..Len(chan)
        BY SMT, <2>3
      <4> QED
        BY <2>1, <2>4, <2>6, <4>1
    <3> QED
      BY <2>2, <2>5, <3>1 DEF Ordered, UpTo
  <2>7. ~WrapQueued' => ~WrapQueued
    BY <2>1 DEF WrapQueued
  <2>8. InFlight' = InFlight
    <3>1. Len(chan') \in 0..Len(chan') /\ Len(chan') + n = Len(chan)
      BY SMT, <2>3
    <3>2. /\ \A i \in 1..Len(chan') : i + n \in 1..Len(chan) /\ chan'[i] = chan[i + n]
          /\ \A i \in 1..Len(chan) : i \in 1..n \/ (i - n \in 1..Len(chan') /\ chan'[i - n] = chan[i])
          /\ \A i \in 1..n : i \in 1..Len(chan)
      <4>1. /\ \A i \in 1..Len(chan') : i + n \in 1..Len(chan)
            /\ \A i \in 1..n : i \in 1..Len(chan)
        BY SMT, <3>1
      <4> QED
        BY <2>1, <4>1
    <3>3. \A x : x \in FirstOf(n) <=> \E i \in 1..n : x \in chan[i].changes
      BY FirstOfIs
    <3>4. ASSUME NEW x PROVE x \in InFlight' <=> x \in InFlight
      <4>1. x \in InFlight' => x \in InFlight
        <5>1. x \in body \/ x \in FirstOf(n) \/ x \in pending => x \in InFlight
          BY <3>2, <3>3, InFlightIs
        <5>2. ASSUME NEW i \in 1..Len(chan'), x \in chan'[i].changes PROVE x \in InFlight
          BY <3>2, <5>2, InFlightIs
        <5> QED
          BY <2>2, <5>1, <5>2, InFlightWillBe
      <4>2. x \in InFlight => x \in InFlight'
        <5>1. x \in body \/ x \in job'.body \/ x \in pending => x \in InFlight'
          BY <2>2, InFlightWillBe
        <5>2. ASSUME NEW i \in 1..Len(chan), x \in chan[i].changes PROVE x \in InFlight'
          <6>1. CASE i \in 1..n
            BY <2>2, <3>3, <5>1, <5>2, <6>1
          <6>2. CASE i - n \in 1..Len(chan') /\ chan'[i - n] = chan[i]
            BY <5>2, <6>2, InFlightWillBe
          <6> QED
            BY <3>2, <6>1, <6>2
        <5> QED
          BY <2>2, <5>1, <5>2, InFlightIs
      <4> QED
        BY <4>1, <4>2
    <3> QED
      BY <3>4 DEF InFlight
  <2> QED
    BY <2>2, <2>6, <2>7, <2>8 DEF Ordered, UpTo
<1>7. CASE TakeWrap \/ TakeWrapFails
  <2>1. /\ job' = [kind |-> "wrap", cursor |-> 0, body |-> 1..head]
        /\ UNCHANGED <<volume, up, loop, shard>>
    BY <1>7 DEF TakeWrap, TakeWrapFails, LiveRead, Lossless
  <2>2. JInv'
    BY NextJInv
  <2>3. \A i \in 1..Len(chan') : chan'[i].changes \subseteq 1..head
    BY <2>1, <2>2 DEF JInv, Bounded
  <2>4. body' \subseteq 1..head /\ pending' \subseteq 1..head /\ job'.body = 1..head
    BY <2>1 DEF JInv, TypeOK
  <2>5. InFlight' = 1..head
    BY <2>3, <2>4, InFlightWillBe
  <2>6. \A n \in 0..Len(chan') : Held(n)' = 1..head
    <3> TAKE n \in 0..Len(chan')
    <3>1. \A i \in 1..n : i \in 1..Len(chan')
      <4>1. Len(chan') \in Nat
        <5>1. chan' \in Seq(Messages)
          BY <2>2 DEF JInv, TypeOK
        <5> QED
          BY SMT, <5>1
      <4> QED
        BY SMT, <4>1
    <3>2. \A x : x \in FirstOf(n)' => x \in 1..head
      BY <2>3, <3>1, FirstOfWillBe
    <3> QED
      BY <2>4, <3>2 DEF Held
  <2>7. UpTo(body)'
    BY <2>1 DEF Ordered, UpTo
  <2>8. head \in 0..head'
    BY SMT, <2>1
  <2>9. UpTo(InFlight)' /\ \A n \in 0..Len(chan') : UpTo(Held(n))'
    BY <2>5, <2>6, <2>8 DEF UpTo
  <2> QED
    BY <2>1, <2>7, <2>9 DEF Ordered
<1>8. CASE Swap \/ Persist
  <2>1. /\ job'.body = {} /\ UNCHANGED <<head, jid, lastJid, chan, pending>>
        /\ \/ body' = job.body /\ body \subseteq job.body
           \/ body' = body /\ job.body = {}
    <3>1. CASE Swap
      BY SMT, <3>1 DEF Swap, NoJob, PersistJob, Growing, Accounted
    <3>2. CASE Persist
      BY <3>2 DEF Persist, NoJob, Growing
    <3> QED
      BY <1>8, <3>1, <3>2
  <2>2. \A n : Held(n)' = Held(n)
    <3> TAKE n
    <3>1. \A x : x \in FirstOf(n)' <=> x \in FirstOf(n)
      BY <2>1, FirstOfIs, FirstOfWillBe
    <3> QED
      BY <2>1, <3>1 DEF Held
  <2>3. InFlight' = InFlight /\ (WrapQueued' <=> WrapQueued)
    <3>1. WrapQueued' <=> WrapQueued
      BY <2>1 DEF WrapQueued
    <3> QED
      BY <2>1, <3>1, InFlightIs, InFlightWillBe
  <2>4. PICK k \in 0..head : body' = 1..k
    <3>1. Held(0) = body'
      <4>1. FirstOf(0) = {}
        BY SMT DEF FirstOf
      <4> QED
        BY <2>1, <4>1 DEF Held
    <3>2. 0 \in 0..Len(chan) /\ \A i \in 1..0 : chan[i].kind # "wrap"
      BY SMT
    <3> QED
      BY <3>1, <3>2 DEF Ordered, UpTo
  <2>5. body \subseteq body'
    BY <2>1
  <2>6. LI!Publish
    BY <2>1, <2>4, <2>5 DEF LI!Publish
  <2>7. UpTo(body)' /\ (lastJid' \in {0, jid'} /\ ~WrapQueued' => UpTo(InFlight)')
    BY <2>1, <2>3, <2>4 DEF Ordered, UpTo
  <2>8. \A n \in 0..Len(chan') : (\A i \in 1..n : chan'[i].kind # "wrap") => UpTo(Held(n))'
    BY <2>1, <2>2 DEF Ordered, UpTo
  <2> QED
    BY <2>6, <2>7, <2>8 DEF Ordered, LI!Next
<1>9. ~Tiering /\ ~Crash /\ ~Boot
  BY DEF Tiering, Demote, PromoteLoad, PromoteFallback, PromoteSwap, Crash, Boot, BootQuery,
         BootLoad, Lossless, Growing, Accounted
<1> QED
  BY <1>1, <1>2, <1>4, <1>5, <1>6, <1>7, <1>8, <1>9
  DEF Next, Volume, Loop, Fire, Applier

\* Without demotion, crash and failed refreshes, the pipeline publishes the changes of the
\* volume in order and without holes and takes none back: the safety part of what LiveIndex
\* promises to searches, refined step by step (Swap publishes, the volume writes, all other
\* steps stutter).
THEOREM PublishesInOrder == ASSUME Lossless PROVE Spec => LI!Safety
<1> DEFINE I == JInv /\ Growing /\ Accounted /\ Ordered
<1>1. Init => I /\ LI!Init
  <2>1. Init => Accounted /\ LI!Init
    BY SMT DEF Init, Accounted, LI!Init
  <2>2. Init => Ordered
    <3> SUFFICES ASSUME Init PROVE Ordered
      OBVIOUS
    <3>1. UpTo({})
      <4>1. {} = 1..0 /\ 0 \in 0..head
        BY SMT DEF Init
      <4> QED
        BY <4>1 DEF UpTo
    <3>2. body = {} /\ job.body = {} /\ pending = {} /\ Len(chan) = 0
      BY DEF Init, NoJob
    <3>3. FirstOf(0) = {} /\ InFlight = {}
      BY SMT, <3>2 DEF FirstOf, InFlight
    <3>4. Held(0) = {} /\ \A n \in 0..Len(chan) : n = 0
      BY SMT, <3>2, <3>3 DEF Held
    <3> QED
      BY <3>1, <3>2, <3>3, <3>4 DEF Ordered
  <2> QED
    BY <2>1, <2>2, InitJInv, InitGrowing
<1>2. I /\ [Next]_vars => I' /\ [LI!Next]_<<head, body>>
  BY NextJInv, NextGrowing, NextAccounted, NextOrdered DEF Lossless
<1> QED
  BY <1>1, <1>2, PTL DEF Spec, LI!Safety

=============================================================================
