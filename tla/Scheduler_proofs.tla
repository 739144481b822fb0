-------------------------- MODULE Scheduler_proofs --------------------------
(***************************************************************************)
(* Type correctness, NoSlotSkipped and SlotsInOrder of Scheduler, for any   *)
(* number of processes, versions and slots, any caps and any faults.       *)
(***************************************************************************)
EXTENDS Scheduler, TLAPS

\* The process works on slots of a row it has read.
Firing == {"enqueue", "verify", "store"}
Enqueuing == {"enqueue", "verify"}

\* What a process holds is typed, comes from a row, and has a slot to enqueue.
Sound(p) ==
    /\ p \in Process
    /\ p.pc \in Firing => p.seen \in Row
    /\ p.pc \in Enqueuing => p.at <= p.upto

AllSound == sch \in [Scheduler -> Process] /\ \A s \in Scheduler : Sound(sch[s])

TInv == TypeOK /\ AllSound

LEMMA VersionTyped == Version \subseteq Nat \ {0} /\ 1 \in Version
BY SchedulerAssumption DEF SchedulerAssumption

LEMMA BoundsTyped ==
    /\ MaxCatchUp \in Nat \ {0} /\ MaxScan \in Nat \ {0}
    /\ CheckEvery \in Nat \ {0} /\ MaxTime \in Nat \ {0} /\ MaxFaults \in Nat
BY SchedulerAssumption DEF SchedulerAssumption

LEMMA AbsentIsNoRow == Absent \notin Row
BY SchedulerAssumption DEF SchedulerAssumption, Row

\* A step that moves one process to a sound position keeps all of them sound.
LEMMA OneMoves ==
    ASSUME AllSound, NEW s \in Scheduler, NEW p, Sound(p),
           sch' = [sch EXCEPT ![s] = p]
    PROVE  AllSound'
<1>1. p \in Process BY DEF Sound
<1>2. sch' \in [Scheduler -> Process] BY <1>1 DEF AllSound
<1>3. ASSUME NEW q \in Scheduler PROVE Sound(sch'[q])
  BY <1>3 DEF AllSound, Sound
<1> QED BY <1>2, <1>3 DEF AllSound, Sound

\* A process that rests is sound.
LEMMA RestIsSound ==
    ASSUME NEW v \in Version, NEW n \in 0..CheckEvery, NEW pc \in Pcs, pc \notin Firing
    PROVE  Sound(Waiting(pc, v, n))
BY BoundsTyped DEF Sound, Waiting, Process, Time, Firing, Enqueuing

\* A process that goes on to a position outside of the batch is sound.
LEMMA MoveIsSound ==
    ASSUME NEW p, Sound(p), NEW pc \in Pcs, pc \notin Firing
    PROVE  Sound([p EXCEPT !.pc = pc])
BY DEF Sound, Process, Firing, Enqueuing

LEMMA TypeInit == Init => TInv
<1> SUFFICES ASSUME Init PROVE TInv OBVIOUS
<1>1. [next |-> 1, hash |-> 1] \in Row BY VersionTyped, BoundsTyped DEF Row
<1>2. ASSUME NEW s \in Scheduler PROVE Sound(Waiting("down", 1, 0))
  BY RestIsSound, VersionTyped, BoundsTyped DEF Pcs, Firing
<1>3. AllSound BY <1>2 DEF Init, AllSound, Sound
<1>4. TypeOK BY <1>1, <1>3, BoundsTyped DEF Init, TypeOK, AllSound, Time
<1> QED BY <1>3, <1>4 DEF TInv

\* Reset writes a row.
LEMMA ResetTyped ==
    ASSUME TInv, NEW s \in Scheduler, Reset(s)
    PROVE  row' \in Row /\ first' \in 0..(MaxTime + 1) /\ steady' \in BOOLEAN
<1>1. sch[s].now \in Time /\ sch[s].ver \in Version BY DEF TInv, TypeOK, Process
<1>2. row' \in Row BY <1>1, BoundsTyped DEF Reset, Fresh, Row, Time
<1>3. first' \in 0..(MaxTime + 1)
  BY <1>1, BoundsTyped DEF Reset, Max2, Time, TInv, TypeOK
<1> QED BY <1>2, <1>3 DEF Reset

\* Due moves one process, and to a sound position.
LEMMA DueSound ==
    ASSUME TInv, NEW s \in Scheduler, NEW now \in Time, NEW n \in 0..CheckEvery,
           Due(s, now, n)
    PROVE  AllSound'
<1>1. Sound(sch[s]) /\ AllSound BY DEF TInv, AllSound
<1>2. Sound(Waiting("idle", sch[s].ver, n))
  BY <1>1, RestIsSound DEF Sound, Process, Pcs, Firing
<1>3. Sound([sch[s] EXCEPT !.pc = "lock", !.now = now, !.left = n])
  BY <1>1 DEF Sound, Process, Pcs, Firing, Enqueuing
<1> DEFINE p == IF row # Absent /\ row.next <= now
                  THEN [sch[s] EXCEPT !.pc = "lock", !.now = now, !.left = n]
                  ELSE Waiting("idle", sch[s].ver, n)
<1>4. sch' = [sch EXCEPT ![s] = p] BY DEF Due
<1>5. Sound(p) BY <1>2, <1>3
<1> HIDE DEF p
<1> QED BY <1>1, <1>4, <1>5, OneMoves

\* Handled: the next slot of the batch exists, or the batch ends.
LEMMA HandledSound ==
    ASSUME TInv, NEW s \in Scheduler, sch[s].pc \in Enqueuing, Handled(s)
    PROVE  AllSound'
<1>1. Sound(sch[s]) /\ AllSound BY DEF TInv, AllSound
<1> DEFINE p == [sch[s] EXCEPT !.at = sch[s].at + 1,
                   !.pc = IF sch[s].at < sch[s].upto THEN "enqueue" ELSE "store"]
<1>2. sch' = [sch EXCEPT ![s] = p] BY DEF Handled
<1>3. sch[s].at + 1 \in 1..(MaxTime + 1)
  BY <1>1, BoundsTyped DEF Sound, Process, Time
<1>4. p \in Process BY <1>1, <1>3 DEF Sound, Process, Pcs
<1>5. p.at = sch[s].at + 1 /\ p.upto = sch[s].upto /\ p.seen = sch[s].seen
      /\ p.pc = IF sch[s].at < sch[s].upto THEN "enqueue" ELSE "store"
  BY <1>1 DEF Sound, Process
<1>6. sch[s].at \in Int /\ sch[s].upto \in Int /\ sch[s].seen \in Row
  BY <1>1, BoundsTyped DEF Sound, Process, Time, Firing, Enqueuing
<1>7. Sound(p)
  <2> HIDE DEF p
  <2> QED BY <1>4, <1>5, <1>6 DEF Sound, Enqueuing
<1> HIDE DEF p
<1> QED BY <1>1, <1>2, <1>7, OneMoves

LEMMA GotoSound ==
    ASSUME TInv, NEW s \in Scheduler, NEW pc \in Pcs, Goto(s, pc),
           pc \notin Firing \/ (pc = "verify" /\ sch[s].pc = "enqueue")
             \/ (pc = "store" /\ sch[s].pc \in Firing)
    PROVE  AllSound'
<1>1. Sound(sch[s]) /\ AllSound BY DEF TInv, AllSound
<1>2. Sound([sch[s] EXCEPT !.pc = pc])
  BY <1>1 DEF Sound, Process, Firing, Enqueuing
<1>3. sch' = [sch EXCEPT ![s] = [sch[s] EXCEPT !.pc = pc]] BY DEF Goto
<1> QED BY <1>1, <1>2, <1>3, OneMoves

LEMMA RestSound ==
    ASSUME TInv, NEW s \in Scheduler, Rest(s)
    PROVE  AllSound'
<1>1. Sound(sch[s]) /\ AllSound BY DEF TInv, AllSound
<1>2. Sound(Waiting("idle", sch[s].ver, sch[s].left))
  BY <1>1, RestIsSound DEF Sound, Process, Pcs, Firing
<1>3. sch' = [sch EXCEPT ![s] = Waiting("idle", sch[s].ver, sch[s].left)]
  BY DEF Rest
<1> QED BY <1>1, <1>2, <1>3, OneMoves

LEMMA GiveUpSound ==
    ASSUME TInv, NEW s \in Scheduler, sch[s].pc \in Enqueuing, GiveUp(s)
    PROVE  AllSound'
BY GotoSound DEF GiveUp, Pcs, Firing, Enqueuing

\* A process that begins a batch is sound.
LEMMA BatchIsSound ==
    ASSUME NEW p, Sound(p), NEW r \in Row, NEW a \in 1..(MaxTime + 1),
           NEW u \in Time, a <= u
    PROVE  Sound([p EXCEPT !.pc = "enqueue", !.seen = r, !.at = a, !.upto = u])
BY DEF Sound, Process, Pcs, Firing, Enqueuing

\* The process steps that write nothing but their own position.
LEMMA ReadStateSound ==
    ASSUME TInv, NEW s \in Scheduler, ReadState(s)
    PROVE  AllSound'
<1>1. Sound(sch[s]) /\ AllSound /\ sch[s].now \in 0..MaxTime
  BY DEF TInv, AllSound, Sound, Process, Time
<1> DEFINE at == LatestDue(row.next, sch[s].now)
           p == IF row = Absent THEN [sch[s] EXCEPT !.pc = "fresh"]
                ELSE IF ~Unserved(s) THEN [sch[s] EXCEPT !.pc = "release"]
                ELSE IF catchUp
                  THEN [sch[s] EXCEPT !.pc = "enqueue", !.seen = row, !.at = row.next,
                                      !.upto = LastMissed(row.next, sch[s].now)]
                ELSE IF ScanReaches(row.next, sch[s].now)
                  THEN [sch[s] EXCEPT !.pc = "enqueue", !.seen = row, !.at = at, !.upto = at]
                ELSE [sch[s] EXCEPT !.pc = "store", !.seen = row, !.at = at + 1]
<1>2. sch' = [sch EXCEPT ![s] = p] BY DEF ReadState
<1>3. Sound([sch[s] EXCEPT !.pc = "fresh"]) /\ Sound([sch[s] EXCEPT !.pc = "release"])
  BY <1>1, MoveIsSound DEF Pcs, Firing
<1>4. ASSUME row # Absent, Unserved(s)
      PROVE  /\ row \in Row /\ row.next \in 1..MaxTime
             /\ LastMissed(row.next, sch[s].now) \in row.next..MaxTime
             /\ at \in 1..MaxTime
  <2>1. row \in Row /\ row.next \in 1..(MaxTime + 1) /\ row.next <= sch[s].now
    BY <1>4 DEF TInv, TypeOK, Row, Unserved
  <2> QED BY <1>1, <2>1, BoundsTyped DEF LastMissed, LatestDue, Min2
<1>5. ASSUME row # Absent, Unserved(s)
      PROVE  Sound([sch[s] EXCEPT !.pc = "enqueue", !.seen = row, !.at = row.next,
                                  !.upto = LastMissed(row.next, sch[s].now)])
  <2> DEFINE n == row.next
             u == LastMissed(row.next, sch[s].now)
  <2>1. u \in Time /\ n <= u BY <1>4, <1>5, BoundsTyped DEF Time
  <2>2. row \in Row /\ n \in 1..(MaxTime + 1) BY <1>4, <1>5, BoundsTyped
  <2> HIDE DEF n, u
  <2>3. Sound([sch[s] EXCEPT !.pc = "enqueue", !.seen = row, !.at = n, !.upto = u])
    BY <1>1, <2>1, <2>2, BatchIsSound
  <2> QED BY <2>3 DEF n, u
<1>6. ASSUME row # Absent, Unserved(s)
      PROVE  /\ Sound([sch[s] EXCEPT !.pc = "enqueue", !.seen = row, !.at = at, !.upto = at])
             /\ Sound([sch[s] EXCEPT !.pc = "store", !.seen = row, !.at = at + 1])
  <2>1. at \in Time /\ at \in 1..(MaxTime + 1) /\ at + 1 \in 1..(MaxTime + 1) /\ at <= at
    BY <1>4, <1>6, BoundsTyped DEF Time
  <2>2. row \in Row BY <1>4, <1>6
  <2> HIDE DEF at
  <2> QED BY <1>1, <2>1, <2>2 DEF Sound, Process, Pcs, Firing, Enqueuing
<1>7. Sound(p) BY <1>3, <1>5, <1>6
<1> HIDE DEF p
<1> QED BY <1>1, <1>2, <1>7, OneMoves

LEMMA StartSound ==
    ASSUME TInv, NEW s \in Scheduler, Start(s)
    PROVE  AllSound'
<1>1. PICK v \in Version : sch' = [sch EXCEPT ![s] =
             IF row # Absent /\ row.hash = v
               THEN Waiting("idle", v, 0)
               ELSE [Waiting("init", v, 0) EXCEPT !.now = clock]]
  BY DEF Start
<1>2. Sound(Waiting("idle", v, 0)) /\ Sound(Waiting("init", v, 0))
  BY RestIsSound, BoundsTyped DEF Pcs, Firing
<1>3. Sound([Waiting("init", v, 0) EXCEPT !.now = clock])
  BY <1>2, clock \in Time DEF TInv, TypeOK, Sound, Waiting, Process, Firing, Enqueuing
<1> QED BY <1>1, <1>2, <1>3, OneMoves DEF TInv

LEMMA TickSound ==
    ASSUME TInv, NEW s \in Scheduler, Tick(s)
    PROVE  AllSound'
<1>1. Sound(sch[s]) /\ AllSound /\ clock \in Time /\ sch[s].left \in 0..CheckEvery
  BY DEF TInv, TypeOK, AllSound, Sound, Process
<1> DEFINE left == (IF sch[s].left = 0 THEN CheckEvery ELSE sch[s].left) - 1
<1>2. left \in 0..CheckEvery BY <1>1, BoundsTyped
<1>3. CASE sch[s].left = 0 /\ row = Absent
  <2>1. Sound([sch[s] EXCEPT !.pc = "heal", !.now = clock, !.left = left])
    <3> HIDE DEF left
    <3> QED BY <1>1, <1>2 DEF Sound, Process, Pcs, Firing, Enqueuing
  <2>2. sch' = [sch EXCEPT ![s] = [sch[s] EXCEPT !.pc = "heal", !.now = clock, !.left = left]]
    BY <1>3 DEF Tick
  <2> QED BY <1>1, <2>1, <2>2, OneMoves
<1>4. CASE ~(sch[s].left = 0 /\ row = Absent)
  <2>1. Due(s, clock, left) BY <1>4 DEF Tick
  <2> QED BY <1>1, <1>2, <2>1, DueSound
<1> QED BY <1>3, <1>4

\* The tables keep their types when a slot is inserted.
LEMMA InsertTyped ==
    ASSUME TInv, NEW s \in Scheduler, sch[s].pc \in Enqueuing
    PROVE  /\ sch[s].at \in Slot /\ sch[s].ver \in Version
           /\ Insert(sch[s].at, sch[s].ver) => live' \in [Slot -> Version \cup {0}]
<1>1. sch[s].at \in Slot /\ sch[s].ver \in Version
  BY BoundsTyped DEF TInv, AllSound, Sound, Process, Time, Slot
<1> QED BY <1>1 DEF Insert, TInv, TypeOK

\* Every step of a process keeps the types.
LEMMA TypeServe ==
    ASSUME TInv, NEW s \in Scheduler, Serve(s)
    PROVE  TInv'
<1> USE BoundsTyped
<1>1. CASE Start(s)
  <2>1. AllSound' BY <1>1, StartSound
  <2>2. faults' \in 0..MaxFaults BY <1>1, VersionTyped DEF Start, TInv, TypeOK
  <2> QED BY <1>1, <2>1, <2>2 DEF Start, tables, TInv, TypeOK, AllSound
<1>2. CASE Initialize(s)
  <2>1. AllSound' BY <1>2, RestSound DEF Initialize
  <2> QED BY <1>2, <2>1, ResetTyped DEF Initialize, tables, TInv, TypeOK, AllSound
<1>3. CASE Tick(s)
  <2>1. AllSound' BY <1>3, TickSound
  <2> QED BY <1>3, <2>1 DEF Tick, tables, TInv, TypeOK, AllSound
<1>4. CASE Heal(s)
  <2>1. sch[s].now \in Time /\ sch[s].left \in 0..CheckEvery
    BY DEF TInv, AllSound, Sound, Process
  <2>2. AllSound' BY <1>4, <2>1, RestSound, DueSound DEF Heal
  <2> QED BY <1>4, <2>2, ResetTyped DEF Heal, tables, TInv, TypeOK, AllSound
<1>5. CASE TryLock(s)
  <2>1. AllSound'
    BY <1>5, RestSound, GotoSound, "read" \in Pcs, "read" \notin Firing
    DEF TryLock, Pcs, Firing
  <2> QED BY <1>5, <2>1 DEF TryLock, tables, TInv, TypeOK, AllSound
<1>6. CASE ReadState(s)
  <2>1. AllSound' BY <1>6, ReadStateSound
  <2> QED BY <1>6, <2>1 DEF ReadState, tables, TInv, TypeOK, AllSound
<1>7. CASE Recreate(s)
  <2>1. AllSound' BY <1>7, GotoSound DEF Recreate, Pcs, Firing
  <2> QED BY <1>7, <2>1, ResetTyped DEF Recreate, tables, TInv, TypeOK, AllSound
<1>8. CASE Enqueue(s)
  <2>1. sch[s].pc = "enqueue" /\ sch[s].pc \in Enqueuing
    BY <1>8 DEF Enqueue, At, Enqueuing
  <2>2. AllSound'
    <3>1. CASE Handled(s) BY <2>1, <3>1, HandledSound
    <3>2. CASE Goto(s, "verify") BY <2>1, <3>2, GotoSound DEF Pcs
    <3> QED BY <1>8, <3>1, <3>2 DEF Enqueue
  <2>3. live' \in [Slot -> Version \cup {0}]
    BY <1>8, <2>1, InsertTyped DEF Enqueue, TInv, TypeOK
  <2> QED BY <1>8, <2>2, <2>3 DEF Enqueue, TInv, TypeOK, AllSound
<1>9. CASE Verify(s)
  <2>1. sch[s].pc \in Enqueuing BY <1>9 DEF Verify, At, Enqueuing
  <2>2. AllSound' BY <1>9, <2>1, HandledSound, GiveUpSound DEF Verify
  <2> QED BY <1>9, <2>2 DEF Verify, tables, TInv, TypeOK, AllSound
<1>10. CASE Store(s)
  <2>1. AllSound' BY <1>10, GotoSound DEF Store, Pcs, Firing
  <2>2. sch[s].pc \in Firing BY <1>10 DEF Store, At, Firing
  <2>3. sch[s].seen \in Row /\ sch[s].at \in 1..(MaxTime + 1)
    BY <2>2 DEF TInv, AllSound, Sound, Process
  <2>4. row' \in Row BY <1>10, <2>3 DEF Store, Row
  <2> QED BY <1>10, <2>1, <2>4 DEF Store, tables, TInv, TypeOK, AllSound
<1>11. CASE Release(s)
  <2>1. AllSound' BY <1>11, RestSound DEF Release
  <2> QED BY <1>11, <2>1 DEF Release, Unlock, tables, TInv, TypeOK, AllSound
<1> QED
  BY <1>1, <1>2, <1>3, <1>4, <1>5, <1>6, <1>7, <1>8, <1>9, <1>10, <1>11 DEF Serve

LEMMA TypeFault ==
    ASSUME TInv, NEW s \in Scheduler, Fault(s)
    PROVE  TInv'
<1> USE BoundsTyped
<1>1. CASE HealFails(s)
  <2>1. sch[s].now \in Time /\ 0 \in 0..CheckEvery
    BY DEF TInv, AllSound, Sound, Process
  <2>2. AllSound' BY <1>1, <2>1, DueSound DEF HealFails
  <2> QED BY <1>1, <2>2 DEF HealFails, tables, TInv, TypeOK, AllSound
<1>2. CASE EnqueueFails(s)
  <2>1. sch[s].pc \in Enqueuing BY <1>2 DEF EnqueueFails, At, Enqueuing
  <2>2. AllSound' BY <1>2, <2>1, GiveUpSound DEF EnqueueFails
  <2>3. live' \in [Slot -> Version \cup {0}]
    BY <1>2, <2>1, InsertTyped DEF EnqueueFails, TInv, TypeOK
  <2> QED BY <1>2, <2>2, <2>3 DEF EnqueueFails, TInv, TypeOK, AllSound
<1>3. CASE StoreFails(s)
  <2>1. AllSound' BY <1>3, GotoSound DEF StoreFails, Pcs, Firing
  <2> QED BY <1>3, <2>1 DEF StoreFails, tables, TInv, TypeOK, AllSound
<1>4. CASE Crash(s)
  <2>1. sch[s].ver \in Version BY DEF TInv, AllSound, Sound, Process
  <2>2. Sound(Waiting("down", sch[s].ver, 0)) BY <2>1, RestIsSound DEF Pcs, Firing
  <2>3. sch' = [sch EXCEPT ![s] = Waiting("down", sch[s].ver, 0)] BY <1>4 DEF Crash
  <2>4. AllSound' BY <2>2, <2>3, OneMoves DEF TInv
  <2> QED BY <1>4, <2>4 DEF Crash, Unlock, tables, TInv, TypeOK, AllSound
<1> QED BY <1>1, <1>2, <1>3, <1>4 DEF Fault

\* The surroundings write no position.
LEMMA TypeOther ==
    ASSUME TInv, LoseLock \/ DeleteRow \/ Advance \/ \E k \in Slot : Run(k)
    PROVE  TInv'
<1> USE BoundsTyped
<1>1. CASE LoseLock BY <1>1 DEF LoseLock, tables, TInv, TypeOK, AllSound, Sound
<1>2. CASE DeleteRow BY <1>2 DEF DeleteRow, tables, TInv, TypeOK, AllSound, Sound
<1>3. CASE Advance BY <1>3 DEF Advance, tables, TInv, TypeOK, AllSound, Sound, Time
<1>4. CASE \E k \in Slot : Run(k)
  <2>1. PICK k \in Slot : Run(k) BY <1>4
  <2>2. runs' \in [Slot -> 0..2] BY <2>1 DEF Run, TInv, TypeOK
  <2>3. live' \in [Slot -> Version \cup {0}] BY <2>1 DEF Run, TInv, TypeOK
  <2> QED BY <2>1, <2>2, <2>3 DEF Run, TInv, TypeOK, AllSound, Sound
<1> QED BY <1>1, <1>2, <1>3, <1>4

LEMMA TypeStep == TInv /\ [Next]_vars => TInv'
<1> SUFFICES ASSUME TInv, [Next]_vars PROVE TInv' OBVIOUS
<1>1. CASE UNCHANGED vars
  BY <1>1 DEF vars, tables, TInv, TypeOK, AllSound, Sound
<1> QED BY <1>1, TypeServe, TypeFault, TypeOther DEF Next

\* Every variable keeps its type (Init, Next).
THEOREM TypeCorrect == Spec => []TypeOK
<1>1. TInv => TypeOK BY DEF TInv
<1> QED BY <1>1, TypeInit, TypeStep, PTL DEF Spec

----------------------------------------------------------------------------
(* No slot is lost.  A process may be slow or have lost its lock, so each   *)
(* one must carry the fact that everything below its slot was enqueued.     *)

\* Every slot promised below n was enqueued.
Served(n) == \A k \in first..(n - 1) : k \in Fired

SkipInv ==
    /\ TInv
    /\ catchUp /\ row # Absent => Served(row.next)
    /\ \A s \in Scheduler : catchUp /\ sch[s].pc \in Firing => Served(sch[s].at)

\* What was enqueued stays so, promises are only withdrawn.
LEMMA FiredStays ==
    ASSUME TInv, Next
    PROVE  /\ Fired \subseteq Fired' /\ catchUp' = catchUp
           /\ first' \in Int /\ first \in Int /\ first <= first'
<1> USE DEF Fired, History
<1>1. first \in Int BY BoundsTyped DEF TInv, TypeOK
<1>2. ASSUME NEW s \in Scheduler, Reset(s) PROVE first' \in Int /\ first <= first'
  <2>1. sch[s].now \in Int BY BoundsTyped DEF TInv, TypeOK, Process, Time
  <2> QED BY <1>1, <1>2, <2>1 DEF Reset, Max2
<1>3. ASSUME NEW s \in Scheduler, sch[s].pc \in Enqueuing, Insert(sch[s].at, sch[s].ver)
      PROVE  \A k \in Slot : live[k] # 0 => live'[k] # 0
  BY <1>3, InsertTyped, VersionTyped DEF Insert, TInv, TypeOK
<1>4. ASSUME NEW s \in Scheduler, Serve(s)
      PROVE  Fired \subseteq Fired' /\ catchUp' = catchUp /\ first' \in Int /\ first <= first'
  <2>1. CASE Enqueue(s)
    <3>1. sch[s].pc \in Enqueuing BY <2>1 DEF Enqueue, At, Enqueuing
    <3>2. live' = live \/ Insert(sch[s].at, sch[s].ver) BY <2>1 DEF Enqueue
    <3> QED BY <1>1, <1>3, <2>1, <3>1, <3>2 DEF Enqueue
  <2>2. CASE Initialize(s) \/ Heal(s) \/ Recreate(s)
    BY <1>1, <1>2, <2>2 DEF Initialize, Heal, Recreate, tables
  <2>3. CASE Start(s) \/ Tick(s) \/ TryLock(s) \/ ReadState(s) \/ Verify(s)
             \/ Store(s) \/ Release(s)
    BY <1>1, <2>3 DEF Start, Tick, TryLock, ReadState, Verify, Store, Release, tables
  <2> QED BY <1>4, <2>1, <2>2, <2>3 DEF Serve
<1>5. ASSUME NEW s \in Scheduler, Fault(s)
      PROVE  Fired \subseteq Fired' /\ catchUp' = catchUp /\ first' \in Int /\ first <= first'
  <2>1. CASE EnqueueFails(s)
    <3>1. sch[s].pc \in Enqueuing BY <2>1 DEF EnqueueFails, At, Enqueuing
    <3>2. live' = live \/ Insert(sch[s].at, sch[s].ver) BY <2>1 DEF EnqueueFails
    <3> QED BY <1>1, <1>3, <2>1, <3>1, <3>2 DEF EnqueueFails
  <2>2. CASE HealFails(s) \/ StoreFails(s) \/ Crash(s)
    BY <1>1, <2>2 DEF HealFails, StoreFails, Crash, tables
  <2> QED BY <1>5, <2>1, <2>2 DEF Fault
<1>6. ASSUME NEW k \in Slot, Run(k)
      PROVE  Fired \subseteq Fired' /\ catchUp' = catchUp /\ first' \in Int /\ first <= first'
  <2>1. \A j \in Slot : runs[j] > 0 => runs'[j] > 0 BY <1>6 DEF Run, TInv, TypeOK
  <2>2. \A j \in Slot : live[j] # 0 => live'[j] # 0 \/ runs'[j] > 0
    BY <1>6 DEF Run, TInv, TypeOK
  <2> QED BY <1>1, <1>6, <2>1, <2>2 DEF Run
<1>7. CASE LoseLock \/ DeleteRow \/ Advance
  BY <1>1, <1>7 DEF LoseLock, DeleteRow, Advance, tables
<1> HIDE DEF Fired, History
<1> QED BY <1>1, <1>4, <1>5, <1>6, <1>7 DEF Next

LEMMA ServedStays ==
    ASSUME TInv, Next
    PROVE  \A n \in Int : Served(n) => \A k \in first'..(n - 1) : k \in Fired'
BY FiredStays DEF Served

\* Enqueuing its slot, a process has served everything up to it.
LEMMA HandledServes ==
    ASSUME SkipInv, Next, NEW s \in Scheduler, catchUp, sch[s].pc \in Firing,
           sch[s].at \in Fired'
    PROVE  \A k \in first'..sch[s].at : k \in Fired'
<1>1. sch[s].at \in Int /\ Served(sch[s].at)
  BY BoundsTyped DEF SkipInv, TInv, AllSound, Sound, Process
<1>2. first' \in Int BY FiredStays DEF SkipInv
<1>3. \A k \in first'..(sch[s].at - 1) : k \in Fired' BY <1>1, ServedStays DEF SkipInv
<1> QED BY <1>1, <1>2, <1>3

\* The stored slot after a step: it was stored before, or is that of a fresh
\* row, or of a process that stores its progress.
LEMMA NextServed ==
    ASSUME SkipInv, Next, catchUp, row' # Absent
    PROVE  \A k \in first'..(row'.next - 1) : k \in Fired'
<1>0. first' \in Int BY FiredStays DEF SkipInv
<1>1. CASE row' = row
  <2>1. row \in Row /\ row.next \in Int /\ Served(row.next)
    BY <1>1, BoundsTyped DEF SkipInv, TInv, TypeOK, Row
  <2> QED BY <1>1, <2>1, ServedStays DEF SkipInv
<1>2. CASE \E s \in Scheduler : Reset(s)
  <2>1. PICK s \in Scheduler : Reset(s) BY <1>2
  <2>2. sch[s].now \in Int BY BoundsTyped DEF SkipInv, TInv, TypeOK, Process, Time
  <2>3. first \in Int BY FiredStays DEF SkipInv
  <2>4. row'.next = sch[s].now + 1 /\ first' >= sch[s].now + 1
    BY <2>1, <2>2, <2>3 DEF Reset, Fresh, Max2
  <2> QED BY <1>0, <2>2, <2>4
<1>3. CASE \E s \in Scheduler : Store(s)
  <2>1. PICK s \in Scheduler : Store(s) BY <1>3
  <2>2. sch[s].pc \in Firing /\ row'.next = sch[s].at BY <2>1 DEF Store, At, Firing
  <2>3. sch[s].at \in Int /\ Served(sch[s].at)
    BY <2>2, BoundsTyped DEF SkipInv, TInv, AllSound, Sound, Process
  <2> QED BY <2>2, <2>3, ServedStays DEF SkipInv
<1>4. row' = row \/ (\E s \in Scheduler : Reset(s)) \/ (\E s \in Scheduler : Store(s))
  BY DEF Next, Serve, Fault, Start, Initialize, Tick, Heal, TryLock, ReadState,
         Recreate, Enqueue, Verify, Release, HealFails, EnqueueFails, StoreFails,
         Crash, LoseLock, DeleteRow, Advance, Run
<1> QED BY <1>1, <1>2, <1>3, <1>4

\* How a process comes to the slot it has after a step: it had it, it
\* enqueued the one before, or it has just read the row.
LEMMA SlotMoves ==
    ASSUME TInv, Next, NEW q \in Scheduler, sch'[q].pc \in Firing
    PROVE  \/ sch[q].pc \in Firing /\ sch'[q].at = sch[q].at
           \/ /\ sch[q].pc \in Enqueuing /\ sch'[q].at = sch[q].at + 1
              /\ sch[q].at \in Fired'
           \/ ReadState(q)
<1> DEFINE Goal == \/ sch[q].pc \in Firing /\ sch'[q].at = sch[q].at
                   \/ /\ sch[q].pc \in Enqueuing /\ sch'[q].at = sch[q].at + 1
                      /\ sch[q].at \in Fired'
                   \/ ReadState(q)
<1>1. sch \in [Scheduler -> Process] BY DEF TInv, TypeOK
<1>2. ASSUME sch' = sch PROVE Goal BY <1>2
<1>3. ASSUME NEW s \in Scheduler, NEW p, sch' = [sch EXCEPT ![s] = p],
             p.pc \notin Firing
      PROVE  Goal
  BY <1>1, <1>3
<1>4. ASSUME NEW s \in Scheduler, Rest(s) PROVE Goal
  <2>1. Waiting("idle", sch[s].ver, sch[s].left).pc \notin Firing
    BY DEF Waiting, Firing
  <2> QED BY <1>3, <1>4, <2>1 DEF Rest
<1>5. ASSUME NEW s \in Scheduler, NEW pc, pc \notin Firing, Goto(s, pc) PROVE Goal
  BY <1>1, <1>5 DEF Goto, Process
<1>6. ASSUME NEW s \in Scheduler, NEW now, NEW n, Due(s, now, n) PROVE Goal
  BY <1>1, <1>6 DEF Due, Waiting, Process, Firing
<1>7. ASSUME NEW s \in Scheduler, NEW pc, sch[s].pc \in Firing, Goto(s, pc) PROVE Goal
  BY <1>1, <1>7 DEF Goto, Process
<1>8. ASSUME NEW s \in Scheduler, sch[s].pc \in Enqueuing, Handled(s), sch[s].at \in Fired'
      PROVE  Goal
  BY <1>1, <1>8 DEF Handled, Process
<1>9. ASSUME NEW s \in Scheduler, Serve(s) PROVE Goal
  <2>1. CASE Start(s)
    <3>1. PICK v \in Version : sch' = [sch EXCEPT ![s] =
             IF row # Absent /\ row.hash = v
               THEN Waiting("idle", v, 0)
               ELSE [Waiting("init", v, 0) EXCEPT !.now = clock]]
      BY <2>1 DEF Start
    <3> QED BY <1>1, <3>1 DEF Waiting, Firing
  <2>2. CASE Initialize(s) BY <1>4, <2>2 DEF Initialize
  <2>3. CASE Tick(s)
    <3>1. CASE sch[s].left = 0 /\ row = Absent
      BY <1>1, <2>3, <3>1 DEF Tick, Process, Firing
    <3>2. CASE ~(sch[s].left = 0 /\ row = Absent)
      BY <1>6, <2>3, <3>2 DEF Tick
    <3> QED BY <3>1, <3>2
  <2>4. CASE Heal(s) BY <1>4, <1>6, <2>4 DEF Heal
  <2>5. CASE TryLock(s) BY <1>4, <1>5, <2>5, "read" \notin Firing DEF TryLock, Firing
  <2>6. CASE ReadState(s)
    <3>1. CASE q = s BY <2>6, <3>1
    <3>2. CASE q # s BY <1>1, <2>6, <3>2 DEF ReadState
    <3> QED BY <3>1, <3>2
  <2>7. CASE Recreate(s)
    BY <1>5, <2>7, "release" \notin Firing DEF Recreate, Firing
  <2>8. CASE Enqueue(s)
    <3>1. sch[s].pc \in Firing /\ sch[s].pc \in Enqueuing
      BY <2>8 DEF Enqueue, At, Firing, Enqueuing
    <3>2. CASE live[sch[s].at] = 0
      <4>1. Insert(sch[s].at, sch[s].ver) /\ Handled(s) BY <2>8, <3>2 DEF Enqueue
      <4>2. sch[s].at \in Fired'
        BY <3>1, <4>1, InsertTyped, VersionTyped DEF Insert, Fired, TInv, TypeOK
      <4> QED BY <1>8, <3>1, <4>1, <4>2
    <3>3. CASE live[sch[s].at] # 0
      <4>1. Goto(s, "verify") BY <2>8, <3>3 DEF Enqueue
      <4> QED BY <1>7, <3>1, <4>1
    <3> QED BY <3>2, <3>3
  <2>9. CASE Verify(s)
    <3>1. sch[s].pc \in Firing /\ sch[s].pc \in Enqueuing
      BY <2>9 DEF Verify, At, Firing, Enqueuing
    <3>2. CASE live[sch[s].at] = sch[s].ver
      <4>1. sch[s].at \in Fired
        BY <3>1, <3>2, InsertTyped, VersionTyped DEF Fired
      <4> QED BY <1>8, <2>9, <3>1, <3>2, <4>1, FiredStays DEF Verify
    <3>3. CASE live[sch[s].at] # sch[s].ver
      BY <1>7, <2>9, <3>1, <3>3 DEF Verify, GiveUp
    <3> QED BY <3>2, <3>3
  <2>10. CASE Store(s) BY <1>5, <2>10, "release" \notin Firing DEF Store, Firing
  <2>11. CASE Release(s) BY <1>4, <2>11 DEF Release
  <2> QED BY <1>9, <2>1, <2>2, <2>3, <2>4, <2>5, <2>6, <2>7, <2>8, <2>9, <2>10,
             <2>11 DEF Serve
<1>10. ASSUME NEW s \in Scheduler, Fault(s) PROVE Goal
  <2>1. CASE HealFails(s) BY <1>6, <2>1 DEF HealFails
  <2>2. CASE EnqueueFails(s)
    BY <1>7, <2>2 DEF EnqueueFails, At, GiveUp, Firing
  <2>3. CASE StoreFails(s) BY <1>5, <2>3, "release" \notin Firing DEF StoreFails, Firing
  <2>4. CASE Crash(s)
    <3>1. Waiting("down", sch[s].ver, 0).pc \notin Firing BY DEF Waiting, Firing
    <3> QED BY <1>3, <2>4, <3>1 DEF Crash
  <2> QED BY <1>10, <2>1, <2>2, <2>3, <2>4 DEF Fault
<1>11. ASSUME LoseLock \/ DeleteRow \/ Advance \/ \E k \in Slot : Run(k) PROVE Goal
  BY <1>2, <1>11 DEF LoseLock, DeleteRow, Advance, Run
<1> HIDE DEF Goal
<1>12. Goal BY <1>9, <1>10, <1>11 DEF Next
<1> QED BY <1>12 DEF Goal

\* What a process carries after a step.
LEMMA BatchServed ==
    ASSUME SkipInv, Next, catchUp, NEW q \in Scheduler, sch'[q].pc \in Firing
    PROVE  \A k \in first'..(sch'[q].at - 1) : k \in Fired'
<1>1. /\ TInv /\ sch[q].at \in Int /\ sch \in [Scheduler -> Process]
      /\ sch[q].pc \in Firing => Served(sch[q].at)
  BY BoundsTyped DEF SkipInv, TInv, TypeOK, AllSound, Sound, Process
<1>2. CASE sch[q].pc \in Firing /\ sch'[q].at = sch[q].at
  BY <1>1, <1>2, ServedStays
<1>3. CASE /\ sch[q].pc \in Enqueuing /\ sch'[q].at = sch[q].at + 1
           /\ sch[q].at \in Fired'
  <2>1. sch[q].pc \in Firing /\ sch'[q].at - 1 = sch[q].at
    BY <1>1, <1>3 DEF Enqueuing, Firing
  <2> QED BY <1>3, <2>1, HandledServes
<1>4. CASE ReadState(q)
  <2>1. row # Absent /\ sch'[q].at = row.next
    BY <1>1, <1>4 DEF ReadState, Firing, Process
  <2>2. row.next \in Int /\ Served(row.next)
    BY <2>1, BoundsTyped DEF SkipInv, TInv, TypeOK, Row
  <2> QED BY <1>1, <2>1, <2>2, ServedStays
<1> QED BY <1>1, <1>2, <1>3, <1>4, SlotMoves

LEMMA SkipInit == Init => SkipInv
<1> SUFFICES ASSUME Init PROVE SkipInv OBVIOUS
<1>1. TInv BY TypeInit
<1>2. row # Absent => row.next = 1 /\ first = 1 BY DEF Init
<1>3. row # Absent => Served(row.next) BY <1>2 DEF Served
<1>4. \A s \in Scheduler : sch[s].pc \notin Firing BY DEF Init, Waiting, Firing
<1> QED BY <1>1, <1>3, <1>4 DEF SkipInv

LEMMA SkipStep == SkipInv /\ [Next]_vars => SkipInv'
<1> SUFFICES ASSUME SkipInv, [Next]_vars PROVE SkipInv' OBVIOUS
<1>1. CASE UNCHANGED vars
  <2>1. TInv' BY TypeStep DEF SkipInv
  <2> QED BY <1>1, <2>1 DEF vars, tables, SkipInv, Served, Fired, History
<1>2. CASE Next
  <2>1. TInv' BY TypeStep DEF SkipInv
  <2>2. catchUp' = catchUp BY <1>2, FiredStays DEF SkipInv
  <2>3. catchUp' /\ row' # Absent => Served(row.next)'
    BY <1>2, <2>2, NextServed DEF Served
  <2>4. ASSUME NEW q \in Scheduler, catchUp', sch'[q].pc \in Firing
        PROVE  Served(sch[q].at)'
    BY <1>2, <2>2, <2>4, BatchServed DEF Served
  <2> QED BY <2>1, <2>3, <2>4 DEF SkipInv
<1> QED BY <1>1, <1>2

\* With catch_up_missed the stored slot never passes one that was promised
\* and not enqueued, though processes crash, lose their lock, fail in the
\* middle of a batch or start with another configuration (process_schedule).
THEOREM NoSkip == Spec => []NoSlotSkipped
<1>1. SkipInv => NoSlotSkipped BY DEF SkipInv, NoSlotSkipped, Served
<1> QED BY <1>1, SkipInit, SkipStep, PTL DEF Spec

----------------------------------------------------------------------------
(* Slots in order.  Without a fault a process holds the lock from its read  *)
(* of the row to the release, and nothing was enqueued beyond its slot.     *)

Locked == Firing \cup {"read", "fresh", "release"}

\* All that was enqueued lies before n.
Below(n) == \A k \in Fired : k < n

OrderInv ==
    /\ TInv
    /\ faults = 0 /\ steady =>
         /\ \A s \in Scheduler : sch[s].pc \in Locked => lock = s
         /\ \A s \in Scheduler : sch[s].pc # "verify"
         /\ \A s \in Scheduler : sch[s].pc \in Firing => Below(sch[s].at)
         /\ row # Absent /\ (\A s \in Scheduler : sch[s].pc \notin Firing) => Below(row.next)

LEMMA OrderInit == Init => OrderInv
<1> SUFFICES ASSUME Init PROVE OrderInv OBVIOUS
<1>1. TInv BY TypeInit
<1>2. \A s \in Scheduler : sch[s].pc = "down" BY DEF Init, Waiting
<1>3. Fired = {} BY DEF Init, Fired, History
<1> QED BY <1>1, <1>2, <1>3 DEF OrderInv, Below, Firing, Locked

\* Steps of one process that is not inside and does not come to fire.
LEMMA QuietStep ==
    ASSUME OrderInv, NEW s \in Scheduler, NEW p,
           sch' = [sch EXCEPT ![s] = p], p.pc \notin Firing, sch[s].pc \notin Firing,
           p.pc \in Locked => lock' = s,
           \/ lock' = lock
           \/ lock = NoOne
           \/ lock = s,
           UNCHANGED <<row, live, runs>>, faults' = 0 /\ steady' => faults = 0 /\ steady,
           TInv'
    PROVE  OrderInv'
<1>1. Fired' = Fired BY DEF Fired, History
<1>2. sch \in [Scheduler -> Process] BY DEF OrderInv, TInv, TypeOK
<1> SUFFICES ASSUME faults' = 0, steady'
             PROVE /\ \A q \in Scheduler : sch'[q].pc \in Locked => lock' = q
                   /\ \A q \in Scheduler : sch'[q].pc # "verify"
                   /\ \A q \in Scheduler : sch'[q].pc \in Firing => \A k \in Fired' : k < sch'[q].at
                   /\ row' # Absent /\ (\A q \in Scheduler : sch'[q].pc \notin Firing)
                        => \A k \in Fired' : k < row'.next
  BY DEF OrderInv, Below
<1>3. \A q \in Scheduler : q # s => sch'[q] = sch[q] BY <1>2
<1>4. sch'[s] = p BY <1>2
<1>5. NoOne \notin Scheduler BY SchedulerAssumption DEF SchedulerAssumption
<1>6. \A q \in Scheduler : sch'[q].pc \in Locked => lock' = q
  BY <1>3, <1>4, <1>5 DEF OrderInv
<1>7. \A q \in Scheduler : sch'[q].pc # "verify"
  BY <1>3, <1>4 DEF OrderInv, Firing
<1>8. \A q \in Scheduler : sch'[q].pc \in Firing => \A k \in Fired' : k < sch'[q].at
  BY <1>1, <1>3, <1>4 DEF OrderInv, Below
<1>9. row' # Absent /\ (\A q \in Scheduler : sch'[q].pc \notin Firing)
        => \A k \in Fired' : k < row'.next
  BY <1>1, <1>3, <1>4 DEF OrderInv, Below
<1> QED BY <1>6, <1>7, <1>8, <1>9

\* Under the order the holder of the lock is alone inside.
LEMMA Alone ==
    ASSUME OrderInv, faults = 0, steady, NEW s \in Scheduler, sch[s].pc \in Locked
    PROVE  \A q \in Scheduler : q # s => sch[q].pc \notin Locked
BY DEF OrderInv

\* Order survives a step of the process that holds the lock and ends it in
\* a batch, if what was enqueued lies before its slot.
LEMMA FiringStep ==
    ASSUME OrderInv, faults = 0, steady, NEW s \in Scheduler, sch[s].pc \in Locked,
           NEW p, sch' = [sch EXCEPT ![s] = p], p.pc \in {"enqueue", "store"},
           lock' = lock, \A k \in Fired' : k < p.at, TInv'
    PROVE  OrderInv'
<1>1. sch \in [Scheduler -> Process] BY DEF OrderInv, TInv, TypeOK
<1>2. sch'[s] = p /\ \A q \in Scheduler : q # s => sch'[q] = sch[q] BY <1>1
<1>3. p.pc \in Firing /\ p.pc # "verify" BY DEF Firing
<1>4. \A q \in Scheduler : q # s => sch'[q].pc \notin Locked BY <1>2, Alone
<1>5. \A q \in Scheduler : q # s => sch'[q].pc \notin Firing BY <1>4 DEF Locked
<1>6. lock' = s BY DEF OrderInv
<1>7. \A q \in Scheduler : sch'[q].pc \in Locked => lock' = q BY <1>4, <1>6
<1>8. \A q \in Scheduler : sch'[q].pc # "verify" BY <1>2, <1>3, <1>5 DEF Firing
<1>9. \A q \in Scheduler : sch'[q].pc \in Firing => \A k \in Fired' : k < sch'[q].at
  BY <1>2, <1>5
<1>10. ~\A q \in Scheduler : sch'[q].pc \notin Firing BY <1>2, <1>3
<1> QED BY <1>7, <1>8, <1>9, <1>10 DEF OrderInv, Below

LEMMA OrderRead ==
    ASSUME OrderInv, NEW s \in Scheduler, ReadState(s), TInv'
    PROVE  OrderInv'
<1>1. sch \in [Scheduler -> Process] /\ sch[s] \in Process
  BY DEF OrderInv, TInv, TypeOK
<1>2. sch[s].pc = "read" /\ UNCHANGED <<row, lock, live, runs, faults, steady>>
  BY DEF ReadState, At, tables
<1> SUFFICES ASSUME faults = 0, steady PROVE OrderInv'
  BY <1>2 DEF OrderInv
<1>3. sch[s].pc \in Locked /\ sch[s].pc \notin Firing /\ lock = s
  BY <1>2 DEF OrderInv, Locked, Firing
<1>4. CASE row = Absent \/ ~Unserved(s)
  <2>1. PICK pc \in {"fresh", "release"} : sch' = [sch EXCEPT ![s] = [sch[s] EXCEPT !.pc = pc]]
    BY <1>4 DEF ReadState
  <2>2. [sch[s] EXCEPT !.pc = pc].pc \notin Firing BY <1>1, <2>1 DEF Process, Firing
  <2> QED BY <1>2, <1>3, <2>1, <2>2, QuietStep
<1>5. CASE row # Absent /\ Unserved(s)
  <2>1. Below(row.next) BY <1>3, <1>5, Alone DEF OrderInv, Locked
  <2>2. row.next \in Int /\ sch[s].now \in Int /\ row.next <= sch[s].now
    BY <1>1, <1>5, BoundsTyped DEF OrderInv, TInv, TypeOK, Row, Process, Time, Unserved
  <2>3. row.next <= LatestDue(row.next, sch[s].now) /\ LatestDue(row.next, sch[s].now) \in Int
    BY <2>2, BoundsTyped DEF LatestDue, Min2
  <2>4. Fired' = Fired /\ Fired \subseteq Int BY <1>2, BoundsTyped DEF Fired, History, Slot
  <2>5. PICK a, p : /\ a \in Int /\ sch' = [sch EXCEPT ![s] = p]
                    /\ p.pc \in {"enqueue", "store"} /\ p.at = a /\ row.next <= a
    <3>1. CASE catchUp
      <4> DEFINE at == row.next
                 p == [sch[s] EXCEPT !.pc = "enqueue", !.seen = row, !.at = at,
                                     !.upto = LastMissed(row.next, sch[s].now)]
      <4>1. sch' = [sch EXCEPT ![s] = p] BY <1>5, <3>1 DEF ReadState
      <4>2. p.pc = "enqueue" /\ p.at = at BY <1>1 DEF Process
      <4>3. at \in Int /\ row.next <= at BY <2>2
      <4> HIDE DEF p, at
      <4> QED BY <4>1, <4>2, <4>3
    <3>2. CASE ~catchUp /\ ScanReaches(row.next, sch[s].now)
      <4> DEFINE at == LatestDue(row.next, sch[s].now)
                 p == [sch[s] EXCEPT !.pc = "enqueue", !.seen = row, !.at = at, !.upto = at]
      <4>1. sch' = [sch EXCEPT ![s] = p] BY <1>5, <3>2 DEF ReadState
      <4>2. p.pc = "enqueue" /\ p.at = at BY <1>1 DEF Process
      <4> HIDE DEF p
      <4> QED BY <2>3, <4>1, <4>2
    <3>3. CASE ~catchUp /\ ~ScanReaches(row.next, sch[s].now)
      <4> DEFINE at == LatestDue(row.next, sch[s].now) + 1
                 p == [sch[s] EXCEPT !.pc = "store", !.seen = row, !.at = at]
      <4>1. sch' = [sch EXCEPT ![s] = p] BY <1>5, <3>3 DEF ReadState
      <4>2. p.pc = "store" /\ p.at = at BY <1>1 DEF Process
      <4>3. at \in Int /\ row.next <= at BY <2>2, <2>3
      <4> HIDE DEF p, at
      <4> QED BY <4>1, <4>2, <4>3
    <3> QED BY <3>1, <3>2, <3>3
  <2>6. \A k \in Fired' : k < p.at BY <2>1, <2>2, <2>4, <2>5 DEF Below
  <2> QED BY <1>2, <1>3, <2>5, <2>6, FiringStep
<1> QED BY <1>4, <1>5

LEMMA OrderEnqueue ==
    ASSUME OrderInv, NEW s \in Scheduler, Enqueue(s), TInv'
    PROVE  OrderInv'
<1>1. sch \in [Scheduler -> Process] /\ sch[s] \in Process
  BY DEF OrderInv, TInv, TypeOK
<1>2. sch[s].pc = "enqueue" /\ UNCHANGED <<row, lock, runs, faults, steady>>
  BY DEF Enqueue, At
<1> SUFFICES ASSUME faults = 0, steady PROVE OrderInv'
  BY <1>2 DEF OrderInv
<1>3. sch[s].pc \in Locked /\ sch[s].pc \in Enqueuing /\ Below(sch[s].at)
  BY <1>2 DEF OrderInv, Locked, Firing, Enqueuing
<1>4. sch[s].at \in Slot /\ sch[s].at \in Int
  BY <1>3, InsertTyped, BoundsTyped DEF OrderInv, Slot
<1>5. live[sch[s].at] = 0
  <2> SUFFICES ASSUME live[sch[s].at] # 0 PROVE FALSE OBVIOUS
  <2>1. sch[s].at \in Fired BY <1>4 DEF Fired
  <2> QED BY <1>3, <1>4, <2>1 DEF Below
<1>6. Insert(sch[s].at, sch[s].ver) /\ Handled(s) BY <1>5 DEF Enqueue
<1>7. Fired' \subseteq Fired \cup {sch[s].at}
  BY <1>2, <1>4, <1>6 DEF Fired, History, Insert, OrderInv, TInv, TypeOK
<1>8. Fired \subseteq Int BY BoundsTyped DEF Fired, History, Slot
<1> DEFINE p == [sch[s] EXCEPT !.at = sch[s].at + 1,
                   !.pc = IF sch[s].at < sch[s].upto THEN "enqueue" ELSE "store"]
<1>9. sch' = [sch EXCEPT ![s] = p] BY <1>6 DEF Handled
<1>10. p.at = sch[s].at + 1 /\ p.pc \in {"enqueue", "store"} BY <1>1 DEF Process
<1> HIDE DEF p
<1>11. \A k \in Fired' : k < p.at BY <1>3, <1>4, <1>7, <1>8, <1>10 DEF Below
<1> QED BY <1>2, <1>3, <1>9, <1>10, <1>11, FiringStep

LEMMA OrderStore ==
    ASSUME OrderInv, NEW s \in Scheduler, Store(s), TInv'
    PROVE  OrderInv'
<1>1. sch \in [Scheduler -> Process] /\ sch[s] \in Process
  BY DEF OrderInv, TInv, TypeOK
<1>2. /\ sch[s].pc = "store" /\ row'.next = sch[s].at
      /\ UNCHANGED <<lock, live, runs, faults, steady>>
      /\ sch' = [sch EXCEPT ![s] = [sch[s] EXCEPT !.pc = "release"]]
  BY DEF Store, At, tables, Goto
<1> SUFFICES ASSUME faults = 0, steady PROVE OrderInv'
  BY <1>2 DEF OrderInv
<1>3. sch[s].pc \in Locked /\ Below(sch[s].at) /\ lock = s
  BY <1>2 DEF OrderInv, Locked, Firing
<1>4. sch'[s].pc = "release" /\ \A q \in Scheduler : q # s => sch'[q] = sch[q]
  BY <1>1, <1>2 DEF Process
<1>5. \A q \in Scheduler : q # s => sch'[q].pc \notin Locked BY <1>3, <1>4, Alone
<1>6. \A q \in Scheduler : sch'[q].pc \notin Firing
  BY <1>4, <1>5 DEF Locked, Firing
<1>7. \A k \in Fired' : k < row'.next BY <1>2, <1>3 DEF Below, Fired, History
<1>8. \A q \in Scheduler : sch'[q].pc \in Locked => lock' = q BY <1>2, <1>3, <1>5
<1>9. \A q \in Scheduler : sch'[q].pc # "verify" BY <1>6 DEF Firing
<1> QED BY <1>6, <1>7, <1>8, <1>9 DEF OrderInv, Below

\* The steps of a process that is not firing and does not begin to.
LEMMA OrderQuiet ==
    ASSUME OrderInv, NEW s \in Scheduler, TInv', faults' = 0, steady',
           \/ Start(s) \/ Tick(s) \/ Heal(s) \/ TryLock(s) \/ Release(s) \/ HealFails(s)
    PROVE  OrderInv'
<1>1. sch \in [Scheduler -> Process] /\ sch[s] \in Process /\ faults \in Nat
      /\ NoOne \notin Scheduler
  BY BoundsTyped, SchedulerAssumption DEF SchedulerAssumption, OrderInv, TInv, TypeOK
<1>2. ASSUME NEW v, NEW n, sch' = [sch EXCEPT ![s] = Waiting("idle", v, n)],
             sch[s].pc \notin Firing, lock' = lock \/ lock = s,
             UNCHANGED <<row, live, runs, faults, steady>>
      PROVE  OrderInv'
  <2>1. Waiting("idle", v, n).pc = "idle" /\ "idle" \notin Firing /\ "idle" \notin Locked
    BY DEF Waiting, Firing, Locked
  <2> QED BY <1>2, <2>1, QuietStep
<1>3. ASSUME NEW now, NEW n, Due(s, now, n), sch[s].pc \notin Firing,
             UNCHANGED <<lock, row, live, runs, faults, steady>>
      PROVE  OrderInv'
  <2>1. CASE row # Absent /\ row.next <= now
    <3>1. sch' = [sch EXCEPT ![s] = [sch[s] EXCEPT !.pc = "lock", !.now = now, !.left = n]]
      BY <1>3, <2>1 DEF Due
    <3>2. [sch[s] EXCEPT !.pc = "lock", !.now = now, !.left = n].pc = "lock"
      BY <1>1 DEF Process
    <3> QED BY <1>3, <3>1, <3>2, QuietStep DEF Firing, Locked
  <2>2. CASE ~(row # Absent /\ row.next <= now)
    <3>1. sch' = [sch EXCEPT ![s] = Waiting("idle", sch[s].ver, n)] BY <1>3, <2>2 DEF Due
    <3> QED BY <1>2, <1>3, <3>1
  <2> QED BY <2>1, <2>2
<1>4. CASE Start(s)
  <2>1. UNCHANGED <<lock, row, live, runs, steady>> /\ sch[s].pc \notin Firing
    BY <1>4 DEF Start, At, tables, Firing
  <2>2. faults' = faults
    <3>1. faults' = faults \/ faults' = faults + 1 BY <1>4 DEF Start
    <3> QED BY <1>1, <3>1
  <2>3. PICK v : \/ sch' = [sch EXCEPT ![s] = Waiting("idle", v, 0)]
                 \/ sch' = [sch EXCEPT ![s] = [Waiting("init", v, 0) EXCEPT !.now = clock]]
    BY <1>4 DEF Start
  <2>4. [Waiting("init", v, 0) EXCEPT !.now = clock].pc = "init" BY DEF Waiting
  <2>5. CASE sch' = [sch EXCEPT ![s] = Waiting("idle", v, 0)]
    BY <1>2, <2>1, <2>5, <2>2
  <2>6. CASE sch' = [sch EXCEPT ![s] = [Waiting("init", v, 0) EXCEPT !.now = clock]]
    BY <2>1, <2>4, <2>6, <2>2, QuietStep DEF Firing, Locked
  <2> QED BY <2>3, <2>5, <2>6
<1>5. CASE Tick(s)
  <2>1. UNCHANGED <<lock, row, live, runs, faults, steady>> /\ sch[s].pc \notin Firing
    BY <1>5 DEF Tick, At, tables, Firing
  <2>2. CASE sch[s].left = 0 /\ row = Absent
    <3>1. PICK n : sch' = [sch EXCEPT ![s] = [sch[s] EXCEPT !.pc = "heal", !.now = clock, !.left = n]]
      BY <1>5, <2>2 DEF Tick
    <3>2. [sch[s] EXCEPT !.pc = "heal", !.now = clock, !.left = n].pc = "heal"
      BY <1>1 DEF Process
    <3> QED BY <2>1, <3>1, <3>2, QuietStep DEF Firing, Locked
  <2>3. CASE ~(sch[s].left = 0 /\ row = Absent)
    BY <1>3, <1>5, <2>1, <2>3 DEF Tick
  <2> QED BY <2>2, <2>3
<1>6. CASE Heal(s)
  <2>1. ~Reset(s) BY DEF Reset
  <2>2. /\ UNCHANGED <<lock, row, live, runs, faults, steady>>
        /\ sch[s].pc \notin Firing /\ Due(s, sch[s].now, sch[s].left)
    BY <1>6, <2>1 DEF Heal, At, tables, Firing
  <2> QED BY <1>3, <2>2
<1>7. CASE TryLock(s)
  <2>1. UNCHANGED <<row, live, runs, faults, steady>> /\ sch[s].pc \notin Firing
    BY <1>7 DEF TryLock, At, tables, Firing
  <2>2. CASE LockFree
    <3>1. lock = NoOne /\ lock' = s /\ sch' = [sch EXCEPT ![s] = [sch[s] EXCEPT !.pc = "read"]]
      BY <1>7, <2>2 DEF TryLock, LockFree, Goto
    <3>2. [sch[s] EXCEPT !.pc = "read"].pc = "read" BY <1>1 DEF Process
    <3> QED BY <2>1, <3>1, <3>2, QuietStep DEF Firing
  <2>3. CASE ~LockFree
    <3>1. lock' = lock /\ sch' = [sch EXCEPT ![s] = Waiting("idle", sch[s].ver, sch[s].left)]
      BY <1>7, <2>3 DEF TryLock, Rest
    <3> QED BY <1>2, <2>1, <3>1
  <2> QED BY <2>2, <2>3
<1>8. CASE Release(s)
  <2>1. UNCHANGED <<row, live, runs, faults, steady>> /\ sch[s].pc \notin Firing
    BY <1>8 DEF Release, At, tables, Firing
  <2>2. lock' = lock \/ lock = s BY <1>8 DEF Release, Unlock
  <2>3. sch' = [sch EXCEPT ![s] = Waiting("idle", sch[s].ver, sch[s].left)]
    BY <1>8 DEF Release, Rest
  <2> QED BY <1>2, <2>1, <2>2, <2>3
<1>9. CASE HealFails(s)
  <2>1. UNCHANGED <<lock, row, live, runs, faults, steady>> /\ sch[s].pc \notin Firing
    BY <1>9 DEF HealFails, At, tables, Firing
  <2> QED BY <1>3, <1>9, <2>1 DEF HealFails
<1> QED BY <1>4, <1>5, <1>6, <1>7, <1>8, <1>9

LEMMA OrderStep == OrderInv /\ [Next]_vars => OrderInv'
<1> SUFFICES ASSUME OrderInv, [Next]_vars PROVE OrderInv' OBVIOUS
<1>1. TInv' BY TypeStep DEF OrderInv
<1>2. faults \in Nat BY BoundsTyped DEF OrderInv, TInv, TypeOK
<1> SUFFICES ASSUME faults' = 0, steady' PROVE OrderInv'
  BY <1>1 DEF OrderInv
<1>3. CASE UNCHANGED vars \/ Advance
  <2>1. UNCHANGED <<row, lock, sch, live, runs, faults, steady>>
    BY <1>3 DEF vars, tables, Advance
  <2> QED BY <1>1, <2>1 DEF OrderInv, Below, Fired, History
<1>4. ASSUME NEW k \in Slot, Run(k) PROVE OrderInv'
  <2>1. UNCHANGED <<row, lock, sch, faults, steady>> BY <1>4 DEF Run
  <2>2. Fired' \subseteq Fired
    BY <1>4 DEF Run, Fired, History, OrderInv, TInv, TypeOK
  <2> QED BY <1>1, <2>1, <2>2 DEF OrderInv, Below
<1>5. ASSUME NEW s \in Scheduler, Serve(s) PROVE OrderInv'
  <2>1. ~Initialize(s) /\ ~Recreate(s) BY DEF Initialize, Recreate, Reset
  <2>2. CASE Verify(s)
    <3>1. faults = 0 /\ steady /\ sch[s].pc = "verify" BY <2>2 DEF Verify, At
    <3> QED BY <3>1 DEF OrderInv
  <2>3. CASE Start(s) \/ Tick(s) \/ Heal(s) \/ TryLock(s) \/ Release(s)
    BY <1>1, <2>3, OrderQuiet
  <2>4. CASE ReadState(s) BY <1>1, <2>4, OrderRead
  <2>5. CASE Enqueue(s) BY <1>1, <2>5, OrderEnqueue
  <2>6. CASE Store(s) BY <1>1, <2>6, OrderStore
  <2> QED BY <1>5, <2>1, <2>2, <2>3, <2>4, <2>5, <2>6 DEF Serve
<1>6. ASSUME NEW s \in Scheduler, Fault(s) PROVE OrderInv'
  <2>1. CASE EnqueueFails(s) BY <1>2, <2>1 DEF EnqueueFails
  <2>2. CASE StoreFails(s) BY <1>2, <2>2 DEF StoreFails
  <2>3. CASE Crash(s) BY <1>2, <2>3 DEF Crash
  <2>4. CASE HealFails(s) BY <1>1, <2>4, OrderQuiet
  <2> QED BY <1>6, <2>1, <2>2, <2>3, <2>4 DEF Fault
<1>7. CASE LoseLock BY <1>2, <1>7 DEF LoseLock
<1>8. CASE DeleteRow BY <1>2, <1>8 DEF DeleteRow
<1> QED BY <1>3, <1>4, <1>5, <1>6, <1>7, <1>8 DEF Next

\* A slot is inserted by the process that is at it.
LEMMA OrderedInsert ==
    ASSUME OrderInv, Next, NEW k \in Slot, Inserted(k), faults = 0, steady
    PROVE  \A j \in Fired : j < k
<1>1. ASSUME NEW s \in Scheduler, Enqueue(s) \/ EnqueueFails(s)
      PROVE  \A j \in Fired : j < k
  <2>1. sch[s].pc = "enqueue" BY <1>1 DEF Enqueue, EnqueueFails, At
  <2>2. Below(sch[s].at) BY <2>1 DEF OrderInv, Firing
  <2>3. live' = live \/ Insert(sch[s].at, sch[s].ver) BY <1>1 DEF Enqueue, EnqueueFails
  <2>4. k = sch[s].at BY <2>3 DEF Inserted, Insert, OrderInv, TInv, TypeOK
  <2> QED BY <2>2, <2>4 DEF Below
<1>2. ASSUME NEW j \in Slot, Run(j) PROVE FALSE
  BY <1>2 DEF Run, Inserted, OrderInv, TInv, TypeOK
<1>3. \/ UNCHANGED live
      \/ \E s \in Scheduler : Enqueue(s) \/ EnqueueFails(s)
      \/ \E j \in Slot : Run(j)
  BY DEF Next, Serve, Fault, Start, Initialize, Tick, Heal, TryLock, ReadState,
         Recreate, Verify, Store, Release, HealFails, StoreFails, Crash, LoseLock,
         DeleteRow, Advance, tables
<1> QED BY <1>1, <1>2, <1>3 DEF Inserted

\* Without a fault, and from a row that exists, slots are enqueued in
\* ascending order, so each once, by however many processes that all saw the
\* row due (check_and_enqueue, process_schedule).
THEOREM InOrder == Spec => SlotsInOrder
<1>1. OrderInv /\ [Next]_vars =>
        [\A k \in Slot :
           Inserted(k) /\ faults = 0 /\ steady => \A j \in Fired : j < k]_vars
  BY OrderedInsert
<1> QED BY <1>1, OrderInit, OrderStep, PTL DEF Spec, SlotsInOrder

=============================================================================
