-------------------------- MODULE RecurrentCronProofs --------------------------
(* Type correctness and the safety of RecurrentCron, for any set of          *)
(* subscribers, streams and processes and any times allowed by the           *)
(* assumptions of the module: runs may overlap, outlive their locks and die, *)
(* and UPDATEs may fail.                                                     *)
EXTENDS RecurrentCron, TLAPS

LEMMA TypeInit == Init => TypeOK
BY SubsAssumption, TimeAssumption
DEF Init, TypeOK, Streams, Transaction, NothingSeen, Replies, Full, Reduced,
    Claiming, Charging, Patience

(* What a process that steps leaves alone: the other processes, and the rows *)
(* it does not hold.                                                         *)
StepOf(p) == (\E n \in Streams : TakeLock(p, n)) \/ Step(p) \/ Crash(p)
Stays(q) ==
  /\ pc'[q] = pc[q] /\ waited'[q] = waited[q]
  /\ stream'[q] = stream[q] /\ turn'[q] = turn[q] /\ left'[q] = left[q]
  /\ aid'[q] = aid[q] /\ seen'[q] = seen[q] /\ type'[q] = type[q]
  /\ reply'[q] = reply[q] /\ served'[q] = served[q]
RowStays(s) ==
  /\ due'[s] = due[s] /\ ready'[s] = ready[s] /\ last'[s] = last[s]
  /\ age'[s] = age[s] /\ gap'[s] = gap[s]

LEMMA NextIs == Next <=> Tick \/ \E p \in Procs : StepOf(p)
BY DEF Next, StepOf

\* The steps by name.
LEMMA StepIs ==
  ASSUME NEW p \in Procs, StepOf(p)
  PROVE  \/ \E n \in Streams : TakeLock(p, n)
         \/ Connect(p) \/ FixTime(p) \/ Crash(p) \/ Finish(p)
         \/ InTime(p) \/ StackEmpty(p) \/ LoopDone(p)
         \/ GetSub(p) \/ Reschedule(p) \/ Unsubscribe(p) \/ RequestCharge(p)
         \/ \E r \in Replies : Answer(p, r)
         \/ Record(p)
BY DEF StepOf, Step

\* The arithmetic of the clocks and of the turns.
LEMMA ClockStays ==
  /\ \A m \in Nat : \A i \in 0..m : Less(i) \in 0..m /\ More(i, m) \in 0..m
  /\ \A i \in Nat : Less(i) \in Nat /\ Less(i) + 1 >= i /\ Less(i) <= i
BY DEF Less, More
LEMMA TurnsRoom ==
  ASSUME TypeOK, NEW p \in Procs, pc[p] \notin {"loop", "done"}
  PROVE  turn[p] + 1 \in 0..LoopLimit
<1>1. turn[p] \in 0..LoopLimit /\ turn[p] < LoopLimit /\ LoopLimit \in Nat
  BY TimeAssumption DEF TypeOK
<1> QED
  BY <1>1

LEMMA TypeNext == TypeOK /\ [Next]_vars => TypeOK'
<1> SUFFICES ASSUME TypeOK, [Next]_vars PROVE TypeOK'
  OBVIOUS
<1> USE SubsAssumption, TimeAssumption, DelayAssumption DEF TypeOK
<1>1. ASSUME NEW p \in Procs, NEW n \in Streams, TakeLock(p, n) PROVE TypeOK'
  BY <1>1 DEF TakeLock, WriteLock, MoveTo, rowVars, claim, history, Claiming,
              Charging, Patience
<1>2. ASSUME NEW p \in Procs, Connect(p) PROVE TypeOK'
  BY <1>2 DEF Connect, MoveTo, rowVars, claim, history, Claiming, Charging, Patience
<1>3. ASSUME NEW p \in Procs, InTime(p) \/ StackEmpty(p) \/ LoopDone(p) PROVE TypeOK'
  <2>1. PICK l \in {"checked", "done"} :
          GoTo(p, l) /\ (l = "checked" => turn[p] < LoopLimit)
    BY <1>3 DEF InTime, AtLoopTop, StackEmpty, LoopDone
  <2> QED
    BY <2>1 DEF GoTo, MoveTo, rowVars, run, claim, history, Claiming, Charging,
                Patience
<1>4. ASSUME NEW p \in Procs, FixTime(p) \/ Crash(p) \/ Finish(p) PROVE TypeOK'
  <2>1. /\ Exit(p) /\ crashes' \in 0..MaxCrashes
        /\ lock' = lock \/ lock' = [lock EXCEPT ![stream[p]] = 0]
    BY <1>4 DEF FixTime, Crash, Finish, Die
  <2>2. lock' \in [Streams -> 0..RunLimit]
    <3>1. 0 \in 0..RunLimit
      OBVIOUS
    <3> QED
      BY <2>1, <3>1
  <2> QED
    BY <2>1, <2>2 DEF Exit, Forget, MoveTo, rowVars, NothingSeen, Replies, Full,
                      Claiming, Charging, Patience
<1>5. ASSUME NEW p \in Procs, GetSub(p) PROVE TypeOK'
  <2>1. PICK s \in Subs :
          /\ aid' = [aid EXCEPT ![p] = s]
          /\ seen' = [seen EXCEPT ![p] = [t |-> last[s].t, ok |-> last[s].ok,
                                          age |-> age[s]]]
          /\ served' = [served EXCEPT ![p] = @ \union {s}]
          /\ torn' = torn \/ torn' = torn \union {s}
    BY <1>5 DEF GetSub, DueRows
  <2> QED
    BY <1>5, <2>1 DEF GetSub, MoveTo, rowVars, run, Transaction, Claiming,
                      Charging, Patience
<1>6. ASSUME NEW p \in Procs, Reschedule(p) PROVE TypeOK'
  <2>1. aid[p] \in Subs
    BY <1>6 DEF Reschedule, Claiming
  <2>2. due' \in [Subs -> Nat]
    <3>1. CASE UNCHANGED due
      BY <3>1
    <3>2. ASSUME NEW d \in 0..waited[p], due' = [due EXCEPT ![aid[p]] = Postpone - d]
          PROVE  due' \in [Subs -> Nat]
      <4>1. waited[p] \in Nat /\ waited[p] <= Pause
        BY <1>6 DEF Reschedule, Patience
      <4>2. Postpone - d \in Nat
        BY <4>1
      <4> QED
        BY <3>2, <4>2
    <3> QED
      BY <1>6, <3>1, <3>2 DEF Reschedule
  <2>3. unmoved' \subseteq Subs
    BY <1>6, <2>1 DEF Reschedule
  <2> QED
    BY <1>6, <2>2, <2>3 DEF Reschedule, MoveTo, run, claim, Claiming, Charging,
                            Patience
<1>7. ASSUME NEW p \in Procs, Unsubscribe(p) PROVE TypeOK'
  <2>1. turn[p] + 1 \in 0..LoopLimit
    BY <1>7, TurnsRoom DEF Unsubscribe
  <2> QED
    BY <1>7, <2>1 DEF Unsubscribe, NextTurn, Forget, MoveTo, history, NothingSeen,
                      Replies, Full, Claiming, Charging, Patience
<1>8. ASSUME NEW p \in Procs, RequestCharge(p) PROVE TypeOK'
  <2>1. NextType(seen[p]) \in {Full, Reduced}
    BY DEF NextType
  <2> QED
    BY <1>8, <2>1 DEF RequestCharge, MoveTo, rowVars, run, Claiming, Charging,
                      Patience
<1>9. ASSUME NEW p \in Procs, NEW r \in Replies, Answer(p, r) PROVE TypeOK'
  BY <1>9 DEF Answer, MoveTo, rowVars, run, history, Claiming, Charging, Patience
<1>10. ASSUME NEW p \in Procs, Record(p) PROVE TypeOK'
  <2>1. turn[p] + 1 \in 0..LoopLimit
    BY <1>10, TurnsRoom DEF Record
  <2>2. ASSUME NEW ok \in BOOLEAN, NEW d \in Nat, NEW r \in BOOLEAN,
               UpdateSub(p, ok, d, r)
        PROVE  /\ due' \in [Subs -> Nat] /\ ready' \in [Subs -> BOOLEAN]
               /\ last' \in [Subs -> Transaction] /\ gap' \in [Subs -> 0..Postpone]
               /\ age' \in [Subs -> 0..FreshFor + 1]
               /\ served' \in [Procs -> SUBSET Subs]
    <3>1. [t |-> type[p], ok |-> ok] \in Transaction
      BY DEF Transaction, Full, Reduced
    <3>2. 0 \in 0..FreshFor + 1 /\ Postpone \in 0..Postpone
      OBVIOUS
    <3> QED
      BY <2>2, <3>1, <3>2 DEF UpdateSub, WriteRow
  <2>3. /\ due' \in [Subs -> Nat] /\ ready' \in [Subs -> BOOLEAN]
        /\ last' \in [Subs -> Transaction] /\ gap' \in [Subs -> 0..Postpone]
        /\ age' \in [Subs -> 0..FreshFor + 1]
        /\ served' \in [Procs -> SUBSET Subs]
    BY <1>10, <2>2 DEF Record, Outcome, rowVars
  <2>4. /\ pc' = [pc EXCEPT ![p] = "loop"] /\ turn' = [turn EXCEPT ![p] = @ + 1]
        /\ waited' = [waited EXCEPT ![p] = 0] /\ Forget(p)
        /\ UNCHANGED <<lock, stream, left, crashes, outlived, torn, unmoved>>
    BY <1>10 DEF Record, NextTurn, MoveTo
  <2> QED
    BY <2>1, <2>3, <2>4 DEF Forget, NothingSeen, Replies, Full, Claiming, Charging,
                            Patience
<1>11. CASE Tick
  <2>0. FreshFor + 1 \in Nat /\ Postpone \in Nat /\ RunLimit \in Nat
    OBVIOUS
  <2>1. /\ due' \in [Subs -> Nat] /\ age' \in [Subs -> 0..FreshFor + 1]
        /\ gap' \in [Subs -> 0..Postpone]
    <3>1. \A s \in Subs : /\ Less(due[s]) \in Nat
                         /\ More(age[s], FreshFor + 1) \in 0..FreshFor + 1
                         /\ More(gap[s], Postpone) \in 0..Postpone
      BY <2>0, ClockStays
    <3> QED
      BY <1>11, <3>1 DEF Tick
  <2>2. lock' \in [Streams -> 0..RunLimit] /\ left' \in [Procs -> 0..RunLimit]
    <3>1. /\ \A n \in Streams : Less(lock[n]) \in 0..RunLimit
          /\ \A p \in Procs : Less(left[p]) \in 0..RunLimit
      BY <2>0, ClockStays
    <3> QED
      BY <1>11, <3>1 DEF Tick
  <2>3. waited' \in [Procs -> Nat] /\ \A p \in Procs : waited'[p] <= Patience(p)'
    <3>1. ASSUME NEW p \in Procs
          PROVE  /\ waited[p] + (IF Running(p) THEN 1 ELSE 0) \in Nat
                 /\ waited[p] + (IF Running(p) THEN 1 ELSE 0) <= Patience(p)
                 /\ Patience(p)' = Patience(p)
      <4>1. Running(p) => waited[p] < Patience(p)
        BY <1>11 DEF Tick
      <4>2. waited[p] \in Nat /\ waited[p] <= Patience(p) /\ Patience(p) \in Nat
        BY DEF Patience
      <4>3. Patience(p)' = Patience(p)
        BY <1>11 DEF Tick, Patience
      <4> HIDE DEF TypeOK
      <4> QED
        BY <4>1, <4>2, <4>3
    <3> QED
      BY <1>11, <3>1 DEF Tick
  <2>4. seen' \in [Procs -> [t : 1..3, ok : BOOLEAN, age : 0..FreshFor + 1]]
    <3>1. ASSUME NEW p \in Procs
          PROVE  [seen[p] EXCEPT !.age = More(@, FreshFor + 1)] \in
                   [t : 1..3, ok : BOOLEAN, age : 0..FreshFor + 1]
      <4>1. seen[p] \in [t : 1..3, ok : BOOLEAN, age : 0..FreshFor + 1]
        OBVIOUS
      <4>2. More(seen[p].age, FreshFor + 1) \in 0..FreshFor + 1
        BY <2>0, <4>1, ClockStays
      <4> HIDE DEF TypeOK
      <4> QED
        BY <4>1, <4>2
    <3> QED
      BY <1>11, <3>1 DEF Tick
  <2>5. outlived' \subseteq Streams
    BY <1>11 DEF Tick
  <2> QED
    BY <1>11, <2>1, <2>2, <2>3, <2>4, <2>5 DEF Tick, Claiming, Charging
<1>12. CASE UNCHANGED vars
  BY <1>12 DEF vars, rowVars, run, claim, place, history, Claiming, Charging, Patience
<1>13. QED
  BY <1>1, <1>2, <1>3, <1>4, <1>5, <1>6, <1>7, <1>8, <1>9, <1>10, <1>11, <1>12,
     NextIs, StepIs

(* The table, the lock files and the processes have their types.             *)
THEOREM TypeCorrect == Spec => []TypeOK
BY TypeInit, TypeNext, PTL DEF Spec

LEMMA OthersStay ==
  ASSUME TypeOK, NEW p \in Procs, StepOf(p), NEW q \in Procs, q # p
  PROVE  Stays(q)
<1> USE DEF TypeOK, Stays
<1>1. CASE (\E n \in Streams : TakeLock(p, n)) \/ Connect(p)
  BY <1>1 DEF TakeLock, WriteLock, Connect, MoveTo, claim, history
<1>2. CASE FixTime(p) \/ Crash(p) \/ Finish(p)
  BY <1>2 DEF FixTime, Crash, Finish, Die, Exit, Forget, MoveTo
<1>3. CASE InTime(p) \/ StackEmpty(p) \/ LoopDone(p)
  BY <1>3 DEF InTime, StackEmpty, LoopDone, GoTo, MoveTo, run, claim, history
<1>4. CASE GetSub(p)
  BY <1>4 DEF GetSub, MoveTo, run
<1>5. CASE Reschedule(p) \/ RequestCharge(p)
  BY <1>5 DEF Reschedule, RequestCharge, MoveTo, run, claim
<1>6. CASE \E r \in Replies : Answer(p, r)
  BY <1>6 DEF Answer, MoveTo, run, history
<1>7. CASE Unsubscribe(p)
  BY <1>7 DEF Unsubscribe, NextTurn, Forget, MoveTo, history
<1>8. CASE Record(p)
  <2>1. served'[q] = served[q]
    BY <1>8 DEF Record, Outcome, UpdateSub, WriteRow
  <2> QED
    BY <1>8, <2>1 DEF Record, NextTurn, Forget, MoveTo
<1> QED
  BY <1>1, <1>2, <1>3, <1>4, <1>5, <1>6, <1>7, <1>8, StepIs

\* A row is written by the process that holds it, in four actions.
LEMMA RowWriters ==
  ASSUME TypeOK, NEW p \in Procs, StepOf(p), NEW s \in Subs
  PROVE  \/ RowStays(s)
         \/ /\ Holds(p, s) /\ aid[p] = s
            /\ Reschedule(p) \/ Unsubscribe(p) \/ RequestCharge(p) \/ Record(p)
<1> USE DEF TypeOK, RowStays
<1>1. CASE (\E n \in Streams : TakeLock(p, n)) \/ Connect(p)
  BY <1>1 DEF TakeLock, WriteLock, Connect, rowVars, history
<1>2. CASE FixTime(p) \/ Crash(p) \/ Finish(p)
  BY <1>2 DEF FixTime, Crash, Finish, Die, Exit, rowVars
<1>3. CASE InTime(p) \/ StackEmpty(p) \/ LoopDone(p)
  BY <1>3 DEF InTime, StackEmpty, LoopDone, GoTo, rowVars, history
<1>4. CASE GetSub(p) \/ \E r \in Replies : Answer(p, r)
  BY <1>4 DEF GetSub, Answer, rowVars, history
<1>5. CASE Reschedule(p) \/ RequestCharge(p) \/ Unsubscribe(p)
  <2>1. Claiming(p)
    BY <1>5 DEF Reschedule, RequestCharge, Unsubscribe, Claiming
  <2>2. CASE aid[p] = s
    BY <1>5, <2>1, <2>2 DEF Holds
  <2>3. CASE aid[p] # s
    BY <1>5, <2>3 DEF Reschedule, RequestCharge, Unsubscribe, rowVars, history
  <2> QED
    BY <2>2, <2>3
<1>6. CASE Record(p)
  <2>1. Charging(p)
    BY <1>6 DEF Record, Charging
  <2>2. CASE aid[p] = s
    BY <1>6, <2>1, <2>2 DEF Holds
  <2>3. CASE aid[p] # s
    <3>1. ASSUME NEW ok, NEW d, NEW r, UpdateSub(p, ok, d, r) PROVE RowStays(s)
      BY <2>3, <3>1 DEF UpdateSub, WriteRow
    <3> QED
      BY <1>6, <3>1 DEF Record, Outcome, rowVars
  <2> QED
    BY <2>2, <2>3
<1> QED
  BY <1>1, <1>2, <1>3, <1>4, <1>5, <1>6, StepIs

LEMMA RowsStay ==
  ASSUME TypeOK, NEW p \in Procs, StepOf(p), NEW s \in Subs, ~Holds(p, s)
  PROVE  RowStays(s)
BY RowWriters

\* A disturbed row stays disturbed.
LEMMA SetsGrow ==
  ASSUME TypeOK, NEW p \in Procs, StepOf(p)
  PROVE  /\ torn \subseteq torn' /\ unmoved \subseteq unmoved'
         /\ outlived' = outlived
         /\ \A s : Undisturbed(s)' => Undisturbed(s)
<1>1. torn \subseteq torn' /\ unmoved \subseteq unmoved' /\ outlived' = outlived
  BY StepIs DEF TakeLock, WriteLock, Connect, FixTime, Crash, Finish, Die, Exit,
    InTime, StackEmpty, LoopDone, GoTo, GetSub, Reschedule, Unsubscribe,
    RequestCharge, Answer, Record, history
<1> QED
  BY <1>1 DEF Undisturbed

-----------------------------------------------------------------------------
(* The lock: while no run of a stream has been on when its lock expired, the *)
(* run that is on owns a live lock, so nobody else comes in, and finish()    *)
(* removes what is its own.                                                  *)
RunIsLocked ==
  \A p \in Procs : Running(p) /\ stream[p] \notin outlived => lock[stream[p]] > 0
ClaimOfStream ==
  \A p \in Procs : Claiming(p) \/ Charging(p) => StreamOf[aid[p]] = stream[p]
LockInv == OneRunPerStream /\ RunIsLocked /\ ClaimOfStream /\ TornOnlyPastLock

LEMMA LockInit == Init => LockInv
BY DEF Init, LockInv, OneRunPerStream, RunIsLocked, ClaimOfStream,
       TornOnlyPastLock, Running, Claiming, Charging

LEMMA LockStep ==
  ASSUME TypeOK, TypeOK', LockInv, NEW p \in Procs, StepOf(p)
  PROVE  LockInv'
<1> USE DEF LockInv
<1>0. /\ \A q \in Procs : q # p => Stays(q)
      /\ outlived' = outlived
  BY OthersStay, SetsGrow
<1>1. ASSUME NEW n \in Streams, TakeLock(p, n)
      PROVE  OneRunPerStream' /\ RunIsLocked' /\ ClaimOfStream' /\ TornOnlyPastLock'
  <2>1. /\ lock[n] = 0 /\ lock' = [lock EXCEPT ![n] = RunLimit]
        /\ stream'[p] = n /\ pc'[p] = "locked" /\ torn' = torn
    BY <1>1 DEF TakeLock, WriteLock, MoveTo, history, TypeOK
  <2>2. \A q \in Procs : Running(q) /\ stream[q] = n => n \in outlived
    BY <2>1 DEF RunIsLocked
  <2>3. OneRunPerStream'
    BY <1>0, <2>1, <2>2 DEF OneRunPerStream, Running, Stays
  <2>4. lock'[n] > 0 /\ \A m \in Streams : m # n => lock'[m] = lock[m]
    BY <2>1, TimeAssumption DEF TypeOK
  <2>5. RunIsLocked'
    BY <1>0, <2>1, <2>4 DEF RunIsLocked, Running, Stays, TypeOK
  <2> QED
    BY <1>0, <2>1, <2>3, <2>5
    DEF ClaimOfStream, TornOnlyPastLock, Claiming, Charging, Stays
<1>2. ASSUME FixTime(p) \/ Crash(p) \/ Finish(p)
      PROVE  OneRunPerStream' /\ RunIsLocked' /\ ClaimOfStream' /\ TornOnlyPastLock'
  <2>1. /\ pc'[p] = "off" /\ torn' = torn
        /\ lock' = lock \/ lock' = [lock EXCEPT ![stream[p]] = 0]
    BY <1>2 DEF FixTime, Crash, Finish, Die, Exit, MoveTo, TypeOK
  <2>2. Running(p)
    BY <1>2 DEF FixTime, AtLoopTop, Crash, Finish, Running
  <2>3. OneRunPerStream'
    BY <1>0, <2>1 DEF OneRunPerStream, Running, Stays
  <2>4. RunIsLocked'
    <3> SUFFICES ASSUME NEW q \in Procs, Running(q)', stream'[q] \notin outlived'
                 PROVE  lock'[stream'[q]] > 0
      BY DEF RunIsLocked
    <3>1. q # p /\ stream'[q] = stream[q] /\ Running(q)
      BY <1>0, <2>1 DEF Running, Stays
    <3>2. stream[q] # stream[p]
      BY <1>0, <2>2, <3>1 DEF OneRunPerStream
    <3> QED
      BY <1>0, <2>1, <3>1, <3>2 DEF RunIsLocked, TypeOK
  <2> QED
    BY <1>0, <2>1, <2>3, <2>4
    DEF ClaimOfStream, TornOnlyPastLock, Claiming, Charging, Stays
<1>3. ASSUME GetSub(p)
      PROVE  OneRunPerStream' /\ RunIsLocked' /\ ClaimOfStream' /\ TornOnlyPastLock'
  <2>1. PICK s \in Subs :
          /\ StreamOf[s] = stream[p] /\ aid'[p] = s
          /\ torn' = IF \E q \in Procs \ {p} : pc[q] = "selected" /\ aid[q] = s
                     THEN torn \union {s} ELSE torn
    BY <1>3 DEF GetSub, DueRows, TypeOK
  <2>2. /\ pc'[p] = "selected" /\ pc[p] = "checked" /\ stream' = stream
        /\ lock' = lock
    BY <1>3 DEF GetSub, MoveTo, run, TypeOK
  <2>3. OneRunPerStream' /\ RunIsLocked' /\ ClaimOfStream'
    BY <1>0, <2>1, <2>2
    DEF OneRunPerStream, RunIsLocked, ClaimOfStream, Running, Claiming, Charging,
        Stays
  <2>4. ASSUME NEW q \in Procs, q # p, pc[q] = "selected", aid[q] = s
        PROVE  stream[p] \in outlived
    <3>1. stream[q] = stream[p]
      BY <2>1, <2>4 DEF ClaimOfStream, Claiming
    <3> QED
      BY <2>2, <2>4, <3>1 DEF OneRunPerStream, Running
  <2>5. TornOnlyPastLock'
    BY <1>0, <2>1, <2>4 DEF TornOnlyPastLock
  <2> QED
    BY <2>3, <2>5
<1>4. ASSUME \/ Connect(p) \/ InTime(p) \/ StackEmpty(p) \/ LoopDone(p)
             \/ Reschedule(p) \/ Unsubscribe(p) \/ RequestCharge(p)
             \/ (\E r \in Replies : Answer(p, r)) \/ Record(p)
      PROVE  OneRunPerStream' /\ RunIsLocked' /\ ClaimOfStream' /\ TornOnlyPastLock'
  <2>1. stream' = stream /\ lock' = lock /\ torn' = torn
    BY <1>4 DEF Connect, InTime, StackEmpty, LoopDone, GoTo, Reschedule,
      Unsubscribe, RequestCharge, Answer, Record, run, history
  <2>2. Running(p) /\ Running(p)'
    BY <1>4 DEF Connect, InTime, AtLoopTop, StackEmpty, LoopDone, GoTo, Reschedule,
      Unsubscribe, RequestCharge, Answer, Record, NextTurn, MoveTo, Running, TypeOK
  <2>3. (Claiming(p) \/ Charging(p))' =>
          (Claiming(p) \/ Charging(p)) /\ aid'[p] = aid[p]
    BY <1>4 DEF Connect, InTime, StackEmpty, LoopDone, GoTo, Reschedule,
      Unsubscribe, RequestCharge, Answer, Record, NextTurn, MoveTo, claim,
      Claiming, Charging, TypeOK
  <2> QED
    BY <1>0, <2>1, <2>2, <2>3
    DEF OneRunPerStream, RunIsLocked, ClaimOfStream, TornOnlyPastLock, Running,
        Claiming, Charging, Stays
<1> QED
  BY <1>1, <1>2, <1>3, <1>4, StepIs

LEMMA LockTick == TypeOK /\ LockInv /\ Tick => LockInv'
<1> SUFFICES ASSUME TypeOK, LockInv, Tick PROVE LockInv'
  OBVIOUS
<1>1. /\ UNCHANGED <<pc, stream, aid, torn>>
      /\ outlived \subseteq outlived'
      /\ \A n \in Streams : lock'[n] = Less(lock[n])
      /\ \A p \in Procs : Running(p) /\ Less(lock[stream[p]]) = 0
                            => stream[p] \in outlived'
  BY DEF Tick
<1>2. RunIsLocked'
  <2> SUFFICES ASSUME NEW p \in Procs, Running(p)', stream'[p] \notin outlived'
               PROVE  lock'[stream'[p]] > 0
    BY DEF RunIsLocked
  <2>1. lock'[stream[p]] = Less(lock[stream[p]]) /\ lock'[stream[p]] # 0
    BY <1>1 DEF TypeOK, Running
  <2>2. lock[stream[p]] \in Nat
    BY TimeAssumption DEF TypeOK
  <2>3. Less(lock[stream[p]]) \in Nat
    BY <2>2, ClockStays
  <2> QED
    BY <1>1, <2>1, <2>3
<1> QED
  BY <1>1, <1>2 DEF LockInv, OneRunPerStream, ClaimOfStream, TornOnlyPastLock,
    Running, Claiming, Charging

LEMMA LockNext == TypeOK /\ TypeOK' /\ LockInv /\ [Next]_vars => LockInv'
<1>1. ASSUME LockInv, UNCHANGED vars PROVE LockInv'
  BY <1>1 DEF vars, place, run, claim, history, LockInv, OneRunPerStream,
    RunIsLocked, ClaimOfStream, TornOnlyPastLock, Running, Claiming, Charging
<1> QED
  BY <1>1, LockStep, LockTick, NextIs

LEMMA LockHolds == Spec => [](TypeOK /\ LockInv)
BY TypeCorrect, LockInit, LockNext, PTL DEF Spec

(* Two runs of a stream are on together only once a run of that stream has   *)
(* been on when its lock expired (testal.php:370-377), however the runs are  *)
(* interleaved and wherever they die.                                        *)
THEOREM OneRunCorrect == Spec => []OneRunPerStream
BY LockHolds, PTL DEF LockInv

(* And only then can two runs read a row before either moves its date        *)
(* (testal.php:79-104).                                                      *)
THEOREM TornOnlyPastLockCorrect == Spec => []TornOnlyPastLock
BY LockHolds, PTL DEF LockInv

-----------------------------------------------------------------------------
(* The date: a row no UPDATE failed on and no two runs read at once has one  *)
(* holder, who finds it as it was read, and is not due until the answer is   *)
(* recorded.                                                                 *)
DateAhead ==
  \A p \in Procs : Undisturbed(aid[p]) =>
    /\ pc[p] = "postponed" => due[aid[p]] + waited[p] >= Postpone - Pause
    /\ pc[p] = "waiting" => due[aid[p]] + waited[p] >= Postpone - 2 * Pause
    /\ pc[p] = "answered" =>
         due[aid[p]] + waited[p] >= Postpone - 2 * Pause - AnswerLimit
DateInv == OneClaimPerSub /\ NoLostUpdate /\ DateAhead

LEMMA DateInit == Init => DateInv
BY DEF Init, DateInv, OneClaimPerSub, NoLostUpdate, DateAhead, Holds, Claiming,
       Charging

\* From the UPDATE to the record the row is not due.
LEMMA HeldRowNotDue ==
  ASSUME TypeOK, DateAhead, NEW q \in Procs, NEW s \in Subs, Holds(q, s),
         pc[q] # "selected", Undisturbed(s)
  PROVE  due[s] > 0
<1>1. aid[q] = s /\ pc[q] \in {"postponed", "waiting", "answered"}
  BY DEF Holds, Claiming, Charging
<1>2. /\ due[s] \in Nat /\ waited[q] \in Nat /\ Postpone \in Nat
      /\ Pause \in Nat /\ AnswerLimit \in Nat /\ 3 * Pause + AnswerLimit < Postpone
      /\ waited[q] <= Patience(q)
  BY TimeAssumption, DelayAssumption DEF TypeOK
<1>3. CASE pc[q] = "postponed"
  <2>1. waited[q] <= Pause /\ due[s] + waited[q] >= Postpone - Pause
    BY <1>1, <1>2, <1>3 DEF Patience, DateAhead
  <2> QED
    BY <1>2, <2>1
<1>4. CASE pc[q] = "waiting"
  <2>1. waited[q] <= AnswerLimit /\ due[s] + waited[q] >= Postpone - 2 * Pause
    BY <1>1, <1>2, <1>4 DEF Patience, DateAhead
  <2> QED
    BY <1>2, <2>1
<1>5. CASE pc[q] = "answered"
  <2>1. /\ waited[q] <= Pause
        /\ due[s] + waited[q] >= Postpone - 2 * Pause - AnswerLimit
    BY <1>1, <1>2, <1>5 DEF Patience, DateAhead
  <2> QED
    BY <1>2, <2>1
<1> QED
  BY <1>1, <1>3, <1>4, <1>5

\* What a SELECT returns, if it stays undisturbed, is nobody's.
LEMMA ReadRowIsFree ==
  ASSUME TypeOK, DateInv, NEW p \in Procs, GetSub(p), Undisturbed(aid[p])'
  PROVE  /\ aid'[p] \in Subs /\ ready[aid'[p]] /\ due[aid'[p]] = 0
         /\ seen'[p].t = last[aid'[p]].t /\ seen'[p].ok = last[aid'[p]].ok
         /\ Undisturbed(aid'[p])
         /\ \A q \in Procs : ~Holds(q, aid'[p])
<1>1. PICK s \in DueRows(stream[p]) :
        /\ aid' = [aid EXCEPT ![p] = s]
        /\ seen' = [seen EXCEPT ![p] = [t |-> last[s].t, ok |-> last[s].ok,
                                        age |-> age[s]]]
        /\ torn' = IF \E q \in Procs \ {p} : pc[q] = "selected" /\ aid[q] = s
                   THEN torn \union {s} ELSE torn
  BY DEF GetSub
<1>2. /\ s \in Subs /\ ready[s] /\ due[s] = 0 /\ aid'[p] = s
      /\ seen'[p].t = last[s].t /\ seen'[p].ok = last[s].ok
  BY <1>1 DEF DueRows, TypeOK
<1>3. pc[p] = "checked" /\ unmoved' = unmoved
  BY DEF GetSub
<1>4. /\ Undisturbed(s)
      /\ ~ \E q \in Procs \ {p} : pc[q] = "selected" /\ aid[q] = s
  BY <1>1, <1>2, <1>3 DEF Undisturbed
<1>5. ASSUME NEW q \in Procs, Holds(q, s) PROVE FALSE
  <2>1. pc[q] # "selected"
    BY <1>3, <1>4, <1>5 DEF Holds, Claiming, Charging
  <2>2. due[s] > 0
    BY <1>2, <1>4, <1>5, <2>1, HeldRowNotDue DEF DateInv
  <2> QED
    BY <1>2, <2>2
<1> QED
  BY <1>2, <1>4, <1>5

\* A step that keeps the claim of its process.
LEMMA ClaimGoesOn ==
  ASSUME TypeOK, NEW p \in Procs, StepOf(p), (Claiming(p) \/ Charging(p))',
         ~GetSub(p)
  PROVE  /\ aid'[p] = aid[p] /\ Holds(p, aid[p]) /\ seen'[p] = seen[p]
         /\ ready' = ready /\ last' = last
         /\ Reschedule(p) \/ RequestCharge(p) \/ \E r \in Replies : Answer(p, r)
<1>1. Reschedule(p) \/ RequestCharge(p) \/ \E r \in Replies : Answer(p, r)
  <2>1. pc'[p] \in {"selected", "postponed", "waiting", "answered"}
    BY DEF Claiming, Charging
  <2>2. ASSUME NEW n \in Streams PROVE ~TakeLock(p, n)
    BY <2>1 DEF TakeLock, WriteLock, MoveTo, TypeOK
  <2>3. ~Connect(p) /\ ~InTime(p) /\ ~StackEmpty(p) /\ ~LoopDone(p)
    BY <2>1 DEF Connect, InTime, StackEmpty, LoopDone, GoTo, MoveTo, TypeOK
  <2>4. ~FixTime(p) /\ ~Crash(p) /\ ~Finish(p)
    BY <2>1 DEF FixTime, Crash, Finish, Die, Exit, MoveTo, TypeOK
  <2>5. ~Unsubscribe(p) /\ ~Record(p)
    BY <2>1 DEF Unsubscribe, Record, NextTurn, MoveTo, TypeOK
  <2> QED
    BY <2>2, <2>3, <2>4, <2>5, StepIs
<1> QED
  BY <1>1 DEF Reschedule, RequestCharge, Answer, MoveTo, rowVars, claim, Holds,
    Claiming, Charging

LEMMA DateStep ==
  ASSUME TypeOK, TypeOK', DateInv, NEW p \in Procs, StepOf(p)
  PROVE  DateInv'
<1> DEFINE Held(q) == Claiming(q) \/ Charging(q)
<1>0. /\ \A q \in Procs : q # p => Stays(q)
      /\ \A s : Undisturbed(s)' => Undisturbed(s)
  BY OthersStay, SetsGrow
\* The other processes, and what they hold.
<1>1. ASSUME NEW q \in Procs, q # p, Held(q)', Undisturbed(aid[q])'
      PROVE  /\ Held(q) /\ aid'[q] = aid[q] /\ aid[q] \in Subs
             /\ Undisturbed(aid[q]) /\ ~Holds(p, aid[q]) /\ RowStays(aid[q])
             /\ pc'[q] = pc[q] /\ waited'[q] = waited[q] /\ seen'[q] = seen[q]
  <2>1. Stays(q)
    BY <1>0, <1>1
  <2>2. Held(q) /\ aid'[q] = aid[q] /\ aid[q] \in Subs /\ Undisturbed(aid[q])
    BY <1>0, <1>1, <2>1 DEF Stays, Claiming, Charging, TypeOK
  <2>3. ~Holds(p, aid[q])
    BY <1>1, <2>2 DEF DateInv, OneClaimPerSub, Holds
  <2> QED
    BY <2>1, <2>2, <2>3, RowsStay DEF Stays
\* The process that steps.
<1>2. ASSUME Held(p)', Undisturbed(aid[p])', GetSub(p)
      PROVE  /\ aid'[p] \in Subs /\ \A q \in Procs : ~Holds(q, aid'[p])
             /\ ready'[aid'[p]]
             /\ last'[aid'[p]] = [t |-> seen'[p].t, ok |-> seen'[p].ok]
             /\ pc'[p] = "selected"
  <2>1. ready' = ready /\ last' = last /\ pc'[p] = "selected"
    BY <1>2 DEF GetSub, MoveTo, rowVars, TypeOK
  <2>2. /\ aid'[p] \in Subs /\ ready[aid'[p]]
        /\ seen'[p].t = last[aid'[p]].t /\ seen'[p].ok = last[aid'[p]].ok
        /\ \A q \in Procs : ~Holds(q, aid'[p])
    BY <1>2, ReadRowIsFree
  <2>3. last[aid'[p]] \in Transaction
    BY <2>2 DEF TypeOK
  <2>4. last[aid'[p]] = [t |-> last[aid'[p]].t, ok |-> last[aid'[p]].ok]
    BY <2>3 DEF Transaction
  <2> QED
    BY <2>1, <2>2, <2>4
<1>3. ASSUME Held(p)', Undisturbed(aid[p])', ~GetSub(p)
      PROVE  /\ aid'[p] = aid[p] /\ Holds(p, aid[p]) /\ Undisturbed(aid[p])
             /\ ready'[aid[p]]
             /\ last'[aid[p]] = [t |-> seen'[p].t, ok |-> seen'[p].ok]
  <2>1. /\ aid'[p] = aid[p] /\ Holds(p, aid[p]) /\ seen'[p] = seen[p]
        /\ ready' = ready /\ last' = last
    BY <1>3, ClaimGoesOn
  <2>2. Undisturbed(aid[p])
    BY <1>0, <1>3, <2>1
  <2> QED
    BY <2>1, <2>2 DEF DateInv, NoLostUpdate, Holds
<1>4. OneClaimPerSub'
  <2> SUFFICES ASSUME NEW q \in Procs, NEW r \in Procs, NEW s \in Subs, q # r,
                      Holds(q, s)', Holds(r, s)', Undisturbed(s)'
               PROVE  FALSE
    BY DEF OneClaimPerSub
  <2>1. ASSUME NEW o \in Procs, o # p, Holds(o, s)', Holds(p, s)'
        PROVE  FALSE
    <3>1. Holds(o, s) /\ ~Holds(p, s)
      BY <1>1, <2>1 DEF Holds
    <3>2. GetSub(p)
      BY <1>3, <2>1, <3>1 DEF Holds
    <3> QED
      BY <1>2, <2>1, <3>1, <3>2 DEF Holds
  <2>2. CASE q # p /\ r # p
    <3>1. Holds(q, s) /\ Holds(r, s) /\ Undisturbed(s)
      BY <1>0, <1>1, <2>2 DEF Holds
    <3> QED
      BY <3>1 DEF DateInv, OneClaimPerSub
  <2> QED
    BY <2>1, <2>2
<1>5. NoLostUpdate'
  <2> SUFFICES ASSUME NEW q \in Procs, Held(q)', Undisturbed(aid[q])'
               PROVE  /\ ready'[aid'[q]]
                      /\ last'[aid'[q]] = [t |-> seen'[q].t, ok |-> seen'[q].ok]
    BY DEF NoLostUpdate
  <2>1. CASE q # p
    BY <1>1, <2>1 DEF RowStays, DateInv, NoLostUpdate
  <2> QED
    BY <1>2, <1>3, <2>1
<1>6. DateAhead'
  <2> SUFFICES ASSUME NEW q \in Procs, Undisturbed(aid[q])'
               PROVE  (/\ pc[q] = "postponed" =>
                            due[aid[q]] + waited[q] >= Postpone - Pause
                       /\ pc[q] = "waiting" =>
                            due[aid[q]] + waited[q] >= Postpone - 2 * Pause
                       /\ pc[q] = "answered" => due[aid[q]] + waited[q] >=
                            Postpone - 2 * Pause - AnswerLimit)'
    BY DEF DateAhead
  <2>0. Held(q)' \/ pc'[q] \notin {"postponed", "waiting", "answered"}
    BY DEF Claiming, Charging
  <2>1. CASE q # p
    BY <1>1, <2>0, <2>1 DEF RowStays, DateInv, DateAhead
  <2>2. CASE q = p /\ Held(p)' /\ ~GetSub(p)
    <3>1. /\ aid'[p] = aid[p] /\ Undisturbed(aid[p]) /\ aid[p] \in Subs
          /\ Reschedule(p) \/ RequestCharge(p) \/ \E r \in Replies : Answer(p, r)
      BY <1>3, <2>2, ClaimGoesOn DEF TypeOK, Holds
    <3>2. /\ due[aid[p]] \in Nat /\ waited[p] \in Nat /\ waited[p] <= Patience(p)
          /\ Postpone \in Nat /\ Pause \in Nat /\ AnswerLimit \in Nat
      BY <3>1, TimeAssumption DEF TypeOK
    <3>3. waited'[p] = 0
      BY <3>1 DEF Reschedule, RequestCharge, Answer, MoveTo, TypeOK
    <3>4. CASE Reschedule(p)
      <4>1. pc'[p] = "postponed" /\ waited[p] <= Pause
        BY <3>2, <3>4 DEF Reschedule, MoveTo, Patience, TypeOK
      <4>2. aid[p] \notin unmoved'
        BY <2>2, <3>1 DEF Undisturbed
      <4>3. PICK d \in 0..waited[p] : due' = [due EXCEPT ![aid[p]] = Postpone - d]
        BY <3>1, <3>4, <4>2 DEF Reschedule, TypeOK
      <4>4. due'[aid[p]] = Postpone - d
        BY <3>1, <4>3 DEF TypeOK
      <4>5. due'[aid[p]] + waited'[p] >= Postpone - Pause
        BY <3>2, <3>3, <4>1, <4>3, <4>4
      <4> QED
        BY <2>2, <3>1, <4>1, <4>5
    <3>5. CASE RequestCharge(p)
      <4>1. /\ pc'[p] = "waiting" /\ pc[p] = "postponed" /\ waited[p] <= Pause
            /\ due' = due
        BY <3>2, <3>5 DEF RequestCharge, MoveTo, Patience, rowVars, TypeOK
      <4>2. due[aid[p]] + waited[p] >= Postpone - Pause
        BY <3>1, <4>1 DEF DateInv, DateAhead
      <4>3. due'[aid[p]] + waited'[p] >= Postpone - 2 * Pause
        BY <3>2, <3>3, <4>1, <4>2
      <4> QED
        BY <2>2, <3>1, <4>1, <4>3
    <3>6. CASE \E r \in Replies : Answer(p, r)
      <4>1. /\ pc'[p] = "answered" /\ pc[p] = "waiting" /\ waited[p] <= AnswerLimit
            /\ due' = due
        BY <3>2, <3>6 DEF Answer, MoveTo, Patience, rowVars, TypeOK
      <4>2. due[aid[p]] + waited[p] >= Postpone - 2 * Pause
        BY <3>1, <4>1 DEF DateInv, DateAhead
      <4>3. due'[aid[p]] + waited'[p] >= Postpone - 2 * Pause - AnswerLimit
        BY <3>2, <3>3, <4>1, <4>2
      <4> QED
        BY <2>2, <3>1, <4>1, <4>3
    <3> QED
      BY <3>1, <3>4, <3>5, <3>6
  <2>3. CASE GetSub(p) /\ q = p
    <3>1. pc'[p] = "selected"
      BY <2>3 DEF GetSub, MoveTo, TypeOK
    <3> QED
      BY <2>3, <3>1
  <2> QED
    BY <2>0, <2>1, <2>2, <2>3
<1> QED
  BY <1>4, <1>5, <1>6 DEF DateInv

LEMMA DateTick == TypeOK /\ DateInv /\ Tick => DateInv'
<1> SUFFICES ASSUME TypeOK, DateInv, Tick PROVE DateInv'
  OBVIOUS
<1>1. /\ UNCHANGED <<pc, aid, ready, last, torn, unmoved>>
      /\ \A s \in Subs : due'[s] = Less(due[s])
      /\ \A p \in Procs : waited'[p] = waited[p] + (IF Running(p) THEN 1 ELSE 0)
      /\ \A p \in Procs : seen'[p].t = seen[p].t /\ seen'[p].ok = seen[p].ok
  BY DEF Tick, TypeOK
<1>2. OneClaimPerSub' /\ NoLostUpdate'
  BY <1>1 DEF DateInv, OneClaimPerSub, NoLostUpdate, Holds, Claiming, Charging,
    Undisturbed
<1>3. ASSUME NEW p \in Procs, pc[p] \in {"postponed", "waiting", "answered"}
      PROVE  /\ due'[aid[p]] + waited'[p] >= due[aid[p]] + waited[p]
             /\ due[aid[p]] + waited[p] \in Int /\ due'[aid[p]] + waited'[p] \in Int
  <2>1. /\ due'[aid[p]] = Less(due[aid[p]]) /\ waited'[p] = waited[p] + 1
        /\ due[aid[p]] \in Nat /\ waited[p] \in Nat
    BY <1>1, <1>3 DEF TypeOK, Claiming, Charging, Running
  <2>2. /\ Less(due[aid[p]]) \in Nat /\ Less(due[aid[p]]) + 1 >= due[aid[p]]
    BY <2>1, ClockStays
  <2> QED
    BY <2>1, <2>2
<1>4. DateAhead'
  <2> SUFFICES ASSUME NEW p \in Procs, Undisturbed(aid[p])',
                      pc[p] \in {"postponed", "waiting", "answered"}
               PROVE  (/\ pc[p] = "postponed" =>
                            due[aid[p]] + waited[p] >= Postpone - Pause
                       /\ pc[p] = "waiting" =>
                            due[aid[p]] + waited[p] >= Postpone - 2 * Pause
                       /\ pc[p] = "answered" => due[aid[p]] + waited[p] >=
                            Postpone - 2 * Pause - AnswerLimit)'
    BY <1>1 DEF DateAhead
  <2>1. /\ Postpone - Pause \in Int /\ Postpone - 2 * Pause \in Int
        /\ Postpone - 2 * Pause - AnswerLimit \in Int
    BY TimeAssumption
  <2>2. /\ pc'[p] = pc[p] /\ aid'[p] = aid[p] /\ Undisturbed(aid[p])
    BY <1>1 DEF Undisturbed
  <2>3. \A k \in Int : due[aid[p]] + waited[p] >= k => due'[aid[p]] + waited'[p] >= k
    BY <1>3
  <2> QED
    BY <2>1, <2>2, <2>3 DEF DateInv, DateAhead
<1> QED
  BY <1>2, <1>4 DEF DateInv

LEMMA DateNext == TypeOK /\ TypeOK' /\ DateInv /\ [Next]_vars => DateInv'
<1>1. ASSUME DateInv, UNCHANGED vars PROVE DateInv'
  BY <1>1 DEF vars, rowVars, place, run, claim, history, DateInv, OneClaimPerSub,
    NoLostUpdate, DateAhead, Holds, Claiming, Charging, Undisturbed
<1> QED
  BY <1>1, DateStep, DateTick, NextIs

LEMMA DateHolds == Spec => [](TypeOK /\ DateInv)
BY TypeCorrect, DateInit, DateNext, PTL DEF Spec

(* A row has one holder at a time unless its UPDATE failed or a second run   *)
(* read it before the UPDATE (testal.php:79-104, 266-328): overlapping runs, *)
(* expired or removed locks, late answers and dying runs change nothing.     *)
THEOREM OneClaimCorrect == Spec => []OneClaimPerSub
BY DateHolds, PTL DEF DateInv

(* The row written back after the answer (testal.php:284, 300, 323) is then  *)
(* still the row that was read.                                              *)
THEOREM NoLostUpdateCorrect == Spec => []NoLostUpdate
BY DateHolds, PTL DEF DateInv

-----------------------------------------------------------------------------
(* The gap: the date and the time since the last request whose outcome is    *)
(* not recorded make up the 12 hours together, so that a row that is due, or *)
(* claimed since it was due, was asked about 12 hours ago.                   *)
DueAfterGap ==
  \A s \in Subs : Undisturbed(s) => due[s] + gap[s] + 2 * Pause >= Postpone
ClaimAfterGap ==
  \A p \in Procs : Claiming(p) /\ Undisturbed(aid[p]) => Spaced(aid[p])
GapInv == DueAfterGap /\ ClaimAfterGap

LEMMA GapInit == Init => GapInv
BY TimeAssumption DEF Init, GapInv, DueAfterGap, ClaimAfterGap, Claiming

LEMMA GapStep ==
  ASSUME TypeOK, TypeOK', DateInv, GapInv, NEW p \in Procs, StepOf(p)
  PROVE  GapInv'
<1> USE DEF GapInv
<1>0. /\ \A q \in Procs : q # p => Stays(q)
      /\ \A s : Undisturbed(s)' => Undisturbed(s)
      /\ Postpone \in Nat /\ Pause \in Nat
  BY OthersStay, SetsGrow, TimeAssumption
<1>1. ASSUME NEW s \in Subs, Undisturbed(s)'
      PROVE  due'[s] + gap'[s] + 2 * Pause >= Postpone
  <2>1. /\ Undisturbed(s) /\ due[s] + gap[s] + 2 * Pause >= Postpone
        /\ due[s] \in Nat /\ gap[s] \in Nat /\ due'[s] \in Nat
    BY <1>0, <1>1 DEF DueAfterGap, TypeOK
  <2>2. CASE RowStays(s)
    BY <2>1, <2>2 DEF RowStays
  <2>3. CASE aid[p] = s /\ Reschedule(p)
    <3>1. waited[p] \in Nat /\ waited[p] <= Pause /\ gap' = gap
      BY <2>3 DEF Reschedule, Patience, TypeOK
    <3>2. PICK d \in 0..waited[p] : due' = [due EXCEPT ![s] = Postpone - d]
      BY <1>1, <2>3 DEF Reschedule, Undisturbed
    <3>3. due'[s] = Postpone - d
      BY <3>2 DEF TypeOK
    <3> QED
      BY <1>0, <2>1, <3>1, <3>2, <3>3
  <2>4. CASE aid[p] = s /\ RequestCharge(p)
    <3>1. /\ gap'[s] = 0 /\ due' = due /\ waited[p] \in Nat /\ waited[p] <= Pause
          /\ due[s] + waited[p] >= Postpone - Pause
      BY <2>1, <2>4 DEF RequestCharge, rowVars, Patience, TypeOK, DateInv, DateAhead
    <3> QED
      BY <1>0, <2>1, <3>1
  <2>5. CASE aid[p] = s /\ Unsubscribe(p)
    BY <2>1, <2>5 DEF Unsubscribe, history
  <2>6. CASE aid[p] = s /\ Record(p)
    <3>1. ASSUME NEW ok, NEW d, NEW r, UpdateSub(p, ok, d, r)
          PROVE  gap'[s] = Postpone
      BY <2>6, <3>1 DEF UpdateSub, WriteRow, TypeOK
    <3>2. CASE gap'[s] = Postpone
      BY <1>0, <2>1, <3>2
    <3> QED
      BY <2>1, <2>6, <3>1, <3>2 DEF Record, Outcome, rowVars
  <2> QED
    BY <2>2, <2>3, <2>4, <2>5, <2>6, RowWriters
<1>2. ASSUME NEW q \in Procs, Claiming(q)', Undisturbed(aid[q])'
      PROVE  Spaced(aid[q])'
  <2>1. CASE q # p
    <3>1. Claiming(q) /\ aid'[q] = aid[q] /\ aid[q] \in Subs /\ Undisturbed(aid[q])
      BY <1>0, <1>2, <2>1 DEF Stays, Claiming, TypeOK
    <3>2. ~Holds(p, aid[q])
      BY <2>1, <3>1 DEF DateInv, OneClaimPerSub, Holds
    <3>3. gap'[aid[q]] = gap[aid[q]]
      BY <3>1, <3>2, RowsStay DEF RowStays
    <3> QED
      BY <3>1, <3>3 DEF ClaimAfterGap, Spaced
  <2>2. CASE q = p /\ GetSub(p)
    <3>1. aid'[p] \in Subs /\ due[aid'[p]] = 0 /\ Undisturbed(aid'[p]) /\ gap' = gap
      BY <1>2, <2>2, ReadRowIsFree DEF GetSub
    <3>2. gap[aid'[p]] \in Nat /\ 0 + gap[aid'[p]] + 2 * Pause >= Postpone
      BY <3>1 DEF DueAfterGap, TypeOK
    <3> QED
      BY <1>0, <2>2, <3>1, <3>2 DEF Spaced
  <2>3. CASE q = p /\ ~GetSub(p)
    <3>1. /\ aid'[p] = aid[p]
          /\ Reschedule(p) \/ RequestCharge(p) \/ \E r \in Replies : Answer(p, r)
      BY <1>2, <2>3, ClaimGoesOn DEF Claiming
    <3>2. Reschedule(p)
      BY <1>2, <2>3, <3>1 DEF RequestCharge, Answer, MoveTo, Claiming, TypeOK
    <3>3. Claiming(p) /\ Undisturbed(aid[p]) /\ gap' = gap
      BY <1>0, <1>2, <2>3, <3>1, <3>2 DEF Reschedule, Claiming
    <3> QED
      BY <2>3, <3>1, <3>3 DEF ClaimAfterGap, Spaced
  <2> QED
    BY <2>1, <2>2, <2>3
<1> QED
  BY <1>1, <1>2 DEF DueAfterGap, ClaimAfterGap

LEMMA GapTick == TypeOK /\ GapInv /\ Tick => GapInv'
<1> SUFFICES ASSUME TypeOK, GapInv, Tick PROVE GapInv'
  OBVIOUS
<1>1. /\ UNCHANGED <<pc, aid, torn, unmoved>> /\ Postpone \in Nat /\ Pause \in Nat
  BY TimeAssumption DEF Tick
<1>2. ASSUME NEW s \in Subs
      PROVE  /\ due[s] \in Nat /\ due'[s] \in Nat /\ due'[s] + 1 >= due[s]
             /\ gap[s] \in Nat
             /\ (gap'[s] = gap[s] + 1 \/ gap'[s] = Postpone) /\ gap'[s] >= gap[s]
  <2>1. /\ due'[s] = Less(due[s]) /\ due[s] \in Nat
        /\ gap'[s] = More(gap[s], Postpone) /\ gap[s] \in 0..Postpone
    BY DEF Tick, TypeOK
  <2>2. Less(due[s]) \in Nat /\ Less(due[s]) + 1 >= due[s]
    BY <2>1, ClockStays
  <2>3. /\ More(gap[s], Postpone) = gap[s] + 1 \/ More(gap[s], Postpone) = Postpone
        /\ More(gap[s], Postpone) >= gap[s]
    BY <1>1, <2>1 DEF More
  <2> QED
    BY <2>1, <2>2, <2>3
<1>3. DueAfterGap'
  <2> SUFFICES ASSUME NEW s \in Subs, Undisturbed(s)'
               PROVE  due'[s] + gap'[s] + 2 * Pause >= Postpone
    BY DEF DueAfterGap
  <2>1. due[s] + gap[s] + 2 * Pause >= Postpone
    BY <1>1 DEF GapInv, DueAfterGap, Undisturbed
  <2> QED
    BY <1>1, <1>2, <2>1
<1>4. ClaimAfterGap'
  <2> SUFFICES ASSUME NEW p \in Procs, Claiming(p)', Undisturbed(aid[p])'
               PROVE  Spaced(aid[p])'
    BY DEF ClaimAfterGap
  <2>1. aid' = aid /\ aid[p] \in Subs /\ gap[aid[p]] + 2 * Pause >= Postpone
    BY <1>1 DEF GapInv, ClaimAfterGap, Claiming, Undisturbed, Spaced, TypeOK
  <2>2. gap'[aid[p]] + 2 * Pause >= Postpone
    <3>1. /\ gap[aid[p]] \in Nat /\ gap'[aid[p]] >= gap[aid[p]]
          /\ gap'[aid[p]] = gap[aid[p]] + 1 \/ gap'[aid[p]] = Postpone
      BY <1>2, <2>1
    <3> QED
      BY <1>1, <2>1, <3>1
  <2> QED
    BY <2>1, <2>2 DEF Spaced
<1> QED
  BY <1>3, <1>4 DEF GapInv

LEMMA GapNext == TypeOK /\ TypeOK' /\ DateInv /\ GapInv /\ [Next]_vars => GapInv'
<1>1. ASSUME GapInv, UNCHANGED vars PROVE GapInv'
  BY <1>1 DEF vars, rowVars, place, claim, history, GapInv, DueAfterGap,
    ClaimAfterGap, Claiming, Undisturbed, Spaced
<1> QED
  BY <1>1, GapStep, GapTick, NextIs

LEMMA GapHolds == Spec => [](TypeOK /\ DateInv /\ GapInv)
BY DateHolds, GapInit, GapNext, PTL DEF Spec

(* Two requests to charge a subscriber are 12 hours apart, less the time of  *)
(* two statements, unless the first has its outcome recorded, an UPDATE      *)
(* failed or two runs read the row at once (testal.php:99-104, 267): lost    *)
(* answers, dead runs, expired locks and overlapping runs make no            *)
(* difference.                                                               *)
THEOREM UndisturbedSpacedCorrect == Spec => UndisturbedSpaced
<1>1. ASSUME GapInv, NEW p \in Procs, RequestCharge(p), Undisturbed(aid[p])
      PROVE  Spaced(aid[p])
  BY <1>1 DEF GapInv, ClaimAfterGap, RequestCharge, Claiming
<1>2. GapInv /\ [Next]_vars
        => [\A p \in Procs : RequestCharge(p) /\ Undisturbed(aid[p])
              => Spaced(aid[p])]_vars
  BY <1>1
<1> QED
  BY <1>2, GapHolds, PTL DEF UndisturbedSpaced, Spec

-----------------------------------------------------------------------------
(* Nobody holds a row that is off the payments (testal.php:263, 296): it is  *)
(* not put back and not charged by a run that read it before.                *)
THEOREM UnsubscribedCorrect == Spec => UnsubscribedIsFinal
<1>1. ASSUME TypeOK, DateInv, [Next]_vars, NEW s \in Subs, ~ready[s], Undisturbed(s)
      PROVE  ~ready'[s] /\ gap'[s] >= gap[s]
  <2>0. gap[s] \in 0..Postpone /\ Postpone \in Nat
    BY <1>1, TimeAssumption DEF TypeOK
  <2>1. ASSUME NEW p \in Procs PROVE ~Holds(p, s)
    BY <1>1 DEF DateInv, NoLostUpdate, Holds
  <2>2. ASSUME NEW p \in Procs, StepOf(p) PROVE ready'[s] = ready[s] /\ gap'[s] = gap[s]
    BY <1>1, <2>1, <2>2, RowsStay DEF RowStays
  <2>3. CASE Tick
    BY <1>1, <2>0, <2>3 DEF Tick, More
  <2>4. CASE UNCHANGED vars
    BY <1>1, <2>0, <2>4 DEF vars, rowVars, history
  <2> QED
    BY <1>1, <2>0, <2>2, <2>3, <2>4, NextIs
<1>2. TypeOK /\ DateInv /\ [Next]_vars
        => [\A s \in Subs : ~ready[s] /\ Undisturbed(s)
              => ~ready'[s] /\ gap'[s] >= gap[s]]_vars
  BY <1>1
<1> QED
  BY <1>2, DateHolds, PTL DEF UnsubscribedIsFinal, Spec

(* The sum asked for was chosen from the history that was read.              *)
LadderInv ==
  \A p \in Procs : Charging(p) /\ type[p] = Reduced
                     => seen[p].t = Full /\ seen[p].ok = FALSE

LEMMA LadderInit == Init => LadderInv
BY DEF Init, LadderInv, Charging

LEMMA LadderNext == TypeOK /\ LadderInv /\ [Next]_vars => LadderInv'
<1>1. ASSUME TypeOK, LadderInv, NEW p \in Procs, StepOf(p) PROVE LadderInv'
  <2> SUFFICES ASSUME NEW q \in Procs, Charging(q)', type'[q] = Reduced
               PROVE  seen'[q].t = Full /\ seen'[q].ok = FALSE
    BY DEF LadderInv
  <2>1. CASE q # p
    BY <1>1, <2>1, OthersStay DEF Stays, LadderInv, Charging
  <2>2. CASE q = p
    <3>1. RequestCharge(p) \/ \E r \in Replies : Answer(p, r)
      <4>1. ~GetSub(p) /\ ~Reschedule(p)
        BY <1>1, <2>2 DEF GetSub, Reschedule, MoveTo, Charging, TypeOK
      <4> QED
        BY <1>1, <2>2, <4>1, ClaimGoesOn
    <3>2. CASE RequestCharge(p)
      <4>1. NextType(seen[p]) = Reduced /\ seen' = seen
        BY <1>1, <2>2, <3>2 DEF RequestCharge, TypeOK
      <4>2. seen[p].ok \in BOOLEAN
        BY <1>1 DEF TypeOK
      <4> QED
        BY <2>2, <4>1, <4>2 DEF NextType, Full, Reduced
    <3>3. CASE \E r \in Replies : Answer(p, r)
      BY <1>1, <2>2, <3>3 DEF Answer, Charging, LadderInv
    <3> QED
      BY <3>1, <3>2, <3>3
  <2> QED
    BY <2>1, <2>2
<1>2. ASSUME TypeOK, LadderInv, Tick PROVE LadderInv'
  BY <1>2 DEF Tick, LadderInv, Charging, Claiming, TypeOK
<1>3. ASSUME LadderInv, UNCHANGED vars PROVE LadderInv'
  BY <1>3 DEF vars, place, claim, LadderInv, Charging
<1> QED
  BY <1>1, <1>2, <1>3, NextIs

(* A reduced sum is recorded right after a failed full one only              *)
(* (testal.php:126-155): the row the ladder was applied to is still the one  *)
(* the outcome is added to, unless it was read by two runs at once or its    *)
(* UPDATE failed.                                                            *)
THEOREM ReducedCorrect == Spec => ReducedOnlyAfterFailure
<1>1. ASSUME TypeOK, DateInv, LadderInv, [Next]_vars, NEW s \in Subs,
             last'[s].t = Reduced, last'[s] # last[s], Undisturbed(s)
      PROVE  last[s] = [t |-> Full, ok |-> FALSE]
  <2>1. PICK p \in Procs : StepOf(p)
    BY <1>1, NextIs DEF Tick, vars, rowVars
  <2>2. Record(p) /\ aid[p] = s
    BY <1>1, <2>1, RowWriters DEF RowStays, Reschedule, Unsubscribe, RequestCharge,
      rowVars
  <2>3. PICK ok, d, r : UpdateSub(p, ok, d, r)
    BY <1>1, <2>2 DEF Record, Outcome, rowVars
  <2>4. last'[s].t = type[p]
    BY <1>1, <2>2, <2>3 DEF UpdateSub, WriteRow, TypeOK
  <2>5. Charging(p) /\ seen[p].t = Full /\ seen[p].ok = FALSE
    BY <1>1, <2>2, <2>4 DEF LadderInv, Record, Charging
  <2> QED
    BY <1>1, <2>2, <2>5 DEF DateInv, NoLostUpdate
<1>2. TypeOK /\ DateInv /\ LadderInv /\ [Next]_vars
        => [\A s \in Subs : last'[s].t = Reduced /\ last'[s] # last[s] /\ Undisturbed(s)
              => last[s] = [t |-> Full, ok |-> FALSE]]_vars
  BY <1>1
<1>3. Spec => []LadderInv
  BY TypeCorrect, LadderInit, LadderNext, PTL DEF Spec
<1> QED
  BY <1>2, <1>3, DateHolds, PTL DEF ReducedOnlyAfterFailure, Spec

-----------------------------------------------------------------------------
(* A run and the rows it has read: while the run may still read, the date of *)
(* such a row stays beyond the last moment of its SELECTs, and nobody else   *)
(* holds the row.                                                            *)
MayRead(p) == left[p] > 0 \/ pc[p] = "checked"
ServedEmpty ==
  \A p \in Procs : pc[p] \in {"off", "locked"} => left[p] = 0 /\ served[p] = {}
ServedAlone ==
  \A p, q \in Procs, s \in Subs :
    s \in served[p] /\ Undisturbed(s) /\ MayRead(p) /\ Holds(q, s) => q = p
ServedAhead ==
  \A p \in Procs, s \in Subs :
    s \in served[p] /\ Undisturbed(s) /\ ~(pc[p] = "selected" /\ aid[p] = s) =>
      /\ left[p] > 0 => due[s] >= left[p] + Pause + 1
      /\ pc[p] = "checked" => due[s] + waited[p] >= Pause + 1
ServedInv == ServedEmpty /\ ServedAlone /\ ServedAhead

LEMMA ServedInit == Init => ServedInv
BY DEF Init, ServedInv, ServedEmpty, ServedAlone, ServedAhead

\* What a run has read and may read again is not due.
LEMMA ServedNotDue ==
  ASSUME TypeOK, ServedInv, NEW p \in Procs, NEW s \in served[p], Undisturbed(s),
         MayRead(p), ~(pc[p] = "selected" /\ aid[p] = s)
  PROVE  due[s] > 0
<1>1. /\ s \in Subs /\ due[s] \in Nat /\ left[p] \in Nat /\ waited[p] \in Nat
      /\ Pause \in Nat /\ waited[p] <= Patience(p)
  BY TimeAssumption DEF TypeOK
<1>2. CASE left[p] > 0
  <2>1. due[s] >= left[p] + Pause + 1
    BY <1>1, <1>2 DEF ServedInv, ServedAhead
  <2> QED
    BY <1>1, <1>2, <2>1
<1>3. CASE pc[p] = "checked"
  <2>1. due[s] + waited[p] >= Pause + 1 /\ waited[p] <= Pause
    BY <1>1, <1>3 DEF ServedInv, ServedAhead, Patience
  <2> QED
    BY <1>1, <2>1
<1> QED
  BY <1>2, <1>3 DEF MayRead

\* One step of the run: what stays in its hands, and what it has left.
LEMMA ServedBy ==
  ASSUME TypeOK, NEW p \in Procs, StepOf(p)
  PROVE  \/ pc'[p] = "locked" /\ pc[p] = "off" /\ left'[p] = left[p]
            /\ served'[p] = served[p]
         \/ pc'[p] = "off" /\ left'[p] = 0 /\ served'[p] = {}
         \/ Connect(p)
         \/ /\ left'[p] = left[p] /\ pc'[p] \notin {"off", "locked"}
            /\ \/ GetSub(p) /\ served'[p] = served[p] \union {aid'[p]}
               \/ served'[p] \subseteq served[p]
<1> USE DEF TypeOK
<1>1. CASE \E n \in Streams : TakeLock(p, n)
  BY <1>1 DEF TakeLock, WriteLock, MoveTo, history
<1>2. CASE Connect(p)
  BY <1>2
<1>3. CASE FixTime(p) \/ Crash(p) \/ Finish(p)
  BY <1>3 DEF FixTime, Crash, Finish, Die, Exit, MoveTo
<1>4. CASE InTime(p) \/ StackEmpty(p) \/ LoopDone(p)
  BY <1>4 DEF InTime, StackEmpty, LoopDone, GoTo, MoveTo, run, history
<1>5. CASE GetSub(p)
  <2>1. left' = left /\ pc'[p] = "selected"
    BY <1>5 DEF GetSub, MoveTo, run
  <2>2. served'[p] = served[p] \union {aid'[p]}
    BY <1>5 DEF GetSub
  <2> QED
    BY <1>5, <2>1, <2>2
<1>6. CASE Reschedule(p) \/ RequestCharge(p) \/ \E r \in Replies : Answer(p, r)
  BY <1>6 DEF Reschedule, RequestCharge, Answer, MoveTo, run, history
<1>7. CASE Unsubscribe(p)
  BY <1>7 DEF Unsubscribe, NextTurn, MoveTo, history
<1>8. CASE Record(p)
  <2>1. served'[p] \subseteq served[p]
    BY <1>8 DEF Record, Outcome, UpdateSub, WriteRow
  <2> QED
    BY <1>8, <2>1 DEF Record, NextTurn, MoveTo
<1> QED
  BY <1>1, <1>2, <1>3, <1>4, <1>5, <1>6, <1>7, <1>8, StepIs

LEMMA ServedStep ==
  ASSUME TypeOK, TypeOK', DateInv, ServedInv, NEW p \in Procs, StepOf(p)
  PROVE  ServedInv'
<1>0. /\ \A q \in Procs : q # p => Stays(q)
      /\ \A s : Undisturbed(s)' => Undisturbed(s)
  BY OthersStay, SetsGrow
<1>1. ServedEmpty'
  <2> SUFFICES ASSUME NEW q \in Procs, pc'[q] \in {"off", "locked"}
               PROVE  left'[q] = 0 /\ served'[q] = {}
    BY DEF ServedEmpty
  <2>1. CASE q # p
    BY <1>0, <2>1 DEF Stays, ServedInv, ServedEmpty
  <2>2. CASE q = p
    <3>1. ~Connect(p)
      BY <2>2 DEF Connect, MoveTo, TypeOK
    <3> QED
      BY <2>2, <3>1, ServedBy DEF ServedInv, ServedEmpty
  <2> QED
    BY <2>1, <2>2
\* What is newly read, and what was read and is still there.
<1>2. ASSUME NEW q \in Procs, NEW s \in Subs, s \in served'[q], Undisturbed(s)',
             MayRead(q)', ~(q = p /\ GetSub(p) /\ aid'[p] = s)
      PROVE  s \in served[q] /\ MayRead(q) /\ Undisturbed(s)
  <2>1. Undisturbed(s)
    BY <1>0, <1>2
  <2>2. CASE q # p
    BY <1>0, <1>2, <2>1, <2>2 DEF Stays, MayRead
  <2>3. CASE q = p
    <3>1. pc'[p] \notin {"off", "locked"}
      BY <1>1, <1>2, <2>3 DEF ServedEmpty
    <3>2. ~Connect(p)
      <4>1. ASSUME Connect(p) PROVE FALSE
        <5>1. served'[p] = served[p] /\ pc[p] = "locked"
          BY <4>1 DEF Connect, history
        <5> QED
          BY <1>2, <2>3, <5>1 DEF ServedInv, ServedEmpty
      <4> QED
        BY <4>1
    <3>3. s \in served[p] /\ left'[p] = left[p]
      BY <1>2, <2>3, <3>1, <3>2, ServedBy
    <3>4. pc'[p] = "checked" => left[p] > 0
      BY <1>2, <2>3, <3>2, StepIs DEF TakeLock, WriteLock, FixTime, Crash, Finish,
        Die, Exit, InTime, StackEmpty, LoopDone, GoTo, GetSub, Reschedule,
        Unsubscribe, RequestCharge, Answer, Record, NextTurn, MoveTo, TypeOK
    <3> QED
      BY <1>2, <2>1, <2>3, <3>3, <3>4 DEF MayRead
  <2> QED
    BY <2>2, <2>3
<1>3. ServedAlone'
  <2> SUFFICES ASSUME NEW q \in Procs, NEW r \in Procs, NEW s \in Subs,
                      s \in served'[q], Undisturbed(s)', MayRead(q)', Holds(r, s)',
                      r # q
               PROVE  FALSE
    BY DEF ServedAlone
  <2>1. CASE q = p /\ GetSub(p) /\ aid'[p] = s
    <3>1. ~Holds(r, s)
      BY <2>1, ReadRowIsFree
    <3> QED
      BY <1>0, <2>1, <3>1 DEF Stays, Holds, Claiming, Charging
  <2>2. CASE ~(q = p /\ GetSub(p) /\ aid'[p] = s)
    <3>1. s \in served[q] /\ MayRead(q) /\ Undisturbed(s)
      BY <1>2, <2>2
    <3>2. ~Holds(r, s)
      BY <3>1 DEF ServedInv, ServedAlone
    <3>3. r = p
      BY <1>0, <3>2 DEF Stays, Holds, Claiming, Charging
    <3>4. GetSub(p) /\ aid'[p] = s
      BY <3>2, <3>3, ClaimGoesOn DEF Holds, Claiming, Charging
    <3>5. due[s] = 0 /\ ~Holds(q, s)
      BY <3>3, <3>4, ReadRowIsFree
    <3>6. ~(pc[q] = "selected" /\ aid[q] = s)
      BY <3>5 DEF Holds, Claiming
    <3>7. due[s] > 0
      BY <3>1, <3>6, ServedNotDue
    <3> QED
      BY <3>5, <3>7
  <2> QED
    BY <2>1, <2>2
<1>4. ServedAhead'
  <2> SUFFICES ASSUME NEW q \in Procs, NEW s \in Subs, s \in served'[q],
                      Undisturbed(s)', ~(pc'[q] = "selected" /\ aid'[q] = s),
                      MayRead(q)'
               PROVE  /\ left'[q] > 0 => due'[s] >= left'[q] + Pause + 1
                      /\ pc'[q] = "checked" => due'[s] + waited'[q] >= Pause + 1
    BY DEF ServedAhead, MayRead
  <2>0. /\ due[s] \in Nat /\ left[q] \in Nat /\ left[q] <= RunLimit
        /\ waited[q] \in Nat /\ Pause \in Nat /\ Postpone \in Nat /\ RunLimit \in Nat
        /\ RunLimit + 2 * Pause < Postpone
    BY TimeAssumption, DelayAssumption DEF TypeOK
  <2>1. s \in served[q] /\ MayRead(q) /\ Undisturbed(s)
    <3>1. ~(q = p /\ GetSub(p) /\ aid'[p] = s)
      BY DEF GetSub, MoveTo, TypeOK
    <3> QED
      BY <1>2, <3>1
  <2>2. \A r \in Procs : Holds(r, s) => r = q
    BY <2>1 DEF ServedInv, ServedAlone
  <2>3. CASE q # p
    <3>1. RowStays(s) /\ Stays(q)
      BY <1>0, <2>2, <2>3, RowsStay
    <3>2. ~(pc[q] = "selected" /\ aid[q] = s)
      BY <3>1 DEF Stays
    <3> QED
      BY <2>1, <3>1, <3>2 DEF Stays, RowStays, ServedInv, ServedAhead
  <2>4. CASE q = p
    <3>1. pc'[p] \notin {"off", "locked"} /\ ~Connect(p)
      <4>1. ASSUME Connect(p) PROVE FALSE
        BY <2>1, <2>4, <4>1 DEF Connect, ServedInv, ServedEmpty
      <4> QED
        BY <1>1, <2>4, <4>1 DEF ServedEmpty
    <3>2. left'[p] = left[p]
      BY <3>1, ServedBy
    <3>3. CASE pc[p] = "selected" /\ aid[p] = s
      <4>1. Reschedule(p)
        BY <2>4, <3>1, <3>3, StepIs DEF TakeLock, FixTime, AtLoopTop, Crash, Die,
          Exit, Finish, InTime, StackEmpty, LoopDone, GetSub, Unsubscribe,
          RequestCharge, Answer, Record, MoveTo, TypeOK
      <4>2. pc'[p] = "postponed" /\ waited[p] <= Pause
        BY <3>3, <4>1 DEF Reschedule, MoveTo, Patience, TypeOK
      <4>3. PICK d \in 0..waited[p] : due' = [due EXCEPT ![s] = Postpone - d]
        BY <3>3, <4>1 DEF Reschedule, Undisturbed
      <4>4. due'[s] = Postpone - d
        BY <4>3 DEF TypeOK
      <4>5. due'[s] >= left[p] + Pause + 1
        BY <2>0, <2>4, <4>2, <4>3, <4>4
      <4> QED
        BY <2>4, <3>2, <4>2, <4>5
    <3>4. CASE ~(pc[p] = "selected" /\ aid[p] = s)
      <4>0. left[p] > 0 => due[s] >= left[p] + Pause + 1
        BY <2>1, <2>4, <3>4 DEF ServedInv, ServedAhead
      <4>1. due'[s] = due[s]
        <5>1. ~(Reschedule(p) /\ aid[p] = s)
          BY <3>4 DEF Reschedule
        <5>2. CASE Unsubscribe(p) \/ RequestCharge(p)
          BY <5>2 DEF Unsubscribe, RequestCharge, rowVars
        <5>3. CASE Record(p) /\ aid[p] = s
          <6>1. ASSUME NEW ok, NEW d, NEW r, UpdateSub(p, ok, d, r) PROVE FALSE
            BY <2>4, <5>3, <6>1 DEF UpdateSub, WriteRow, TypeOK
          <6> QED
            BY <5>3, <6>1 DEF Record, Outcome, rowVars
        <5> QED
          BY <5>1, <5>2, <5>3, RowWriters DEF RowStays
      <4>2. CASE pc'[p] = "checked"
        <5>1. left[p] > 0 /\ waited'[p] = 0
          BY <3>1, <4>2, StepIs DEF TakeLock, WriteLock, FixTime, Crash, Finish,
            Die, Exit, InTime, StackEmpty, LoopDone, GoTo, GetSub, Reschedule,
            Unsubscribe, RequestCharge, Answer, Record, NextTurn, MoveTo, TypeOK
        <5> QED
          BY <2>0, <2>4, <3>2, <4>0, <4>1, <5>1
      <4>3. CASE pc'[p] # "checked"
        BY <2>4, <3>2, <4>0, <4>1, <4>3
      <4> QED
        BY <4>2, <4>3
    <3> QED
      BY <3>3, <3>4
  <2> QED
    BY <2>3, <2>4
<1> QED
  BY <1>1, <1>3, <1>4 DEF ServedInv

LEMMA ServedTick == TypeOK /\ ServedInv /\ Tick => ServedInv'
<1> SUFFICES ASSUME TypeOK, ServedInv, Tick PROVE ServedInv'
  OBVIOUS
<1>1. /\ UNCHANGED <<pc, aid, torn, unmoved, served>> /\ Pause \in Nat
      /\ \A s : Undisturbed(s)' <=> Undisturbed(s)
  BY TimeAssumption DEF Tick, Undisturbed
<1>2. ASSUME NEW p \in Procs
      PROVE  /\ left'[p] \in Nat /\ left'[p] <= left[p] /\ left[p] \in Nat
             /\ left'[p] > 0 => left[p] = left'[p] + 1
  <2>1. left[p] \in Nat /\ left'[p] = Less(left[p])
    BY DEF Tick, TypeOK
  <2> QED
    BY <2>1 DEF Less
<1>3. ASSUME NEW p \in Procs, MayRead(p)' PROVE MayRead(p)
  BY <1>1, <1>2, <1>3 DEF MayRead
<1>4. ServedEmpty'
  <2> SUFFICES ASSUME NEW p \in Procs, pc[p] \in {"off", "locked"}
               PROVE  left'[p] = 0 /\ served[p] = {}
    BY <1>1 DEF ServedEmpty
  <2>1. left[p] = 0 /\ served[p] = {}
    BY DEF ServedInv, ServedEmpty
  <2> QED
    BY <1>2, <2>1
<1>5. ServedAlone'
  BY <1>1, <1>3 DEF ServedInv, ServedAlone, Holds, Claiming, Charging
<1>6. ServedAhead'
  <2> SUFFICES ASSUME NEW p \in Procs, NEW s \in Subs, s \in served[p],
                      Undisturbed(s), ~(pc[p] = "selected" /\ aid[p] = s)
               PROVE  /\ left'[p] > 0 => due'[s] >= left'[p] + Pause + 1
                      /\ pc[p] = "checked" => due'[s] + waited'[p] >= Pause + 1
    BY <1>1 DEF ServedAhead
  <2>1. /\ left[p] > 0 => due[s] >= left[p] + Pause + 1
        /\ pc[p] = "checked" => due[s] + waited[p] >= Pause + 1
    BY DEF ServedInv, ServedAhead
  <2>2. /\ due[s] \in Nat /\ due'[s] \in Nat /\ due'[s] + 1 >= due[s]
        /\ waited[p] \in Nat /\ (pc[p] = "checked" => waited'[p] = waited[p] + 1)
    <3>1. due[s] \in Nat /\ due'[s] = Less(due[s])
      BY DEF Tick, TypeOK
    <3>2. waited[p] \in Nat /\ (pc[p] = "checked" => waited'[p] = waited[p] + 1)
      BY DEF Tick, TypeOK, Running
    <3> QED
      BY <3>1, <3>2, ClockStays
  <2>3. ASSUME left'[p] > 0 PROVE due'[s] >= left'[p] + Pause + 1
    BY <1>1, <1>2, <2>1, <2>2, <2>3
  <2>4. ASSUME pc[p] = "checked" PROVE due'[s] + waited'[p] >= Pause + 1
    BY <1>1, <2>1, <2>2, <2>4
  <2> QED
    BY <2>3, <2>4
<1> QED
  BY <1>4, <1>5, <1>6 DEF ServedInv

LEMMA ServedNext ==
  TypeOK /\ TypeOK' /\ DateInv /\ ServedInv /\ [Next]_vars => ServedInv'
<1>1. ASSUME ServedInv, UNCHANGED vars PROVE ServedInv'
  BY <1>1 DEF vars, rowVars, place, run, claim, history, ServedInv, ServedEmpty,
    ServedAlone, ServedAhead, MayRead, Holds, Claiming, Charging, Undisturbed
<1> QED
  BY <1>1, ServedStep, ServedTick, NextIs

(* A run reads a row once until it has recorded an outcome for it            *)
(* (testal.php:77-104), other runs, slow statements and lost answers         *)
(* included, unless an UPDATE of the row failed or two runs read it at once: *)
(* the date of the UPDATE outlasts the run.                                  *)
THEOREM NoRowTwiceCorrect == Spec => NoRowTwice
<1>1. ASSUME TypeOK, ServedInv, NEW p \in Procs, GetSub(p), Undisturbed(aid'[p])
      PROVE  aid'[p] \notin served[p]
  <2>1. due[aid'[p]] = 0 /\ pc[p] = "checked"
    BY <1>1 DEF GetSub, DueRows, TypeOK
  <2> QED
    BY <1>1, <2>1, ServedNotDue DEF MayRead
<1>2. TypeOK /\ ServedInv /\ [Next]_vars
        => [\A p \in Procs : GetSub(p) /\ Undisturbed(aid'[p])
              => aid'[p] \notin served[p]]_vars
  BY <1>1
<1>3. Spec => [](TypeOK /\ ServedInv)
  BY DateHolds, ServedInit, ServedNext, PTL DEF Spec
<1> QED
  BY <1>2, <1>3, PTL DEF NoRowTwice, Spec

-----------------------------------------------------------------------------
(* What is left of a run, counted in its own steps and in units of time: a   *)
(* place lasts one step and what a process may wait there, a turn has five   *)
(* places and the wait for the gateway.                                      *)
PlaceLasts == Pause + 1
TurnLasts == 5 * PlaceLasts + AnswerLimit + 1
\* At each place of the script, with w for the turns left and t for the wait.
At(l, w, t) ==
  CASE l = "locked" -> w + 3 * PlaceLasts - t
    [] l = "loop" -> w + 2 * PlaceLasts - t
    [] l = "checked" -> w + PlaceLasts - t
    [] l = "selected" -> w - t
    [] l = "postponed" -> w - PlaceLasts - t
    [] l = "waiting" -> w - 2 * PlaceLasts - t
    [] l = "answered" -> w - 2 * PlaceLasts - AnswerLimit - 1 - t
    [] l = "done" -> PlaceLasts - t
    [] l = "off" -> 0
Turns(p) == TurnLasts * (LoopLimit - turn[p])
Remaining(p) == At(pc[p], Turns(p), waited[p])

(* A run uses itself up (testal.php:42-104): each of its steps, and each     *)
(* unit of time that passes while it runs, leaves less of it, and nothing    *)
(* the other processes do to rows and locks gives it more.                   *)
RunWearsOff ==
  [][\A p \in Procs : Running(p) =>
       /\ Remaining(p)' <= Remaining(p)
       /\ (Step(p) \/ Tick => Remaining(p)' < Remaining(p))]_vars
RemainingIsBounded ==
  \A p \in Procs : Remaining(p) \in 0..(TurnLasts * LoopLimit + 3 * PlaceLasts)

\* The arithmetic of turns.
LEMMA TurnsLeft ==
  ASSUME NEW t \in 0..LoopLimit
  PROVE  /\ TurnLasts * (LoopLimit - t) \in Nat
         /\ TurnLasts * (LoopLimit - t) <= TurnLasts * LoopLimit
         /\ TurnLasts * LoopLimit \in Nat
         /\ t < LoopLimit =>
              /\ TurnLasts * (LoopLimit - t) =
                   TurnLasts * (LoopLimit - (t + 1)) + TurnLasts
              /\ TurnLasts * (LoopLimit - (t + 1)) \in Nat
<1>1. TurnLasts \in Nat /\ LoopLimit \in Nat
  BY TimeAssumption DEF TurnLasts, PlaceLasts
<1> HIDE DEF TurnLasts
<1>2. \A a, b \in Nat : a * b \in Nat
  OBVIOUS
<1>3. \A a, b, c \in Nat : b <= c => a * b <= a * c
  OBVIOUS
<1>4. \A a, b \in Nat : a * (b + 1) = a * b + a
  OBVIOUS
<1>5. LoopLimit - t \in Nat /\ LoopLimit - t <= LoopLimit
  BY <1>1
<1>6. TurnLasts * (LoopLimit - t) <= TurnLasts * LoopLimit
  BY <1>1, <1>3, <1>5
<1>7. ASSUME t < LoopLimit
      PROVE  /\ TurnLasts * (LoopLimit - t) =
                  TurnLasts * (LoopLimit - (t + 1)) + TurnLasts
             /\ TurnLasts * (LoopLimit - (t + 1)) \in Nat
  <2>1. PICK b \in Nat : b = LoopLimit - (t + 1) /\ LoopLimit - t = b + 1
    BY <1>1, <1>7
  <2>2. TurnLasts * (b + 1) = TurnLasts * b + TurnLasts /\ TurnLasts * b \in Nat
    BY <1>1, <1>2, <1>4
  <2> QED
    BY <1>1, <2>1, <2>2
<1> QED
  BY <1>1, <1>2, <1>5, <1>6, <1>7

Places == {"locked", "loop", "checked", "selected", "postponed", "waiting",
           "answered", "done"}

LEMMA TurnsAre ==
  ASSUME TypeOK, NEW p \in Procs
  PROVE  /\ Turns(p) \in Nat /\ Turns(p) <= TurnLasts * LoopLimit
         /\ pc[p] \notin {"loop", "done"} => Turns(p) >= TurnLasts
<1>1. turn[p] \in 0..LoopLimit /\ (pc[p] \notin {"loop", "done"} => turn[p] < LoopLimit)
  BY DEF TypeOK
<1>2. /\ Turns(p) \in Nat /\ Turns(p) <= TurnLasts * LoopLimit
      /\ turn[p] < LoopLimit =>
           /\ Turns(p) = TurnLasts * (LoopLimit - (turn[p] + 1)) + TurnLasts
           /\ TurnLasts * (LoopLimit - (turn[p] + 1)) \in Nat
  BY <1>1, TurnsLeft DEF Turns
<1>3. TurnLasts \in Nat
  BY TimeAssumption DEF TurnLasts, PlaceLasts
<1> QED
  BY <1>1, <1>2, <1>3

\* The value of a place is positive, and bounded.
LEMMA AtRange ==
  ASSUME NEW l \in Places, NEW w \in Nat, NEW t \in Nat, NEW m \in Nat, w <= m,
         t <= (IF l = "waiting" THEN AnswerLimit ELSE Pause),
         l \notin {"loop", "done"} => w >= TurnLasts
  PROVE  At(l, w, t) \in 1..(m + 3 * PlaceLasts)
<1>1. Pause \in Nat /\ AnswerLimit \in Nat
  BY TimeAssumption
<1>2. /\ PlaceLasts = Pause + 1 /\ TurnLasts = 5 * Pause + AnswerLimit + 6
      /\ (l # "waiting" => t <= Pause) /\ (l = "waiting" => t <= AnswerLimit)
  BY <1>1 DEF TurnLasts, PlaceLasts
<1>3. CASE l = "locked"
  <2>1. At(l, w, t) = w + 3 * PlaceLasts - t
    BY <1>3 DEF At
  <2> QED
    BY <1>1, <1>2, <1>3, <2>1
<1>4. CASE l = "loop"
  <2>1. At(l, w, t) = w + 2 * PlaceLasts - t
    BY <1>4 DEF At
  <2> QED
    BY <1>1, <1>2, <1>4, <2>1
<1>5. CASE l = "checked"
  <2>1. At(l, w, t) = w + PlaceLasts - t
    BY <1>5 DEF At
  <2> QED
    BY <1>1, <1>2, <1>5, <2>1
<1>6. CASE l = "selected"
  <2>1. At(l, w, t) = w - t
    BY <1>6 DEF At
  <2> QED
    BY <1>1, <1>2, <1>6, <2>1
<1>7. CASE l = "postponed"
  <2>1. At(l, w, t) = w - PlaceLasts - t
    BY <1>7 DEF At
  <2> QED
    BY <1>1, <1>2, <1>7, <2>1
<1>8. CASE l = "waiting"
  <2>1. At(l, w, t) = w - 2 * PlaceLasts - t
    BY <1>8 DEF At
  <2> QED
    BY <1>1, <1>2, <1>8, <2>1
<1>9. CASE l = "answered"
  <2>1. At(l, w, t) = w - 2 * PlaceLasts - AnswerLimit - 1 - t
    BY <1>9 DEF At
  <2> QED
    BY <1>1, <1>2, <1>9, <2>1
<1>10. CASE l = "done"
  <2>1. At(l, w, t) = PlaceLasts - t
    BY <1>10 DEF At
  <2> QED
    BY <1>1, <1>2, <1>10, <2>1
<1> QED
  BY <1>3, <1>4, <1>5, <1>6, <1>7, <1>8, <1>9, <1>10 DEF Places

LEMMA RemainingRange == TypeOK => RemainingIsBounded
<1> SUFFICES ASSUME TypeOK, NEW p \in Procs
             PROVE  Remaining(p) \in 0..(TurnLasts * LoopLimit + 3 * PlaceLasts)
  BY DEF RemainingIsBounded
<1>1. PICK m \in Nat : m = TurnLasts * LoopLimit
  BY TurnsLeft, TimeAssumption
<1>2. PlaceLasts \in Nat
  BY TimeAssumption DEF PlaceLasts
<1>3. CASE pc[p] # "off"
  <2>1. /\ pc[p] \in Places /\ waited[p] \in Nat /\ Turns(p) \in Nat /\ Turns(p) <= m
        /\ waited[p] <= (IF pc[p] = "waiting" THEN AnswerLimit ELSE Pause)
        /\ pc[p] \notin {"loop", "done"} => Turns(p) >= TurnLasts
    BY <1>1, <1>3, TurnsAre DEF TypeOK, Places, Patience
  <2>2. At(pc[p], Turns(p), waited[p]) \in 1..(m + 3 * PlaceLasts)
    BY <2>1, AtRange
  <2> QED
    BY <1>1, <1>2, <2>2 DEF Remaining
<1>4. CASE pc[p] = "off"
  BY <1>1, <1>2, <1>4 DEF Remaining, At
<1> QED
  BY <1>3, <1>4

\* From a place to the next one, in the order of the script.
LEMMA PlaceToPlace ==
  ASSUME NEW w \in Nat, NEW t \in Nat
  PROVE  /\ t <= Pause => /\ At("loop", w, 0) < At("locked", w, t)
                          /\ At("checked", w, 0) < At("loop", w, t)
                          /\ At("done", w, 0) < At("loop", w, t)
                          /\ At("selected", w, 0) < At("checked", w, t)
                          /\ w >= TurnLasts => At("done", w, 0) < At("checked", w, t)
                          /\ At("postponed", w, 0) < At("selected", w, t)
                          /\ At("waiting", w, 0) < At("postponed", w, t)
         /\ t <= AnswerLimit => At("answered", w, 0) < At("waiting", w, t)
<1>1. Pause \in Nat /\ AnswerLimit \in Nat
  BY TimeAssumption
<1> QED
  BY <1>1 DEF At, TurnLasts, PlaceLasts

LEMMA TurnToTurn ==
  ASSUME NEW v \in Nat, NEW t \in Nat, t <= Pause
  PROVE  /\ At("loop", v, 0) < At("postponed", v + TurnLasts, t)
         /\ At("loop", v, 0) < At("answered", v + TurnLasts, t)
<1>1. Pause \in Nat /\ AnswerLimit \in Nat
  BY TimeAssumption
<1> QED
  BY <1>1 DEF At, TurnLasts, PlaceLasts

\* One step of the run itself, crash included.
LEMMA StepWearsOff ==
  ASSUME TypeOK, TypeOK', NEW p \in Procs, Running(p), Step(p) \/ Crash(p)
  PROVE  Remaining(p)' < Remaining(p)
<1>1. /\ pc[p] \in Places /\ waited[p] \in Nat /\ waited[p] <= Patience(p)
      /\ Turns(p) \in Nat /\ (pc[p] \notin {"loop", "done"} => Turns(p) >= TurnLasts)
  BY TurnsAre DEF TypeOK, Running, Places
<1>2. Remaining(p) = At(pc[p], Turns(p), waited[p])
  BY DEF Remaining
<1>3. Remaining(p)' = At(pc'[p], Turns(p)', waited'[p])
  BY DEF Remaining, At
<1>4. CASE pc'[p] = "off"
  <2>1. Remaining(p)' = 0
    BY <1>3, <1>4 DEF At
  <2>2. At(pc[p], Turns(p), waited[p]) \in 1..(Turns(p) + 3 * PlaceLasts)
    BY <1>1, AtRange DEF Patience
  <2>3. Turns(p) + 3 * PlaceLasts \in Nat
    BY <1>1, TimeAssumption DEF PlaceLasts
  <2> QED
    BY <1>2, <2>1, <2>2, <2>3
<1>5. CASE Connect(p) \/ InTime(p) \/ StackEmpty(p) \/ LoopDone(p) \/ GetSub(p)
  <2>1. /\ turn' = turn /\ waited'[p] = 0 /\ pc[p] # "waiting"
        /\ \/ pc[p] = "locked" /\ pc'[p] = "loop"
           \/ pc[p] = "loop" /\ pc'[p] \in {"checked", "done"}
           \/ pc[p] = "checked" /\ pc'[p] \in {"selected", "done"}
    BY <1>5 DEF Connect, InTime, AtLoopTop, StackEmpty, LoopDone, GetSub, GoTo,
      MoveTo, run, TypeOK
  <2>2. Turns(p)' = Turns(p) /\ waited[p] <= Pause
    BY <1>1, <2>1 DEF Turns, Patience
  <2> QED
    BY <1>1, <1>2, <1>3, <2>1, <2>2, PlaceToPlace
<1>6. CASE Reschedule(p) \/ RequestCharge(p) \/ \E r \in Replies : Answer(p, r)
  <2>1. /\ turn' = turn /\ waited'[p] = 0
        /\ \/ pc[p] = "selected" /\ pc'[p] = "postponed"
           \/ pc[p] = "postponed" /\ pc'[p] = "waiting"
           \/ pc[p] = "waiting" /\ pc'[p] = "answered"
    BY <1>6 DEF Reschedule, RequestCharge, Answer, MoveTo, run, TypeOK
  <2>2. /\ Turns(p)' = Turns(p)
        /\ waited[p] <= (IF pc[p] = "waiting" THEN AnswerLimit ELSE Pause)
    BY <1>1, <2>1 DEF Turns, Patience
  <2> QED
    BY <1>1, <1>2, <1>3, <2>1, <2>2, PlaceToPlace
<1>7. CASE Unsubscribe(p) \/ Record(p)
  <2>1. /\ pc'[p] = "loop" /\ turn'[p] = turn[p] + 1 /\ waited'[p] = 0
        /\ pc[p] \in {"postponed", "answered"}
    BY <1>7 DEF Unsubscribe, Record, NextTurn, MoveTo, TypeOK
  <2>2. turn[p] \in 0..LoopLimit /\ turn[p] < LoopLimit /\ waited[p] <= Pause
    BY <1>1, <2>1 DEF TypeOK, Patience
  <2>3. PICK v \in Nat : v = Turns(p)' /\ Turns(p) = v + TurnLasts
    BY <2>1, <2>2, TurnsLeft DEF Turns
  <2> QED
    BY <1>1, <1>2, <1>3, <2>1, <2>2, <2>3, TurnToTurn
<1>8. CASE FixTime(p) \/ Finish(p) \/ Crash(p)
  <2>1. pc'[p] = "off"
    BY <1>8 DEF FixTime, Finish, Crash, Die, Exit, MoveTo, TypeOK
  <2> QED
    BY <1>4, <2>1
<1> QED
  BY <1>5, <1>6, <1>7, <1>8 DEF Step

LEMMA TickWearsOff ==
  ASSUME TypeOK, TypeOK', NEW p \in Procs, Running(p), Tick
  PROVE  Remaining(p)' < Remaining(p)
<1>1. /\ pc' = pc /\ turn' = turn /\ waited'[p] = waited[p] + 1
      /\ waited[p] \in Nat /\ pc[p] \in Places
  BY DEF Tick, Running, Places, TypeOK
<1>2. Turns(p)' = Turns(p) /\ Turns(p) \in Nat
  BY <1>1, TurnsAre DEF Turns
<1>3. Remaining(p) = At(pc[p], Turns(p), waited[p])
  BY DEF Remaining
<1>4. Remaining(p)' = At(pc[p], Turns(p), waited[p] + 1)
  BY <1>1, <1>2 DEF Remaining, At
<1>5. ASSUME NEW l \in Places, NEW w \in Nat, NEW t \in Nat
      PROVE  At(l, w, t + 1) < At(l, w, t)
  <2>1. Pause \in Nat /\ AnswerLimit \in Nat
    BY TimeAssumption
  <2> QED
    BY <2>1 DEF At, Places, PlaceLasts
<1> QED
  BY <1>1, <1>2, <1>3, <1>4, <1>5

(* What a run may still do is bounded from its start, and shrinks with each  *)
(* of its steps and each unit of time (testal.php:42-104): a process that is *)
(* scheduled has ended after so many of them, whatever the gateway answers,  *)
(* locks expire or other runs do.                                            *)
THEOREM RunWearsOffCorrect == Spec => []RemainingIsBounded /\ RunWearsOff
<1>1. ASSUME TypeOK, TypeOK', [Next]_vars, NEW p \in Procs, Running(p)
      PROVE  /\ Remaining(p)' <= Remaining(p)
             /\ Step(p) \/ Tick => Remaining(p)' < Remaining(p)
  <2>1. PICK m \in Nat : m = TurnLasts * LoopLimit + 3 * PlaceLasts
    BY TurnsLeft, TimeAssumption DEF PlaceLasts
  <2>2. Remaining(p) \in 0..m /\ Remaining(p)' \in 0..m
    <3>1. RemainingIsBounded /\ RemainingIsBounded'
      BY <1>1, RemainingRange, PTL
    <3> QED
      BY <2>1, <3>1 DEF RemainingIsBounded
  <2>3. CASE Step(p) \/ Crash(p)
    BY <1>1, <2>2, <2>3, StepWearsOff
  <2>4. CASE Tick
    BY <1>1, <2>2, <2>4, TickWearsOff
  <2>5. CASE /\ ~(Step(p) \/ Tick)
             /\ pc'[p] = pc[p] /\ turn'[p] = turn[p] /\ waited'[p] = waited[p]
    <3>1. Remaining(p)' = Remaining(p)
      BY <2>5 DEF Remaining, At, Turns
    <3> QED
      BY <2>2, <2>5, <3>1
  <2>6. ASSUME NEW q \in Procs, StepOf(q), q # p
        PROVE  pc'[p] = pc[p] /\ turn'[p] = turn[p] /\ waited'[p] = waited[p]
    BY <1>1, <2>6, OthersStay DEF Stays
  <2>7. CASE StepOf(p)
    BY <1>1, <2>3, <2>7 DEF StepOf, TakeLock, Running
  <2>8. CASE UNCHANGED vars
    BY <2>5, <2>8, <2>3, <2>4 DEF vars, place, run
  <2> QED
    BY <1>1, <2>3, <2>4, <2>5, <2>6, <2>7, <2>8, NextIs
<1>2. TypeOK /\ TypeOK' /\ [Next]_vars
        => [\A p \in Procs : Running(p) =>
              /\ Remaining(p)' <= Remaining(p)
              /\ (Step(p) \/ Tick => Remaining(p)' < Remaining(p))]_vars
  BY <1>1
<1> QED
  BY <1>2, RemainingRange, TypeCorrect, PTL DEF RunWearsOff, Spec

-----------------------------------------------------------------------------
(* A due subscriber keeps its turn: until a run has read its row, no step    *)
(* moves its date, takes it off the payments or charges it, though other     *)
(* runs are between the SELECT and the save of their rows (testal.php:79-104,*)
(* 266-328), some past their lock: a late answer is not written over a row   *)
(* that has become due again.  Rows with a failed UPDATE or read by two runs *)
(* at once are not promised it.                                              *)
DueRowWaits ==
  [][\A s \in Subs :
       /\ ready[s] /\ due[s] = 0 /\ Undisturbed(s)
       /\ \A p \in Procs : ~(pc[p] = "selected" /\ aid[p] = s)
       => ready'[s] /\ due'[s] = 0 /\ gap'[s] >= gap[s]]_vars

THEOREM DueRowWaitsCorrect == Spec => DueRowWaits
<1>1. ASSUME TypeOK, DateInv, [Next]_vars, NEW s \in Subs, ready[s], due[s] = 0,
             Undisturbed(s), \A p \in Procs : ~(pc[p] = "selected" /\ aid[p] = s)
      PROVE  ready'[s] /\ due'[s] = 0 /\ gap'[s] >= gap[s]
  <2>0. gap[s] \in 0..Postpone /\ Postpone \in Nat
    BY <1>1, TimeAssumption DEF TypeOK
  <2>1. ASSUME NEW p \in Procs, Holds(p, s) PROVE FALSE
    <3>1. pc[p] # "selected"
      BY <1>1, <2>1 DEF Holds
    <3>2. due[s] > 0
      BY <1>1, <2>1, <3>1, HeldRowNotDue DEF DateInv
    <3> QED
      BY <1>1, <3>2
  <2>2. ASSUME NEW p \in Procs, StepOf(p)
        PROVE  ready'[s] /\ due'[s] = 0 /\ gap'[s] >= gap[s]
    <3>1. RowStays(s)
      BY <1>1, <2>1, <2>2, RowsStay
    <3> QED
      BY <1>1, <2>0, <3>1 DEF RowStays
  <2>3. CASE Tick
    BY <1>1, <2>0, <2>3 DEF Tick, More, Less
  <2>4. CASE UNCHANGED vars
    BY <1>1, <2>0, <2>4 DEF vars, rowVars, history
  <2> QED
    BY <1>1, <2>2, <2>3, <2>4, NextIs
<1>2. TypeOK /\ DateInv /\ [Next]_vars
        => [\A s \in Subs :
              /\ ready[s] /\ due[s] = 0 /\ Undisturbed(s)
              /\ \A p \in Procs : ~(pc[p] = "selected" /\ aid[p] = s)
              => ready'[s] /\ due'[s] = 0 /\ gap'[s] >= gap[s]]_vars
  BY <1>1
<1> QED
  BY <1>2, DateHolds, PTL DEF DueRowWaits, Spec

================================================================================
