----------------------------- MODULE RecurrentCron -----------------------------
(***************************************************************************)
(* The recurrent payment cron of php/testal.php.  Cron starts one process  *)
(* per stream of subscribers; a process takes the stream's run lock, then  *)
(* serves up to LoopLimit due subscribers one by one: it reads the newest  *)
(* due row, moves its next date away, asks the payment gateway to charge   *)
(* the stored token, and writes the row back.                              *)
(*                                                                         *)
(* A date in the table is kept as the number of time units until it is     *)
(* reached, a timestamp as the number of units since, up to the point      *)
(* where the code stops telling two of them apart.                         *)
(***************************************************************************)
EXTENDS Integers, FiniteSets

CONSTANTS
  Subs,           \* the rows of utb24_fondy_registration, by aid
  CreatedAt,      \* [Subs -> Nat], the column `created`
  NoSub,          \* $subObj before the first row is read
  StreamOf,       \* [Subs -> StreamArgs], the column `stream_id`
  WithToken,      \* the subscribers whose order_data has a paymentToken
  StreamArgs,     \* what cron passes as argv[1]
  Procs,          \* PHP processes
  LoopLimit,      \* 20, turns of the loop of start_transactions
  RunLimit,       \* 5000 s: life of the run lock, and time limit of a run
  Postpone,       \* 12 h, the date set before the charge
  FreshFor,       \* 16 h, after which a failure no longer lowers the amount
  Interval,       \* $payture->transaction_interval
  RetryDelays,    \* what payture_next_transaction_date may return
  AnswerLimit,    \* longest wait for an answer of the gateway
  Pause,          \* longest time between two other statements of a process
  UpdateMayFail,  \* whether the unchecked UPDATE of the date may fail
  MaxCrashes      \* bound on the runs that die in the middle

\* The arguments the script accepts; it exits on the others.
ValidStream(n) == ~(n < 99 \/ n > 500)
Streams == {n \in StreamArgs : ValidStream(n)}

ASSUME SubsAssumption ==
  /\ IsFiniteSet(Subs) /\ NoSub \notin Subs
  /\ CreatedAt \in [Subs -> Nat]
  /\ \A s, r \in Subs : CreatedAt[s] = CreatedAt[r] => s = r
  /\ StreamArgs \subseteq Nat
  /\ StreamOf \in [Subs -> StreamArgs]
  /\ WithToken \subseteq Subs
  /\ Streams # {}
ASSUME TimeAssumption ==
  /\ LoopLimit \in Nat \ {0} /\ RunLimit \in Nat \ {0}
  /\ Postpone \in Nat /\ FreshFor \in Nat /\ Interval \in Nat
  /\ RetryDelays \subseteq Nat /\ RetryDelays # {}
  /\ AnswerLimit \in Nat /\ Pause \in Nat /\ MaxCrashes \in Nat
  /\ UpdateMayFail \in BOOLEAN
ASSUME DelayAssumption ==
  \* From the SELECT to the record of the answer, and a whole run with one
  \* turn more, take less than the 12 hours.
  /\ 3 * Pause + AnswerLimit < Postpone
  /\ RunLimit + 2 * Pause < Postpone

\* Transaction types of the code: 1 card binding, 2 full sum, 3 reduced sum.
Transaction == [t : 1..3, ok : BOOLEAN]
Full == 2
Reduced == 3

VARIABLES
  due,      \* row: next_transaction_date, as time left (0 = reached)
  ready,    \* row: ready_for_pay
  last,     \* row: the last element of order_data['transactions']
  age,      \* time since that transaction, up to FreshFor + 1
  lock,     \* per stream: time left of the run lock file (0 = free)
  pc,       \* per process: where it is in the script
  stream,   \* per process: argv[1]
  turn,     \* per process: $i
  left,     \* per process: time left until SCRIPT_END_TIME
  aid,      \* per process: the subscriber of $subObj
  seen,     \* per process: last transaction and its age, read into $subObj
  type,     \* per process: $type, the sum asked for
  waited,   \* per process: time since its last step
  reply,    \* per process: the gateway's verdict
  crashes,  \* number of runs that died, bounded by MaxCrashes
  gap,      \* history: time since the last charge request whose outcome is
            \* not recorded, up to Postpone
  served,   \* history: per process, the subscribers read in this run and not
            \* recorded
  outlived, \* history: the streams on which a run was on when its lock expired
  torn,     \* history: the rows read between a SELECT and UPDATE of another run
  unmoved   \* history: the rows whose UPDATE failed

NothingSeen == [t |-> 1, ok |-> TRUE, age |-> 0]

rowVars == <<due, ready, last, age>>
run == <<stream, turn, left>>
claim == <<aid, seen, type, reply>>
place == <<pc, waited>>
history == <<gap, served, outlived, torn, unmoved>>
vars == <<rowVars, lock, run, claim, place, crashes, history>>

Replies == {"True", "unsubscribe", "other", "none"}
Running(p) == pc[p] # "off"
Claiming(p) == pc[p] \in {"selected", "postponed"}
Charging(p) == pc[p] \in {"waiting", "answered"}
\* Between reading the row and the last write to it.
Holds(p, s) == (Claiming(p) \/ Charging(p)) /\ aid[p] = s

Init ==
  /\ due = [s \in Subs |-> 0]
  /\ ready = [s \in Subs |-> TRUE]
  /\ last = [s \in Subs |-> [t |-> 1, ok |-> TRUE]]
  /\ age = [s \in Subs |-> FreshFor + 1]
  /\ lock = [n \in Streams |-> 0]
  /\ pc = [p \in Procs |-> "off"]
  /\ stream = [p \in Procs |-> CHOOSE n \in Streams : TRUE]
  /\ turn = [p \in Procs |-> 0]
  /\ left = [p \in Procs |-> 0]
  /\ aid = [p \in Procs |-> NoSub]
  /\ seen = [p \in Procs |-> NothingSeen]
  /\ type = [p \in Procs |-> Full]
  /\ waited = [p \in Procs |-> 0]
  /\ reply = [p \in Procs |-> "none"]
  /\ crashes = 0
  /\ gap = [s \in Subs |-> Postpone]
  /\ served = [p \in Procs |-> {}]
  /\ outlived = {} /\ torn = {} /\ unmoved = {}

-----------------------------------------------------------------------------
\* Every step of a process ends the wait before it.
MoveTo(p, l) ==
  /\ pc' = [pc EXCEPT ![p] = l]
  /\ waited' = [waited EXCEPT ![p] = 0]

\* A step that changes nothing but the place in the script.
GoTo(p, l) ==
  MoveTo(p, l) /\ UNCHANGED <<rowVars, lock, run, claim, crashes, history>>

WriteLock(p, n) ==
  /\ lock' = [lock EXCEPT ![n] = RunLimit]
  /\ stream' = [stream EXCEPT ![p] = n]
  /\ MoveTo(p, "locked")
  /\ UNCHANGED <<rowVars, turn, left, claim, crashes, history>>

\* Mutant: the lock file is written and never looked at.
TakeLockAlways(p, n) == pc[p] = "off" /\ n \in Streams /\ WriteLock(p, n)

\* The argument is checked and the lock taken.  A process that finds the lock
\* alive exits.
TakeLock(p, n) ==
  /\ pc[p] = "off"
  /\ n \in Streams
  /\ lock[n] = 0
  /\ WriteLock(p, n)

\* The constructor connects to the database and then fixes the end of the run:
\* by that time the lock is older.
Connect(p) ==
  /\ pc[p] = "locked"
  /\ left' = [left EXCEPT ![p] = RunLimit]
  /\ MoveTo(p, "loop")
  /\ UNCHANGED <<rowVars, lock, stream, turn, claim, crashes, history>>

AtLoopTop(p) == pc[p] = "loop" /\ turn[p] < LoopLimit
\* What was read of a subscriber is looked at no more.
Forget(p) ==
  /\ aid' = [aid EXCEPT ![p] = NoSub]
  /\ seen' = [seen EXCEPT ![p] = NothingSeen]
  /\ type' = [type EXCEPT ![p] = Full]
  /\ reply' = [reply EXCEPT ![p] = "none"]
\* The memory of a process goes with it.
Exit(p) ==
  /\ MoveTo(p, "off")
  /\ Forget(p)
  /\ turn' = [turn EXCEPT ![p] = 0]
  /\ left' = [left EXCEPT ![p] = 0]
  /\ served' = [served EXCEPT ![p] = {}]
  /\ UNCHANGED <<rowVars, stream, gap, outlived, torn, unmoved>>
\* The process leaves without finish(): the lock file stays.
Die(p) == Exit(p) /\ UNCHANGED lock

FixTime(p) ==
  /\ AtLoopTop(p)
  /\ left[p] = 0
  /\ Die(p)
  /\ UNCHANGED crashes

\* fix_time() returns: whatever happens until the next turn, it happens.
InTime(p) == AtLoopTop(p) /\ left[p] > 0 /\ GoTo(p, "checked")

\* Mutant: the SELECT without ready_for_pay=1.
DueRowsOfAll(n) == {s \in Subs : due[s] = 0 /\ StreamOf[s] = n}
DueRows(n) == {s \in Subs : ready[s] /\ due[s] = 0 /\ StreamOf[s] = n}
Newest(s, S) == \A r \in S : CreatedAt[r] <= CreatedAt[s]

\* ORDER BY created DESC LIMIT 1 over the due rows of the stream.
GetSub(p) ==
  /\ pc[p] = "checked"
  /\ \E s \in DueRows(stream[p]) :
       /\ Newest(s, DueRows(stream[p]))
       /\ aid' = [aid EXCEPT ![p] = s]
       /\ seen' = [seen EXCEPT ![p] = [t |-> last[s].t, ok |-> last[s].ok,
                                       age |-> age[s]]]
       /\ served' = [served EXCEPT ![p] = @ \union {s}]
       /\ torn' = IF \E q \in Procs \ {p} : pc[q] = "selected" /\ aid[q] = s
                  THEN torn \union {s} ELSE torn
  /\ MoveTo(p, "selected")
  /\ UNCHANGED <<rowVars, lock, run, type, reply, crashes, gap, outlived, unmoved>>

StackEmpty(p) ==
  pc[p] = "checked" /\ DueRows(stream[p]) = {} /\ GoTo(p, "done")

\* Mutant: a loop that ends after the turn that follows the last.
LoopDoneLate(p) == pc[p] = "loop" /\ turn[p] > LoopLimit /\ GoTo(p, "done")

LoopDone(p) == pc[p] = "loop" /\ turn[p] = LoopLimit /\ GoTo(p, "done")

\* finish() removes the lock file, whoever wrote it.
Finish(p) ==
  /\ pc[p] = "done"
  /\ Exit(p)
  /\ lock' = [lock EXCEPT ![stream[p]] = 0]
  /\ UNCHANGED crashes

\* Mutant: the UPDATE without its WHERE.
RescheduleAllDue(p) ==
  /\ pc[p] = "selected"
  /\ due' = [s \in Subs |-> IF due[s] = 0 THEN Postpone ELSE due[s]]
  /\ MoveTo(p, "postponed")
  /\ UNCHANGED <<ready, last, age, lock, run, claim, crashes, history>>

\* Mutant: the date stays until the answer is recorded.
RescheduleNothing(p) == pc[p] = "selected" /\ GoTo(p, "postponed")

\* The UPDATE after the SELECT: the date is computed at some time between the
\* two, the result of the query is not looked at.
Reschedule(p) ==
  /\ pc[p] = "selected"
  /\ \/ /\ \E d \in 0..waited[p] : due' = [due EXCEPT ![aid[p]] = Postpone - d]
        /\ UNCHANGED unmoved
     \/ /\ UpdateMayFail
        /\ unmoved' = unmoved \union {aid[p]}
        /\ UNCHANGED due
  /\ MoveTo(p, "postponed")
  /\ UNCHANGED <<ready, last, age, lock, run, claim, crashes, gap, served,
                 outlived, torn>>

\* `continue`: the next turn of the loop.
NextTurn(p) ==
  /\ MoveTo(p, "loop")
  /\ Forget(p)
  /\ turn' = [turn EXCEPT ![p] = @ + 1]

Unsubscribe(p) ==
  /\ pc[p] = "postponed"
  /\ aid[p] \notin WithToken
  /\ ready' = [ready EXCEPT ![aid[p]] = FALSE]
  /\ NextTurn(p)
  /\ UNCHANGED <<due, last, age, lock, stream, left, crashes, history>>

\* Mutant: the ladder without the test of $last['t'].
NextTypeAfterAnyFailure(l) ==
  IF ~l.ok /\ l.age <= FreshFor THEN Reduced ELSE Full

\* The ladder of ifs: full sum, unless the last transaction is a fresh
\* failure to take the full sum.
NextType(l) ==
  IF l.t = Full /\ ~l.ok /\ l.age <= FreshFor THEN Reduced ELSE Full

RequestCharge(p) ==
  /\ pc[p] = "postponed"
  /\ aid[p] \in WithToken
  /\ type' = [type EXCEPT ![p] = NextType(seen[p])]
  /\ gap' = [gap EXCEPT ![aid[p]] = 0]
  /\ MoveTo(p, "waiting")
  /\ UNCHANGED <<rowVars, lock, run, aid, seen, reply, crashes, served,
                 outlived, torn, unmoved>>

Answer(p, r) ==
  /\ pc[p] = "waiting"
  /\ reply' = [reply EXCEPT ![p] = r]
  /\ MoveTo(p, "answered")
  /\ UNCHANGED <<rowVars, lock, run, aid, seen, type, crashes, history>>

\* The row as it was read, with transaction l appended and the next date d.
WriteRow(p, l, d, rdy) ==
  /\ due' = [due EXCEPT ![aid[p]] = d]
  /\ ready' = [ready EXCEPT ![aid[p]] = rdy]
  /\ last' = [last EXCEPT ![aid[p]] = l]
  /\ age' = [age EXCEPT ![aid[p]] = 0]
  /\ gap' = [gap EXCEPT ![aid[p]] = Postpone]
  /\ served' = [served EXCEPT ![p] = @ \ {aid[p]}]

\* Mutant: a failure recorded as the type 4 that the ladder knows of.
UpdateSubAsFraud(p, ok, d, rdy) ==
  WriteRow(p, [t |-> IF ok THEN type[p] ELSE 4, ok |-> ok], d, rdy)

\* add_transaction() and update_sub(); the row was ready when it was read.
UpdateSub(p, ok, d, rdy) == WriteRow(p, [t |-> type[p], ok |-> ok], d, rdy)

\* Mutant: an unknown answer saves the date as it was read.
OutcomeSaved(p) ==
  \/ reply[p] = "True" /\ UpdateSub(p, TRUE, Interval, TRUE)
  \/ reply[p] = "unsubscribe" /\ UpdateSub(p, FALSE, 0, FALSE)
  \/ reply[p] = "other" /\ \E d \in RetryDelays : UpdateSub(p, FALSE, d, TRUE)
  \/ /\ reply[p] = "none"
     /\ due' = [due EXCEPT ![aid[p]] = 0]
     /\ UNCHANGED <<ready, last, age, gap, served>>

Outcome(p) ==
  \/ reply[p] = "True" /\ UpdateSub(p, TRUE, Interval, TRUE)
  \* the date read from the row is put back: the row was due
  \/ reply[p] = "unsubscribe" /\ UpdateSub(p, FALSE, 0, FALSE)
  \/ reply[p] = "other" /\ \E d \in RetryDelays : UpdateSub(p, FALSE, d, TRUE)
  \* neither "True" nor "False": the transaction is recorded nowhere
  \/ reply[p] = "none" /\ UNCHANGED <<rowVars, gap, served>>

Record(p) ==
  /\ pc[p] = "answered"
  /\ Outcome(p)
  /\ NextTurn(p)
  /\ UNCHANGED <<lock, stream, left, crashes, outlived, torn, unmoved>>

\* A failed SELECT or connection, a kill, set_time_limit: at any point of the run.
Crash(p) ==
  /\ Running(p)
  /\ crashes < MaxCrashes
  /\ crashes' = crashes + 1
  /\ Die(p)

Less(n) == IF n = 0 THEN 0 ELSE n - 1
More(n, max) == IF n < max THEN n + 1 ELSE n

Patience(p) == IF pc[p] = "waiting" THEN AnswerLimit ELSE Pause

\* One unit of time, between any two statements of the processes: the gateway
\* answers within AnswerLimit, every other statement comes within Pause.
Tick ==
  /\ \A p \in Procs : Running(p) => waited[p] < Patience(p)
  /\ due' = [s \in Subs |-> Less(due[s])]
  /\ age' = [s \in Subs |-> More(age[s], FreshFor + 1)]
  /\ lock' = [n \in Streams |-> Less(lock[n])]
  /\ left' = [p \in Procs |-> Less(left[p])]
  /\ waited' = [p \in Procs |-> waited[p] + (IF Running(p) THEN 1 ELSE 0)]
  /\ seen' = [p \in Procs |->
                IF Claiming(p)
                THEN [seen[p] EXCEPT !.age = More(@, FreshFor + 1)]
                ELSE seen[p]]
  /\ gap' = [s \in Subs |-> More(gap[s], Postpone)]
  /\ outlived' = outlived \union
       {stream[p] : p \in {q \in Procs : Running(q) /\ Less(lock[stream[q]]) = 0}}
  /\ UNCHANGED <<ready, last, pc, stream, turn, aid, type, reply, crashes,
                 served, torn, unmoved>>

Step(p) ==
  \/ Connect(p) \/ FixTime(p) \/ InTime(p) \/ GetSub(p) \/ StackEmpty(p)
  \/ LoopDone(p) \/ Finish(p)
  \/ Reschedule(p) \/ Unsubscribe(p) \/ RequestCharge(p)
  \/ (\E r \in Replies : Answer(p, r))
  \/ Record(p)

Next ==
  \/ \E p \in Procs : \/ \E n \in Streams : TakeLock(p, n)
                      \/ Step(p)
                      \/ Crash(p)
  \/ Tick

Spec == Init /\ [][Next]_vars

(* A process that is running is scheduled, time passes however often runs    *)
(* start and end, and cron keeps starting the script for every stream.       *)
FairSpec ==
  /\ Spec
  /\ \A p \in Procs : WF_vars(Step(p))
  /\ \A n \in Streams : WF_vars(\E p \in Procs : TakeLock(p, n))
  /\ SF_vars(Tick)

-----------------------------------------------------------------------------
(* The table, the lock files and the processes keep their types; time left   *)
(* never exceeds what a lock, a run or a wait may last.                      *)
TypeOK ==
  /\ due \in [Subs -> Nat]
  /\ ready \in [Subs -> BOOLEAN]
  /\ last \in [Subs -> Transaction]
  /\ age \in [Subs -> 0..FreshFor + 1]
  /\ lock \in [Streams -> 0..RunLimit]
  /\ pc \in [Procs -> {"off", "locked", "loop", "checked", "done", "selected",
                      "postponed", "waiting", "answered"}]
  /\ stream \in [Procs -> Streams]
  /\ turn \in [Procs -> 0..LoopLimit]
  /\ left \in [Procs -> 0..RunLimit]
  /\ aid \in [Procs -> Subs \union {NoSub}]
  /\ \A p \in Procs : Claiming(p) \/ Charging(p) => aid[p] \in Subs
  /\ \A p \in Procs :
       pc[p] \notin {"loop", "done"} => turn[p] < LoopLimit
  /\ seen \in [Procs -> [t : 1..3, ok : BOOLEAN, age : 0..FreshFor + 1]]
  /\ type \in [Procs -> {Full, Reduced}]
  /\ waited \in [Procs -> Nat] /\ \A p \in Procs : waited[p] <= Patience(p)
  /\ reply \in [Procs -> Replies]
  /\ crashes \in 0..MaxCrashes
  /\ gap \in [Subs -> 0..Postpone]
  /\ served \in [Procs -> SUBSET Subs]
  /\ outlived \subseteq Streams /\ torn \subseteq Subs /\ unmoved \subseteq Subs

(* The lock file serialises the runs of a stream (testal.php:370-377): two   *)
(* runs of one stream are on at a time only after a run of that stream has   *)
(* been on when its lock expired.  From then on all may go wrong, since      *)
(* finish() removes a lock that its run did not take.                        *)
OneRunPerStream ==
  \A p, q \in Procs :
    Running(p) /\ Running(q) /\ stream[p] = stream[q] /\ p # q
      => stream[p] \in outlived

(* A row is read by two runs before either has moved its date                *)
(* (testal.php:79-104) only on a stream where a run has outlived its lock.   *)
TornOnlyPastLock == \A s \in torn : StreamOf[s] \in outlived

\* A row whose every claim was made good by its UPDATE, before any other run
\* read the row.
Undisturbed(s) == s \notin torn \union unmoved

(* The date set at once (testal.php:99-104) keeps the row from every other   *)
(* run until the answer is recorded, whether or not the runs overlap, their  *)
(* locks have expired or been removed, or a run has died: two runs hold one  *)
(* row only if an UPDATE failed or the second SELECT came before the UPDATE. *)
OneClaimPerSub ==
  \A p, q \in Procs, s \in Subs :
    Holds(p, s) /\ Holds(q, s) /\ Undisturbed(s) => p = q

\* A charge is asked for 12 hours after the last one that has no outcome, less
\* what may pass between reading the clock for the date and the request.
Spaced(s) == gap[s] + 2 * Pause >= Postpone

(* Two requests to charge one subscriber are 12 hours apart unless the       *)
(* outcome of the first is recorded: "the next charge is set at once, 12     *)
(* hours later" (testal.php:99).                                             *)
ChargesSpaced == [][\A p \in Procs : RequestCharge(p) => Spaced(aid[p])]_vars

(* The same for the rows no UPDATE failed on and no two runs read at once    *)
(* (testal.php:99-104, 267): no crash, lost answer, expired lock or          *)
(* overlapping run makes the second request come earlier.                    *)
UndisturbedSpaced ==
  [][\A p \in Procs :
       RequestCharge(p) /\ Undisturbed(aid[p]) => Spaced(aid[p])]_vars

(* update_sub() writes back a row read before the gateway was called; it     *)
(* overwrites nothing that changed in between (testal.php:79, 284, 300,      *)
(* 323): the subscriber is still ready and the history is the one read, even *)
(* when the answer comes after the lock has gone to another run.             *)
NoLostUpdate ==
  \A p \in Procs :
    (Claiming(p) \/ Charging(p)) /\ Undisturbed(aid[p]) =>
      /\ ready[aid[p]]
      /\ last[aid[p]] = [t |-> seen[p].t, ok |-> seen[p].ok]

(* Once taken off the payments (frod code or no token, testal.php:263, 296)  *)
(* a subscriber is never put back or asked for money by a run that read the  *)
(* row before.                                                               *)
UnsubscribedIsFinal ==
  [][\A s \in Subs : ~ready[s] /\ Undisturbed(s)
        => ~ready'[s] /\ gap'[s] >= gap[s]]_vars

(* A reduced sum in the history of a row directly follows a failed full one, *)
(* never another reduced one, although the choice is made from a row read    *)
(* long before the answer is recorded (testal.php:126-155).                  *)
ReducedOnlyAfterFailure ==
  [][\A s \in Subs : last'[s].t = Reduced /\ last'[s] # last[s] /\ Undisturbed(s)
        => last[s] = [t |-> Full, ok |-> FALSE]]_vars

(* A run does not read a row again before it has recorded an outcome for it: *)
(* the date of the UPDATE outlasts the run and the step from fix_time() to   *)
(* the SELECT (testal.php:77-104).                                           *)
NoRowTwice ==
  [][\A p \in Procs :
       GetSub(p) /\ Undisturbed(aid'[p]) => aid'[p] \notin served[p]]_vars

(* Every run ends, even when the gateway is slow or the lock is gone.        *)
RunsEnd == \A p \in Procs : Running(p) ~> ~Running(p)

(* Whatever was read first and whoever crashed, a due subscriber is          *)
(* eventually charged, found without token, or taken off the payments: with  *)
(* a load that fits the limits, ORDER BY created DESC starves nobody.        *)
DueIsServed ==
  \A s \in Subs : (StreamOf[s] \in Streams /\ ready[s] /\ due[s] = 0)
                 ~> (gap[s] = 0 \/ ~ready[s])
================================================================================
