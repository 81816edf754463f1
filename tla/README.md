# A formal model of My_Programming_Projects

The repository is a collection of programs by one author: C programs for
Unix, PHP pages and one PHP cron job, a few scripts, static pages. They share no
code and no state. What they have in common is that each of the larger ones
talks to something it does not control: a payment gateway and other runs of
itself, other shells appending to the same file, a network.

This directory holds TLA+ models of those programs, TLC runs on small instances,
and proofs for all instances. It is written from the code; where a doc, a
comment or a help text says something else, a run of kind `violation` shows it.

## 1. The system's parts

### php/testal.php: the recurrent payment cron (modelled)

One process per subscriber stream, started again and again by cron.

* State: a table of subscriptions (`next_transaction_date`, `ready_for_pay`,
  the history in `order_data['transactions']`, `created`, `stream_id`), one lock
  file per stream with a time limit of 5000 s, and in each process the loop
  counter, `SCRIPT_END_TIME` and the row in `$subObj`.
* Operations: take the lock or exit; connect to the database and fix the end of
  the run; up to 20 times: check the time limit
  (`fix_time`), SELECT the newest due row, UPDATE its date to 12 hours from now,
  take a subscriber without token off the payments, choose the full or the
  reduced sum from the last transaction, call the gateway, record the answer;
  finally `finish()`, which removes the lock file.
* Interactions: runs of one stream share the lock file and the rows, and all of
  them the gateway. A process holds its row in memory over the gateway call and
  writes it back as a whole.
* What is hard: time passes between any two statements. The lock may expire
  between the time check, the SELECT and the UPDATE, and a second run then reads
  the same row; the gateway may answer after the lock has expired; the deadline,
  fixed after the connection is made, is later than the end of the lock; a run
  may die anywhere and leaves its lock; the UPDATE's result is never looked at;
  `finish()` removes the file whoever wrote it.
* What makes it correct: one run per stream as long as no run outlives its lock,
  and, whatever the runs do, one process per row, no two charges within 12 hours
  and no lost update of a row whose date was moved before anybody else read it; a
  subscriber taken off stays off, the reduced sum comes only after a failed full
  one, every run ends, and no due subscriber is forgotten.

### C/kineticdb: a shell for a file of keys and values (modelled)

* The command line (`commands_parser.c`, `word_item.c`, `exec_commands.c`):
  a fixed buffer, a list of words on the heap, quotes, the dispatch by number of
  words. Hard: quotes inside words, words as long as the buffer, the end of the
  input read into a `char`, unmatched quotes, who frees what, and a `malloc` that
  fails: for a buffer the shell exits, for a list node the word is dropped and
  the line goes on without it. Correct when a line becomes its words, those it
  found no memory for excepted, nothing is written past the buffer unless a word does
  not fit, and each line leaves the heap as it found it.
* The database (`commands.c`): PUT opens the file with O_APPEND and writes key,
  `:`, value and newline by four calls of `write`. GET opens it and loops.
  Hard: other shells append between the four calls; a write may fail or fall
  short; the shell may be killed; GET's loop. Correct when the file is the
  records that were put, each whole and once.
* Interaction: the word list is the interface; `KineticCommands` is what both
  modules use of it. Any number of shells share the file and nothing else.

### C/UDPserver: a daemon that counts datagrams (modelled)

* Server state: `datagrams_count`, `buff_size` (which has no first value),
  `client_addr`. It receives a datagram and answers with two, one integer each.
* A client sends one message, waits for two datagrams, at most 15 s each, and
  prints them as count and size: their order is all that tells them apart.
* Hard: loss, duplication, reordering, a server that exits between its two
  answers, a client that gives up and whose port another client gets.
* Correct when what is printed is a pair of totals that belong together, those
  of the client's own request, and when a client always ends.

### The smaller C programs (modelled)

None of them talks to another one; each talks to the kernel, and through it to
its users, clients, children or files.

* `file_chat`: two processes, each of which writes one file and prints the
  other's. State: the two files, what of the partner's file has been read, the
  open descriptors, the last word. Hard: the partner may truncate and write
  between two reads; who types first finds no file; a descriptor leaks in each
  turn; writes fall short or fail, and when the pipe cannot be read the turn goes
  on without them. Correct when nothing older is printed after something newer,
  when the two never both give up while their pipes can be read, and when a side whose input has ended ends.
* `TCPserver`: opens a listening socket, serves one client, closes both sockets,
  begins again. Hard: clients queued behind the one served, clients that say
  nothing or leave early, the time that is taken before the wait. Correct when
  every client learns how its connection ended, when the server survives its
  clients, and when the time is not one of an earlier turn.
* `datagram`: a server (of a stream, despite the name) that sends its third
  argument to one client and exits. Hard: `sizeof` of a pointer as the length,
  a buffer nobody clears. Correct when short messages arrive and nothing else is
  taken for one.
* `ctrlc`: a loop and a handler. Correct when one SIGINT is enough, wherever it
  comes. `what_is_your_name`: `select` with a limit, then `scanf` without one.
  Correct when who begins to answer in time is greeted and only who did not is
  refused; a blank line begins an answer for `select` and is none for `scanf`,
  which then waits without limit.
* `launch_process`, `grep`: fork, exec, wait. Correct when the terminal comes
  back after the command and leaves no zombie, also when exec fails.
* `search_file`: walks over a directory while its own `chdir` moves it away from
  it, and asks `realpath`, which follows links, where it is by then. Correct when
  an entry with the name is never passed over, and a path it prints is one of
  the name that was asked for or of what a link of that name leads to.
* Lists (`build_list_and_array`, `print_figures_that_meet_three_times`) and texts
  (`find_address_substring`, `largest_string_in_files`, `cat`): correct when the
  links of the heap and the loops over characters give what a definition by
  sets and positions gives.

### Parts that have no model

`C/test.c` (a voxel world: rendering and geometry in floating point), `bar.c`,
`put_sum.c`, `get_and_zero.c`, `count_spaces.c`, `reverse_sentence.c`,
`print_arguments_without_minus.c`, `my_own_cat.c`, `strings_in_file.c`,
`write_text_to_file.c` (one loop or one assignment each: a model would be the
code again), the page routers of `php/test` and `php/forum` (a switch over
three paths), `php/learn_php_the_right_way` (one page; its `vendor` directory is
third-party code), `frontend` (static pages), the notification scripts (each
sleeps and shows a message).

## 2. Modules

| Module | What it is |
| --- | --- |
| `RecurrentCron` | the cron: table, locks, processes, gateway, clock |
| `MCRecurrentCron` | its instances |
| `RecurrentCronProofs` | its theorems |
| `KineticCommands` | `exec_commands`: what a list of words does |
| `KineticShell`, `MCKineticShell` | `read_command`, its buffers and list |
| `KineticLog` | abstract: PUT appends a record, whole and at once |
| `KineticDb`, `MCKineticDb` | `put`, `get`, any number of shells, one file; its symmetry |
| `KineticDbProofs` | its theorems; it implements `KineticLog` |
| `KineticSession` | composes a shell's line with its put and get, and restarts it |
| `KineticShellProofs` | theorems about the line, alone and in sessions; a session implements `KineticDb` |
| `Udp`, `MCUdp` | server, clients and network |
| `UdpProofs` | its theorems |
| `FileChat` | the two sides of a chat and their files |
| `FileChatProofs` | its theorems |
| `TcpServer` | the server, its queue, its clients |
| `TcpServerProofs` | its theorems |
| `Datagram` | the message server and its clients |
| `Children` | `launch_process` and `grep` |
| `Prompts` | `ctrlc` and `what_is_your_name` |
| `SearchFile` | the walk of `search_file` |
| `Figures` | the two list programs |
| `Texts` | substring search, largest string, `cat` |
| `Programs`, `MCPrograms` | the models from `FileChat` on in one specification; its instance |
| `ProgramsProofs` | each of them behaves as it does alone; theorems about all of them |
| `Induction` | lemmas of several components: concatenations, sums, counts |

Definitions marked `Mutant` state what a plausible mistake would make of the
definition that follows them. No action of a specification uses them.

### How RecurrentCron corresponds to the code

`pc[p]` is the place of process `p`, one for every statement that reads or writes
something shared or depends on the time: `locked` (lock file written), `loop` (top
of the `for`), `checked` (after `fix_time`), `selected` (after `get_sub_from_db`),
`postponed` (after the UPDATE of the date), `waiting` and `answered` (around the
gateway call), `done` (before `finish()`).

| Action | Code |
| --- | --- |
| `TakeLock` | argument check, lock file (lines 361-372) |
| `Connect` | the constructor: database, then `SCRIPT_END_TIME` |
| `FixTime`, `InTime` | `fix_time()`: past the deadline exit, the lock stays; or go on |
| `GetSub` | SELECT ... ORDER BY created DESC LIMIT 1 |
| `StackEmpty`, `LoopDone` | no row, or 20 turns: on to `finish()` |
| `Finish` | `finish()` and the end of the process |
| `Reschedule` | UPDATE of the date, with or without effect |
| `Unsubscribe` | no payment token: `ready_for_pay = 0` |
| `RequestCharge`, `Answer` | the call of the gateway |
| `Record` | the four outcomes of the answer, `update_sub()` |
| `Crash` | a failed connection or SELECT, a kill, the engine's own time limit |
| `Tick` | one unit of time |

Time passes between any two of these, up to `Pause` each, and up to `AnswerLimit`
while the gateway is asked; `waited[p]` is the time since the last step of `p`. So a
lock may expire anywhere in a run, also between the time check, the SELECT and
the UPDATE and before `finish()`, and the deadline of a run lies up to `Pause`
after the end of its lock. The date of the UPDATE is computed at some moment
between the two queries (`Reschedule`). The `time()` of line 50 and the query that
it is a parameter of are taken for one moment.

A date is the time left until it is reached, a timestamp the time since, both up
to the largest value the code tells apart; so the state space is finite and
there is no clock that grows. The gateway, the classes `subscriber`,
`transactions` and `runtime_limit` and the date of a retry are not in the
repository and are modelled from their use: the gateway answers anything within
`AnswerLimit`; a lock file older than its limit counts as free. `calculateSum`
is never called; the maintenance window of 2021 at the top of the file is over.

Three histories say what has gone wrong: `outlived` has the streams on which a run
was on when its lock expired, `torn` the rows that one run read between the SELECT
and the UPDATE of another, `unmoved` the rows whose UPDATE failed. A row in
neither of the last two is `Undisturbed`; nothing is assumed about the others, and
`CronOverrun` and `CronUpdate` show what happens to them. `TornOnlyPastLock` ties the
second to the first.

### How KineticShell corresponds to the code

One action is one turn of the loop over `getchar()`. `command` is the buffer the
loop fills, `word` the one of `parse_quotes`, `list` the list of words. `heap`
counts allocations. `at = "undefined"` is the end of what C defines: a write past
the buffer. The line typed so far is kept as history, so that properties can
compare it with the list.

`NoBuffer` is a failed `malloc` of a buffer, where the shell exits. `AddWord` is a
word that goes to the list, or, when there is no memory for its node, one that is
lost while the line goes on; `lost` keeps it as history. `MaxFails` bounds both.
When there is memory for the node and none for its text, `strdup` puts NULL where
the word should be; what the shell does with that is not defined and the model
ends there (`wordless`).

`KineticSession` joins it with `KineticDb` for one shell: characters are read
while the shell is at its prompt (`Read`), `exec_commands` hands the words over
(`Obey`, which is `Exec` and `Enter` at once), `put` and `get` then run call by
call (`Execute`). `Begin` starts a process again after an exit, with nothing
left of the old one but the file.

### How KineticDb corresponds to the code

The file is `lines` and `rest`, what follows the last newline. Each of the four
writes is an action of its own, at the end of the file wherever that is by
then. `GetReadFails`, `ShortWrite` and `Die` are the faults: they are counted
and bounded. `overlapped` remembers whether two shells were ever inside a line
at once. The functions of `commands.c` use an undeclared `buff_len`, so they do
not compile as they stand; the model takes it for `buffer_len`.

### How Udp corresponds to the code

`serverPc` is the place in the `while` of the server; `RecvMessage`, `SendCount`,
`SendSize` are its three calls, each of which may fail (`ServerExits`). Channels
are sequences; `Lose` removes any datagram, `Garble` doubles one or swaps two
neighbours. `Deliver` puts a reply into the socket of its port, or nowhere when
no client has it; a client that is gone takes its socket with it, and a later
client may get the same port. `run` in a request says which client of the port
sent it and is history: the server does not look at it. The two integers never
overflow in the model.

### How the smaller models correspond to the code

`FileChat`: `place[u]` is the call that process `u` makes next. `ThroughPipe` is the
way of a word through the pipe, which nobody else sees, in one step; when the pipe
cannot be read the turn goes straight on to the partner's file. `Kept` is what the
read of `buff_len - 1` bytes leaves of a word. A word that is too long for
`user_input` writes past it: the model lets the process end (`Overrun`) or go on
with what the pipe keeps of the word, and knows no third outcome. `Write` puts any
number of the characters into the file, or none and the process exits. A failed
`read` of the partner's file becomes the largest `size_t`, and the process prints
on until it crashes (`ReadFails`). The n-th word of a user is n repeated, so a file
shows which words it is made of; 0 is what an old file or a fresh buffer holds.
`Opens` is any call that needs descriptors, and exits without them.

`TcpServer`: `at` is the server's next call. Clients and the kernel's treatment of
their connections are outside the repository: connections to a port without a
listening socket are refused, those in the queue of a closed one are reset, a
send to a client that has left raises SIGPIPE once the client's reset has come
back. `Fault` is any call that returns -1. A client speaks once; what it sent
beyond the 256 bytes of the one `recv` is unread when the socket is closed, and
turns the end of the connection into a reset (`CloseClient`).

`Datagram`: bytes are members of a small set, `Behind` is the message, its end and
what lies behind it, `Sent` what `sizeof(server_message)` makes of it. Nobody looks
at the results of `listen` and `accept`: after either has failed, nothing is sent
and the server ends.

`Children` and `Prompts` have a place per process; a signal may come at any place
of `main`, and in `nap` (between the test of `n` and `sleep`) it is missed once.
In `what_is_your_name` the clock runs wherever the process is, the user types a
blank line, a part of a word, the rest of it or the end of the input at any time
or never, and `select` may fail.

`SearchFile`: a tree of two levels, in any order of entries, some of which may be
symbolic links; a link leads to something in the tree or nowhere, not out of it.
`Resolve` follows it, so `realpath` gives the path of what it leads to, or NULL. A
`stat` that fails gives -1 and one of a directory 0, neither of which equals what
`S_ISDIR` says, so everything but a file goes to `chdir`, whose refusal nobody
notices. `opendir` may fail.

`Figures` keeps the heap as a sequence of nodes with links; `stuck` is a `scanf`
that returns 0 for ever, `NoArray` a `malloc` of the array that fails. `Texts` has the index pair of the substring search, and
cuts lines into what `fgets` returns; a file that can be opened and not read, such
as a directory, is `Unreadable`: the failed `read` becomes a large `size_t` in `cat`.

## 3. Runs

| Run | Question | Instance |
| --- | --- | --- |
| `CronOverlap` | do overlapping runs keep rows and charges apart? | 2 processes, 1 subscriber, 1 crash, UPDATEs that fail |
| `CronLive` | does every run end, is every due subscriber served? | 2 processes, 3 subscribers, 1 crash, fair |
| `CronOverrun` | are charges 12 hours apart when a lock expires inside a run? | 2 processes, 1 row: violated |
| `CronUpdate` | and when the UPDATE fails unnoticed? | 1 process, 1 row: violated |
| `KineticSession` | what becomes of all short lines, up to the file? | 1 shell, 2 lines of 5, buffer of 3, 1 failed allocation |
| `KineticUnmatched` | is a wrong line without effect? | lines of 7: violated |
| `KineticMixed` | what is left of the records of mixed shells? | 3 shells, 1 fault |
| `KineticTorn` | are records whole with two shells? | 2 shells: violated |
| `KineticGet` | does GET come back? | 1 shell, fair: violated |
| `UdpLossy` | whose totals does a client print, does it end? | 2 ports, 3 clients, 1 fault |
| `UdpTotals` | are they the totals of datagrams and bytes? | 2 clients: violated |
| `Programs` | do the smaller programs do what they are for? | one of nine per behaviour |

Bounds, and why they are enough:

* `CronOverlap`: a lock lives one unit, any statement may take one, an answer too:
  the lock expires at every place of a run, a second run starts there, reads the
  same row, or removes the first one's lock, and the first process may come back
  for a third run. `Postpone` is 5, one more than `3 * Pause + AnswerLimit`, so what
  the theorems need is just given and no more. Two turns let a run go back to
  its row. One subscriber: rows are told apart by nothing but the order of
  SELECT, which is the question of `CronLive`. Any UPDATE may fail, and one run dies.
  A second stream argument, 98, is one the script refuses.
* `DelayAssumption` says that between the SELECT and the record of the answer, and
  in a run with one turn more, less than 12 hours pass: with 5000 seconds for the
  run and a gateway that answers within the hour, two statements may be more than
  three and a half hours apart before it fails.
* `CronOverrun` counts in units of about 42 minutes: two to a lock and a run, 17 to
  12 hours. `CronUpdate` has the numbers of the code, in seconds.
* `CronLive`: the newest of three rows has no payment token. Time passes during the
  call of the gateway only (`Pause` 0), in which a lock expires and a second run
  starts; what a pause between other statements adds to a run is counted by
  `RunWearsOffCorrect`, and does not keep it from ending; for `DueIsServed` it is load,
  since a slow run reaches fewer rows before its limit. The load fits the
  limits (three rows, three turns). With more load
  than fits, newest-first order starves the oldest: that is a limit of
  the code and not a defect of a run; it is listed as a hazard.
* `KineticSession`: the buffer of 3 makes two-character words fit and
  three-character words not; five characters hold a PUT with key and value, or a
  quoted word, a space and an unmatched quote; `PUT` and `q` are symbols, so that
  lines put, exit and are unknown; a second line shows what the first left. One
  allocation fails: any word of the two lines is lost, or either buffer missing.
* `KineticMixed`: three shells are the least in which a record can be torn in
  three parts; keys and values are told apart by kind only.
* `UdpLossy`: three clients at two ports: one port is used twice. One datagram
  doubled or overtaken, or one failed call; losses are not bounded.
* `Programs`: `running` is chosen at the beginning and the other programs stay in
  one initial state, so the states of the programs add up and do not multiply.
  file_chat: two words per side, one that fits in the buffer of three and one that
  does not, and every part of them a write may leave (so that a shorter text
  follows a longer one), three descriptors (two turns, then too few are left),
  files that exist before or not. TCPserver: three clients and a queue of two, one of them
  refused or waiting behind another, one fault, one tick of the clock. datagram:
  messages of one to four bytes around a pointer of three. ctrlc: three signals.
  what_is_your_name: a limit of three, and one tick beyond it.
  search_file: every tree over three names and two levels, at most one link in it,
  every order of its entries. Lists: seven nodes, so a number can occur three times beside others
  that do and do not. Texts: strings of four letters and substrings of three,
  lines below, at and above the buffer, up to three files and two descriptors.

Fairness. `CronLive`: each running process is scheduled (weakly fair), cron
starts the script for each stream again and again (weakly fair: crontab), and
time passes (strongly fair, because the steps of running processes disable
the clock again and again). Nothing makes the gateway answer but its time
limit, `AnswerLimit`. `KineticSession` and `KineticGet`: a shell that has a command is
scheduled; nobody has to type. `UdpLossy`: only the waiting client is
scheduled; the server and the network owe nothing, which is why only the
client's timeout makes it end. `Programs`: a process that nothing blocks is
scheduled. For `EveryClientEnds` each connected client also speaks or leaves in
the end: `recv` has no time limit, and a client that stays silent holds the
server for ever. No user has to type, to end the input or to send a signal.

Deadlock is checked for the cron. It is not for the other runs: their counters
of inputs are bounded, a shell may exit, and one in GET's loop changes nothing.

## 4. What is proved

All with TLAPS, for any values of the constants the assumptions allow. The
assumptions are those the modules state about their constants: numbers are
natural, what stands for a character is not also a separator, and what is
counted or summed over is finite (`Shells` of `KineticDb`, `Ports` of `Udp`,
`Others` of `SearchFile`). Where a theorem assumes more, it says so in an `ASSUME`.

Every safety property that a passing run checks is the subject of a theorem.
The theorems hold for the specification without its fairness, of which the fair
one is a case.

`RecurrentCronProofs`

No assumption beyond those of the module, for any sets of subscribers, streams
and processes, UPDATEs that fail and runs that die included.

* `TypeCorrect`.
* `OneRunCorrect`, `TornOnlyPastLockCorrect` (`LockInv`): as long as no run of a stream
  has outlived its lock, a run that is on has a live one (`RunIsLocked`), so nobody
  else comes in and `finish()` removes what is its own. From then on nothing is
  said of the runs of that stream: they may overlap, and a run that ends may
  remove the lock of its successor.
* All other properties hold whether or not runs overlap, for the rows that are
  `Undisturbed`: their UPDATEs took effect, and before them nobody else read
  the row. The condition cannot be dropped: `CronUpdate` violates
  `ChargesSpaced` by the first half of it, `CronOverrun` by the second.
* `OneClaimCorrect`, `NoLostUpdateCorrect` (`DateInv`): once the date is moved it stays
  ahead, at each place of the run by `Postpone` less the time since (`DateAhead`);
  that is more than what the run still takes to record the answer, so the row is
  not due (`HeldRowNotDue`) and nobody else reads it.
* `UndisturbedSpacedCorrect` (`GapInv`): what is left until the date and what has
  passed since the last request without an outcome make up the 12 hours
  together, less two pauses: one between the computing of the date and its
  UPDATE, one between the UPDATE and the request.
* `UnsubscribedCorrect`, `ReducedCorrect` (`LadderInv`): who holds the row is alone and
  has it as it is, so nothing newer is overwritten and the history the ladder was
  read from is the one that is appended to.
* `NoRowTwiceCorrect` (`ServedInv`): a row that a run has read and not recorded stays
  ahead by more than the run's remaining time and the pause between `fix_time()`
  and the SELECT.
* `RunWearsOffCorrect`: `Remaining` of a process is what is left of its turns,
  counted with the units of time it may wait at each place of them.
  Each of its own steps and each unit it waits lowers it, and nothing another
  process, the gateway or the users do raises it, so a run takes a bounded number
  of steps and units of time whatever the locks and the rows look like. That is the
  safety half of `RunsEnd`; the fairness of that run only says the steps are taken.
* `DueRowWaitsCorrect`: a ready row that is due and that no run has just selected
  stays ready and due, and is not charged, until a run selects it, if it is
  `Undisturbed`: a late answer of another run is never written over it. That is the
  safety half of `DueIsServed`.

`KineticDbProofs`

* `TypeCorrect`.
* `QuietLogCorrect`: for any number of shells, if no two of them were inside a
  line at once and nothing failed, the file is the records whose `put()`
  returned. The invariant adds that at most one shell is inside a line and that
  `rest` is what that shell has written of its record, or empty.
* `DamageCorrect`: for any number of shells and faults, if no two shells were
  inside a line at once, the damaged lines are at most the faults. The invariant
  counts one more while `rest` is not what the shell inside it has written:
  that line will be damaged when its newline comes, and never a second one.
* `MixedCorrect`: for any number of shells, however their lines mix, nothing
  written is lost or doubled while nothing fails. The invariant is the property
  itself: `MixedNotLost` counts each text in the file against the records returned
  and what each shell has written of its present one. A write moves one count
  on both sides, a newline moves a record from the work in progress to the
  records returned. What is hard are the operators: the count of a text in a
  concatenation of lines, and a sum over a set of shells of which one changes.
* `LogImplementation`: with one shell and no faults, `KineticDb` implements
  `KineticLog` under the mapping of `log` to `lines`: the write of the newline is
  the abstract PUT, every other step stutters.
* `MixedHeals`: what comes after a mixture, for any number of shells. The file is
  `Settled` when at most one shell is inside a line and `rest` is what that shell
  wrote. If nothing failed, the end of every line restores it, and that is
  inductive: only a newline takes the last shell out of its line, and it leaves
  `rest` empty. A newline that a shell writes while it alone is inside a line
  restores it whatever failed before. From a settled file each step is one of
  `KineticLog` or a stutter until two shells are inside a line or a call fails, so
  what an overlap spoils ends with it.

`KineticShellProofs`

* `LineInvCorrect` for a shell that only reads and dispatches, and the same for
  `KineticSession` (`SessionInvCorrect`), from which `LineTypeCorrect`,
  `OneBufferLeaksCorrect`, `OverrunCorrect` and `NothingRunsCorrect` follow, for
  any symbols, any length of buffer and lines, any number of lines.
* The argument. `OneBufferLeaksPerLine` speaks of the beginning of a line only;
  `Allocated` says at every place what is allocated: two per word of the list,
  the buffers in use, and one for each line that ended. `OverrunOnlyByLongWord`
  needs to know where the word in the buffer comes from: `WordAtEnd` says that
  without quotes it is the end of the line, and has no space. put and get touch
  none of it, so each step of `Execute` keeps the invariant.
* `NothingLostCorrect`: through any session, every symbol typed is in the list, in a
  buffer, or in a word that `malloc` had no node for, and such words are no more than
  the allocations that failed. `LostInv` adds that the quoted word is empty outside quotes and
  the command at the end of the line, so the buffers a step throws away are
  empty ones.
* `PlainLineCorrect`: a line without quotes that lost no word is cut at its spaces. `SplitInv` says it
  at every character: the line so far is the words of the list, each with a
  space, followed by the word in the buffer, and an empty buffer follows a space.
* `SessionImplementation`: a session, from the characters typed on, implements
  `KineticDb`: reading is a stutter, `Obey` is the `Enter` of a command a user may
  give, `Execute` a step of put or get. It assumes `WordsMatch`: what a line can
  be made of is among the keys and values. `SessionLog` follows, which is what
  `KineticSession` checks: one shell without faults implements `KineticLog`,
  whatever is typed.

`FileChatProofs`

* `TypeCorrect`, `OneStaysCorrect`, `NeverOlderCorrect`: for words of any length, those
  that do not fit in the buffer included, any number of words and descriptors,
  and writes and reads that fail or fall short.
* The argument. `OneStays` needs that a side which is about to open its partner's
  file has created its own, or could not read its pipe (`Present`); as long as all
  pipes can be read, who exits leaves a file. `NeverOlder` needs `Ordered`: a file
  holds pieces of one word only, none between the truncation and the write,
  that word is not newer than the last one typed, and what the reader printed
  last is not newer than what the file holds.
* `ChatWearsOff`, the safety half of `EndsAfterEof`: each turn keeps the descriptor
  of the file it prints, so `TurnsLeft`, six calls for every descriptor not yet kept
  and those left of the turn, falls with every call of a process. The one
  exception is another read of a file that has grown, which leaves it as it is.
  Nothing the user or the partner does raises it.

`TcpServerProofs`

* `OnlyLeaversCorrect`, `TimeIsFreshCorrect`: for any clients, any queue and any
  number of failing calls. The first needs `PortFree`, that no socket is left
  listening when a turn begins, so `bind` never fails by itself; a broken pipe has
  a client that left as its reason, and who has left stays so. The second says
  it at every place of a turn at which the time has been taken.
* `ClientsEndOnce`, the safety half of `EveryClientEnds`: who waits is in the queue or
  is being served, and the queue is empty when the socket that listens is closed;
  so between two turns and after the last nobody waits (`Kept`). The message is
  awaited before the answer, so only who said something is answered, and no
  step changes an end a client has learned.

`UdpProofs`

* `TypeCorrect`, `OwnTotalsCorrect`: for any ports, lengths, clients and failures,
  and any number of lost datagrams.
* The argument. `PrintsOwnTotals` says that without a doubled or overtaken datagram
  a client prints the totals of its own request, unless a client of its port
  left before its answer. `TotalsOK` ties the two counters to the requests served,
  at each of the server's three places. `PortOK` follows the pair of answers of
  each port whose clients have all been patient: before a client asks, nothing
  of its port is anywhere; then there is its request and nothing else, or no
  request and what is left of the two answers to one request, which is somewhere
  between the server, the channel, the socket and what the client has read, in
  that order. Loss only takes members out of it (`Thins`), and a step at
  one port changes nothing at another (`LeavesAlone`).
* `NumbersOfPortCorrect`, however the network behaves: both numbers a client prints
  were computed for requests from its own port. Where `PrintsOwnTotals` ends, with
  the first doubled datagram or the first client that left, this is what remains:
  the numbers may be of another request, never of another port. The invariant is
  a type of the channels: every datagram on its way carries a number the server
  computed for a request of the port it goes to, and losing, doubling and
  overtaking keep a channel within its type.

`ProgramsProofs`

* `ComponentsCorrect`: the whole implements the specification of each component,
  by projection: a step of `Programs` is one of the program that runs and
  leaves the variables of the others alone. So `TimeIsFreshCorrect`,
  `OnlyLeaversCorrect` and `ChatCorrect` are theorems of the components' modules.
  The other programs have one inductive invariant each, which together are
  `ProgramsInv`.
* `TypesCorrect`: all programs keep their types.
* `NoChildLeftCorrect`: `Waited` says that the parent is done only when the child
  has been reaped or never was.
* `LateIsRefusedCorrect`: who is refused had typed nothing when the limit was over.
  `NameOK` carries it over the time between `select` and `printf`, in which the user
  may begin to type after all. That who begins in time is greeted whenever the
  word ends is `NameIsGreeted`, which is liveness and only model-checked.
* `ShortMessageCorrect`: `NetOK` says what each client has in its socket and that
  what it prints are those bytes up to a zero byte, with anything behind them.
  A message shorter than a pointer has its zero byte among the bytes sent.
* `AnswerIsThereCorrect`: `FindOK` says that until a path is printed the wanted entry
  is still to come, if there is one, that the process is in the first directory,
  in one of its entries or in what a link leads to, and that a result is what
  `realpath` gives there. `PathFacts` and `ResolveFacts` say what kind of path that is.
* `ListsAreRightCorrect`: `HeapOK` says that nodes are linked in the order of their
  allocation, so the walk from the head meets each once. `PrintedAt` says which
  places of the input have been printed when the walk is at a node: the first
  places of the numbers that occur three times, in their order, up to that node.
* `TextsAreRightCorrect`: `SubstringOK` says that the characters behind the two
  indices match and that the substring begins nowhere before; `FilesOK` that what
  has been printed is of the files before the present one. That `Largest`, a
  fold, gives the first of the largest pieces, however many there are, is a
  lemma of its own (`LargestIsBest`).
* `UnattendedEnd`: the programs that wait for nobody end. The measure of
  `find_substring` is a product, the comparisons left at this place and
  `Len(substr) + 1` for every place behind it; a program on lists uses up memory
  while it reads and then walks through the list once, which needs `HeapOK`; the
  others use up their files, entries or calls. Input that is no number is covered
  too: the loop that `scanf` then keeps turning ends when `malloc` fails, and
  only so.
* `SignalEndsSoon`, the safety half of `InterruptedEnds`: with `OneNap`, `main` is at
  most three calls from its end once the handler has run, each of them brings it
  nearer, and no further signal puts it off.

`Induction` holds the lemmas about data of any size: what `FlattenSeq` gives for a
sequence with one more member, what a sum over a finite set becomes when one
summand changes, how often a value occurs in a concatenation. An induction is
written as the choice of the least place where a statement fails.

The theorems state the definitions that the runs check; what the safety halves
state is defined beside their proofs. `Programs` passes the definitions of
its components on under their names.

Only model-checked: the liveness properties `RunsEnd`, `DueIsServed`, `ClientEnds`,
`PlainPutIsStored`, `EndsAfterEof`, `EveryClientEnds`, `InterruptedEnds` and
`NameIsGreeted`: fairness and ENABLED are outside the prover. Of `RunsEnd`,
`DueIsServed`, `EndsAfterEof`, `EveryClientEnds` and `InterruptedEnds` the safety half
is proved: nothing undoes the progress they wait for, and where the progress is a
number it is bounded. The six runs that expect a violation show theirs by a
counterexample.

## 5. What the runs found

* `CronOverrun`: the lock expires while its run is between `fix_time()` and the UPDATE;
  a second run takes the lock and reads the same row, and both charge it.
* `CronUpdate`: the date "12 hours later" is set by an UPDATE nobody checks;
  when it fails and the gateway gives neither True nor False, the next turn
  charges the same subscriber at once.
* `KineticTorn`: a second shell writes its key before the first one's newline. The
  first `put()` returns, and the line that its newline ends is its record with the
  other shell's key behind it.
* `KineticGet`: GET reads once and then waits for the count to become -1.
* `KineticUnmatched`: a line reported for unmatched quotes is executed with the
  words read so far.
* `UdpTotals`: the count is raised twice for each datagram and sent before it is
  raised; the size starts from an uninitialised variable.

Seen while modelling, and without a run: `DELETE TABLE` is in the help and its
call is commented out (`exec_commands.c:36`); `buff_len` in `commands.c` is not
declared; `finish()` may remove another run's lock (above); the comment beside the
deadline says 120 seconds (`testal.php:31`), the number is 5000; the word that
`malloc` has no node for is dropped from a command that is executed all the same
(`word_item.c:12`).

## 6. Plan

1. Done: the cron, kineticdb from the typed line to the file, UDP, file_chat and
   the other programs that talk to the kernel; the theorems about every safety
   property that the runs check, and about the two implementations.
2. Next models: `strdup` that fails in `add_word`, followed to the commands that read
   the missing word; links of `search_file` that lead out of its tree.
3. Next proofs: how many lines each overlap of two shells can spoil, as a number
   (`MixedHeals` says that none after it is); the safety halves of `ClientEnds`
   and `PlainPutIsStored`.
4. The classes around the cron (`subscriber`, `transactions`)
   should they come into the repository.
