# Verification of TimeTools

TimeTools disciplines a computer's clock against a PTP card (Keywie KW-800) and
measures how exactly programs can act at a given time. This directory holds
TLA+ models of its core, the TLC runs that check them on small instances, and
TLAPS proofs of the properties that matter most for every value of the constants.

## The system

| Component | Source | State | Operations | Talks to |
|---|---|---|---|---|
| Card driver | `Driver/pcie_host_device.c` | `priv[8]`, a `host_priv` for each card, the class, the device numbers; the card's 64-bit counter | module init and exit, probe, remove, open, release, ioctl, mmap | the card's registers; every program on the host |
| Synchronisation programs | `Sync/host_sync.c`, `Sync/guest_sync.c`, `Driver/time_sync.c` | options, `/var/run/PcieSync.pid` with its record lock, descriptors, the loop | option parsing, `already_running()`, `daemon()`, open, measure, adjust, sleep | the driver (ioctl) or KVM (hypercall); each other through the lock file; the clock |
| Clock servo | `update_clock()` in the same files | `observed_drift`; the kernel's frequency and time | step, slew | `clock_settime()`, `adjtimex()` |
| Time arithmetic | `normalize_time()`, `add_time()`, `sub_time()`, the ioctl's offset | none | pure functions | servo, driver |
| Periodic timers | `Timer/main_user_timer.c`, `posix_timer.c`, `rdtime_cost.c` | the appointment, the timer, a pending signal, the number of reports | aim at a start time, arm, log, open; handle a tick: read clock and card, report | driver or hypercall; the clock that others set |
| Timed sending | `Timer/tcp_client.c`, `tcp_server.c` | client: `timep`, `s`, `fd` and a timer, shared by main() and its handler; server: the parent's and each child's descriptors and buffer; the connection between | arm, put the start back, log, open, connect; on a tick: make a message and write it; listen, accept, fork, close; read, print, return | each other over TCP; the card |
| Tests, load, PTP configuration, build | `GetTime/`, `Condition/`, `Ptpd/`, makefiles | none of their own | - | - |
| Hypercall | a patched KVM, not in the repository | - | read the card for a guest | guests |

Behaviours that are hard to get right, and to test:

- **Several processes, one clock.** The lock on the pid file is what keeps two
  processes from disciplining the clock together. It is taken twice by a daemon,
  because a record lock is not inherited by `daemon()`'s child; it is asked for
  in every round of a `-t` process; and any process may be killed at any point.
- **Measured, then used.** An offset is read before the lock is asked for, and
  used after. If another process adjusted the clock in between, it is wrong by
  that adjustment.
- **A control loop over a clock that others set**, with truncating divisions, a
  clamp, an `int` product that overflows, system calls whose results are
  ignored, and statements between which time passes.
- **Two registers, one counter.** The driver reads the card's counter in two
  halves, with interrupts on and no lock between them.
- **A handler on main()'s thread, and signals that merge.** The timer is armed
  for a moment computed from two readings of a clock that others set; its
  handler may run before the card is open or in the middle of a library call.
- **A driver's life cycle.** Probes that fail half way, cards that go while a
  file is open, loads that fail and are repeated.
- **A stream without boundaries.** The client writes messages of 50 bytes, the
  server reads up to 60 into a buffer of 50, and the network cuts where it likes;
  main() and the handler change `timep` at once, and the handler writes to a
  descriptor that main() may not have opened yet.

`PROJECT.json` lists each hazard at its line with the properties that cover it.

## Modules

| Module | What it is |
|---|---|
| `SyncDaemon` | the processes: `Launch`, `GetOpt` (one option a step), `AlreadyRunning` (open, lock, truncate, write), `Daemon` and `ParentExit`, `OpenDevice`, `Measure`, `Adjust`, `Sleep`, `Kill` |
| `SingleWriter` | what the lock file is for: an owner or nobody, and only the owner adjusts |
| `SyncDaemonProofs` | the inductive invariant `IInv`, the theorems from it, the refinement of `SingleWriter` |
| `TimeArith`, `TimeArithProofs` | timespecs, C's division, the unsigned offset, the target of a step; their exactness |
| `WireFormat` | a message's bytes, and the numbers the server makes of them |
| `MCTimeArithProofs` | the properties of the run `time_arith`, for all numbers |
| `ClockServo`, `ClockServoProofs` | `update_clock()` statement by statement, on the host and in a guest, the clock it disciplines, torn readings, jumps and restarts |
| `CardCounter`, `CardCounterProofs` | `host_ioctl()` reading by reading, any number of readers, a card that latches or not |
| `AlarmTimer` | the measuring programs: `Begin`, `Aim`, `Arm`, `Log`, `Open` of main(), `Expire` of the kernel, `Deliver`, `ReadFirst`, `ReadSecond`, `PrintMsg` of the handler, `SetClock` of others |
| `AlarmTimerProofs` | types, the last tick reported whatever merges, reports in time, the delay that is taken away |
| `CardDriver` | module, probes (several at once), removal and file operations, every failing call a fault |
| `CardDriverProofs` | what is held for each card, distinct minors, nodes that lead to cards, no use after a free |
| `TcpStream` | the connections: what was written, has arrived and was read; `Establish`, `Refuse`, `Arrive`, `Lose` |
| `TcpClient` | main() of `tcp_client` statement by statement (`Options` to `Connected`), the timer (`Expire`), the handler (`PrintMsg`, `Write`) |
| `TcpServer` | the parent (`Listen`, `Accept`, `Fork`, `ParentCloses`) and its children (`Read`, `ReadError`, `Return`, `CloseSs`) |
| `TimedSending` | any number of clients, the server and the network together; the properties |
| `MessageStream` | what the two programs promise: messages are heard in order, none twice |
| `TimedSendingProofs` | types, order on the wire, the reference time, drained streams, the refinement of `MessageStream` |
| `MC...` | constants and definitions for TLC |

The three synchronisation programs are copies of one another. `SyncDaemon` runs
all three, each process naming its program; they differ in how the card is
opened (`HostOpens`, `GuestOpens`, `TimeSyncOpens`). `site` tells which call of
`already_running()` is in progress: in option `d`, before the loop, or inside
it. `fresh` is a history variable: nobody adjusted the clock since this process
read its offset. `ftruncate()` and `write()` may fail as every other call may, and
`already_running()` does not look: `Truncate` then leaves the old contents, and
`WritePid` what `Truncate` left, or, cut short, digits that may be anybody's. `wrote` is a history variable: the process's
own `write()` went through. So the pid file may be empty or name a process that
has gone while somebody disciplines the clock, and `PidFileNamesWriter` says how
far it can be believed: it names the writer if the writer's `write()` succeeded,
whatever failed or was killed before.

`ClockServo` keeps times relative to the card: `err` is how far the system clock
is ahead now, and a reading that is `d` nanoseconds old has lost `d`. That
absolute timespecs compute the same is what `TimeArith` is about. `Delays` is
what may pass between two statements, `Skews` the oscillator's own rate.
`KernelFreq` and `Gain` are the kernel's clamp and its unit of frequency.
`guest` says whose measurement it is: the guest reads the two clocks one after
the other. (The host does so with interrupts off, a few instructions apart:
`HostMeasure` is one moment.) `period` is `sync_period`, in the units of `Second`,
so that a period may be a fraction of a second: the default, which is the least
that is accepted, is a hundredth. What the clock gains in such a period is less
than a nanosecond when it is nearly right, and `frac` keeps it. A reading may also
be `torn`: off by 2^32 ns, as `CardCounter` shows.

`CardCounter` splits a call into its readings: `ReadSystem` (the system's time, of
`HOST_GET_OFFSET` only), `ReadLow` (`TMR_CNT_L`) and `ReadHigh` (`TMR_CNT_H` and the
copy to the user). Interrupts are off between the first two, which keeps this
processor to the call; the counter, the other processors' readers and whoever
adjusts the clock go on. The offset's `truth` is therefore the clock as it was read
less the counter as its low word was. `last` is a history variable: who read
`TMR_CNT_L` last. The repository does not say whether the card freezes the high
register when the low one is read, so `Latches` is a constant: the run and
`ExactUndisturbed` are about a card that does, the other theorems about both.

In `CardDriver` a card goes through `waiting`, `scanned`, `filled`, `allocated`,
`mapped` and `bound`, and cards do so in parallel: the kernel locks a device while
it is probed, not the driver. `Scan` searches `priv[]`, `Kmalloc` fills the slot
and `Adopt` takes what the slot has by then. `priv` keeps addresses that were
freed, as the code does; `heap` says what is behind them, and whose registers
`m_immrbar` points to. `crossed` is a history variable: a probe searched `priv[]`
between another's search and its filling of the slot. From then on two cards may
have one minor and one object, and each of the driver's four properties fails; so
each is stated of what comes before. A kernel that probes one card at a time never
crosses (`OneProbeNeverCrosses`). `quiet` is a history variable: nothing failed so far,
and no card left a loaded module. `oops` is set by a use of memory that is not there,
and ends the behaviour. `Faults` names the calls that may fail, `cdev_add()` and
`device_create()` included, whose results the driver ignores: the module is then
live with no file operations (`RegisterChrdev`), or a card bound with no node
(`MakeNode`).

In `TimedSending` a message is its number, its reference time, counted in
intervals from the appointment, and whether its time came from the card; a stream
is `sent`, with how many units of it have arrived and were read. `Shown` says
which message a read shows as it was sent: one that begins where the read does
and of which all the server looks at was read. `timep -= iv_s` is two steps,
`LoadTimep` and `StoreTimep`, since the handler may come between. Bytes read past
the end of the buffer may do nothing, overwrite the descriptor (`astray`) or the
canary (`smashed`). `calm` and `since` are history variables: since when no
message met another in the stream, nor was read in parts. How main() aims the
timer is the subject of `AlarmTimer`; here the timer expires at any moment.

In `AlarmTimer`, `mono` is the time that passes and `wall` is CLOCK_REALTIME,
which `SetClock` moves; relative timers follow `mono`. Main and handler share a
thread: `Main` needs `hpc = "idle"`, and the handler's signal is blocked while it
runs. `utime` is computed modulo `Word`, as the code does in an unsigned long
long; a timer set to 0 is disarmed. An `fopen()` that fails ends the program in
main() (`Log`) and in the handler (`PrintMsg`), since neither looks. `aimed`, `expiries` and `last` are history
variables. Command lines that end in `-h` or a malformed `-t` change nothing and
are left out.

Definitions marked `Bug:` are plausible mistakes. They are part of no
specification; put in the place of the definition they follow, each makes the
property it is paired with fail.

## Runs

| Run | Shows | Bounds |
|---|---|---|
| `daemon_all` | one writer, the pid file names it if its `write()` went through, no stale offset, `SingleWriter` implemented; all programs, options and directories, every call failing, kills at every point | 3 process slots: an owner, a contender and a fork's child; 3 descriptors; 903,000 states |
| `daemon_live` | every start reaches its loop or ends; a synchronising process adjusts for ever and never leaves its loop for lack of descriptors | the same, fair processes, no kills, forks may fail |
| `time_arith` | sums, offset, split, the choice between step and slew and its target are exact; a message comes out of the server as it went into the client | a second of 3 ns, words of 4 bits, bytes of 2 bits: every sign and every wrap occurs, seconds beyond an `int` included |
| `servo_all` | on the host and in a guest: an undisturbed step lands within its delays and is never followed by another, in any later round, until something goes wrong; the clock settles, 32-bit overflow included | the code's constants in microseconds; settled is within 10; a guest whose TAI constant is 1; errors on both sides of the threshold; the host with periods of 10 ms (the default), 1 s and 3 s, a guest with 200 ms and 1 s; with 1 s also one disturbance, anywhere: a jump, a restart, a torn reading or a refused call; 2,749,000 states |
| `counter_shared` | undisturbed readings are exact, others torn by whole wraps at most | 2 readers, low word of 2 counts, 3 wraps; 80,000 states |
| `timer_all` | whatever merges, the last tick is reported; reports come neither early nor for an older tick, the fixed time is the card's at the appointment, every expiry is answered | 2 units a second, 6 units, the clock set once; 9 command lines: starts ahead, at once and past, whole, fractional and negative intervals, every mode; every fault; the first reports (0 to 3) of a run; 354,000 states |
| `tcp_all` | messages reach the wire in order and without gaps, with times of the card and references that are not ahead; a drained stream is understood; no connection is forgotten; every stream is drained, every end noticed; `MessageStream` implemented | 2 clients: one alone with 4 ticks, and both with 2 and 1; units of ten bytes, so that messages are 5, reads 6 into a buffer of 5, and 3 are looked at; the network delivers any number; every fault, 557,000 states |
| `driver_all` | until two searches cross: minors stay distinct, failed probes release, nodes lead to cards; without a failure nothing is an oops | 2 cards, probed one after the other or at once, 3 slots (one without a card), 2 files, every fault, cards that come and go; 2,826,000 states |

A property that fails needs two or three parties, so two readers, two cards and
three process slots are the smallest instances with a bystander; the proofs
remove the bound where there is one. In `SyncDaemon` a period is counted in
units of 1 ms, so that `MinPeriod` is 10. Deadlock is checked, except in
`time_arith` (one call is all there is), in `driver_all` (an oops is the end), in
the timer's runs (their time is bounded) and in `tcp_all` (the ticks are).

A course of the servo at the default period takes thousands of rounds, and every
one of them is in the run: the integrator winds up to its clamp on the way, the
frequency stays at its own, and the clock swings through zero before it settles.
What goes wrong in the middle of such a course multiplies it by its rounds, and so
does the time a guest's hypercall takes; disturbances are therefore left to the
period of a second, and a guest is not run below 200 ms. With a period of 4 s the loop over-corrects and is not
stable: TLC finds `Settles` violated, so that 3 s is the longest in the run.
`-s` accepts any (see Plan).

With units of ten bytes a message is not a multiple of what is read, so that
two that meet are cut at every offset; 4 ticks let two meet, the stream drain
and two more meet; two clients are the fewest with which the parent accepts while
a child reads.

Disagreements between the code and what it says of itself, each a run that ends
in a counterexample:

| Run | What happens |
|---|---|
| `daemon_announce` | after "Sync process Successfully" the child may ask for the lock before its parent's `_exit()`, and end |
| `servo_overflow` | `adj * 65` overflows an `int` for offsets between about 66 and 100 ms; the clock is first pushed the wrong way |
| `timer_default` | started without `-t` just before a multiple of five seconds, a program that prints "it will start in 5 secs" finds the appointed second come when it computes the time left, 0, which disarms the timer: it never starts |
| `counter_torn` | another reader between the two registers makes a time late by 2^32 ns |

Also in the models, without a run of their own:

- A `write()` of the pid that fails is not noticed: the daemon runs, and the file
  is empty or names another process (`Truncate`, `WritePid`).
- A `-t` process that finds no lock owner takes the lock and adjusts the clock,
  though usage() says "display current pcie time" (`Measure`, `Locks`).
- A removed card's minor opens, with the freed object: `priv[]` keeps its address
  (`HostOpen`).
- A start given with `-t` that is past, or now, is never kept (`Countdown`); with
  the documented `-i 5.3` the nanoseconds of the clock are not the delay; the
  first report of mode 1 may come before the card is open (`CardReadings`).
- `time_sync -d` opens the relative path `pcietime0` after `daemon()` changed to
  `/`, and ends (`TimeSyncOpens`).
- Removal never resets `priv[i]`, so that after eight probes a card is refused
  with "Too more PCIE device" (`Scan`); two probes at once take the same slot
  (`crossed`).
- The registers are mapped twice and unmapped once (`leaked`).
- An init that fails leaves its class; the next load then returns 1, and the
  kernel keeps a module that registered nothing (`husk`).
- A failing `kmalloc()` and a card without an I/O address make the probe return
  0, and the card stays bound (`Adopt`, `BoardInit`).
- A `cdev_add()` that fails leaves a module that says "init succeed" and can open
  nothing; a `device_create()` that fails, a bound card without a node
  (`RegisterChrdev`, `MakeNode`).
- A log file that cannot be opened ends the timer programs by a null pointer
  (`Log`, `PrintMsg`).
- Two messages that meet in the stream are cut, and what is printed then are
  bytes of both (`Shown`); the ten bytes past the buffer may do no harm, overwrite
  the descriptor or end the child on its return (`Read`).
- A child whose client has gone closes the listening socket and calls `accept()`
  in vain for ever; it never closes its connection (`CloseSs`, `spin`).
- A handler that comes before `socket()` writes its message to standard input, and
  one that comes before `connect()` kills the client by SIGPIPE (`WriteLost`,
  `WriteKills`); the result of `connect()` is ignored (`Connected`); without `-a`
  an uninitialised pointer is parsed (`Connect`).
- A tick between the load and the store of `timep -= iv_s` is lost from the
  reference time, and so is each merged signal: it lags for ever (`StoreTimep`,
  `Expire`). `-m 0` advances the reference as `-m 3` does (`NextTimep`).
- A torn reading of the card is believed: the clock is stepped by 4.29 s, and
  back a period later (`ClockServo`).
- `bytes_to_int64()` returns an `int`, so that seconds are kept modulo 2^32.

Read while modelling: the usage text calls `-d` "the non-daemon mode" and it
daemonises; `Sync/README.md` asks for a period above 10000 and the code accepts
10000; the test that the master clock is ready is commented out; a `-t` process
without a lock owner leaks a descriptor in each round until `open()` fails and
it exits. The period is not bounded (`host_sync.c:316`). The correction of one round
grows with it: it reaches the step threshold with periods of minutes only (see
`OneStepSuffices`), but with 4 s the clock already swings for ever around the card. The guest subtracts 35 from a count of
nanoseconds (`guest_sync.c:121`) where the driver subtracts 35 seconds.

## Fairness

`SyncDaemon`: weak fairness of each process's own step - the scheduler runs it
and no call blocks, `usleep()` included; launches and kills have none.
`ClockServo`: weak fairness of `Round`, for the same reason; jumps and restarts
have none and are bounded. `AlarmTimer`: weak fairness of `Main`, `Handler`,
`Expire` and `Tick` - the process is scheduled, the kernel's timer works and time
passes, up to `Horizon`; nobody has to set the clock. `TimedSending`: weak fairness of the
server's parent, of each client's thread (main() or its handler), of each child,
and of the network's `Establish`, `Refuse` and `Arrive`; nobody has to make the
timer expire, lose a connection or kill a process. The other modules state safety
only.

## Proofs

All theorems hold for every value of the constants, under the assumptions named
in the modules.

- **`SyncDaemonProofs`.** `OneWriter` alone is not inductive: that a process
  past its lock still holds it depends on where it is in the program and on
  which call of `already_running()` it is in. `IInv` states, for each label,
  what that place claims of the lock, the file and the offset; a step of one
  process keeps the claims of the others because it changes the lock only when
  it holds it or nobody does. `TypeCorrect`, `MutualExclusion`,
  `PidFileCorrect`, `OffsetsAreFresh` follow. What the file holds is claimed only
  of a process whose `write()` succeeded, since every call may fail. `LoopLasts`
  assumes that nothing is killed; `Refinement` shows that every step is one of `SingleWriter`, or a
  stutter, under the mapping from lock and labels to owner and adjustments.
- **`TimeArithProofs`.** Each function is exact on all integers. The wrap of the
  TAI offset is a lemma about `%` by `Word`.
- **`MCTimeArithProofs`.** The properties of `time_arith`, from those theorems
  and, for a message, from two facts: the four bytes of a number make up its
  remainder by 2^32 (`DigitsSum`), and each number lies where `Encode` puts it
  (`EncodeLays`). A byte has at least four values; it has 256.
- **`ClockServoProofs`.** `StepsLand` strengthens `StepLands` by what each
  reading is worth (`LandInv`), on the host and in a guest, unless it is torn.
  `OneStepSuffices` and `StaysInReach` are about every round after a step, not
  only the next one. That the clock is near is not inductive: a slew changes the
  frequency, not the clock, and the integrator may be wound up against the offset.
  `NearInv` therefore says where the clock will be at the end of the period that a
  slew begins: within `Reach`. A clock further off than `Turn` gets a frequency at
  its clamp that brings it back, whatever the integrator holds, and one that is
  nearer moves by `Run` at most (`SlewNear`). `KeepsNear` says that what is then
  `Seen` is below the threshold and that 65 times its output fits an `int`; a period
  that is a fraction of a second moves the clock by that fraction, and `Run` counts
  the nanosecond that `frac` may hold. The code's constants meet it with every
  period of the run (delays of 1 us, an oscillator 50 ppm off), where `Reach` is
  below 4 ms, which TLC evaluates in `MCClockServo`, and with periods of up to 114
  seconds.
  `OutputApplied` says of every single round whether the frequency is the
  controller's output: it is when 65 times the largest output at the round's offset
  fits an `int`, which with the code's constants is every offset below 65.05 ms.
  Between that and the threshold it may not be, which is the run
  `servo_overflow`.
- **`CardCounterProofs`.** `CounterInv`: the latch is never ahead of the
  counter, and never behind the high word of a process between its readings of
  the two registers.
  `ExactUndisturbed` adds that the latch belongs to the low word read last.
- **`AlarmTimerProofs`.** Types need `NegativeUnarmed`, that a timer with a
  negative interval never runs. `LatestTickAnswered` rests on `LatestUnderWay`: from
  its first reading on the handler holds the last tick, or the signal is pending
  again. `DelaysTakenAway` rests on `DelayInv`: starts
  are whole seconds (`WholeStart`), a reading made while main() waits is the
  card's (`CardOpen`), and the last report is that reading less the clock's
  fraction (`LastFixed`). `ModShift` then turns the fraction of the clock into
  that of the lag, since whole seconds do not change a remainder.
  `ReportsTimely` assumes `WithinAWord`: appointments and intervals less than a
  word away. `TimelyInv` says that a timer that runs expires at the appointment,
  plus the time of arming, plus whole intervals (`Expiry`), with the present
  between its last expiry and its next; a start in the past wraps beyond the
  horizon.
- **`CardDriverProofs`.** Any number of cards may be probed at once. `TypeCorrect`
  holds however their probes cross; it needs `Slotted`, that a probe has a slot
  from its search on, so that `priv[]` is never used out of its bounds. The rest
  holds until two searches cross (`Kept`, and `CrossedStays`). `DriverInv` says how
  far each card has come and what is held for it then (`CardInv`), and that no two
  cards have a minor or an object in common, counting the object that a probe has
  put into its slot and not yet taken (`Held`). A step of one card keeps the rest
  of it because it touches that card's slot, object and mapping only (`OneCard`,
  `UnmappedOwn`); a search finds a slot of no other card because whoever has a slot
  with nothing in it is still filling it (`NotShared`). `QuietInv` adds what
  holds until the first failure: once the module is live every card is bound or
  was refused, every filled slot is some card's, and every open file is a bound
  card's. `OopsHasCause` is about what comes after the first failure: it lists the
  only steps that can then use memory that is not there (`Cause`), and they are
  the ones named above - the module that registered nothing, the card bound
  without an object, the file whose card has gone or was never mapped.
- **`TimedSendingProofs`.** `WireInOrder` rests on `ClientOrder` and
  `ClientReads`: the handler writes every message it makes before it returns, so
  a gap needs a change of the link, which never comes back. `ReferenceBehind`
  bounds `timep` and main()'s copy of it by the expiries seen (`ClientBehind`).
  `AttendedAlways` follows the parent from `accept()` to `close()`
  (`ParentHolds`). `DrainedHeard` assumes that a read asks for a message at least
  and looks at no more than one (`MsgLen <= ReadLen`, `Used <= MsgLen`), as the
  code does. `StreamImplemented` needs that whatever was heard lies before what
  is still to be read (`HeardBefore`).

Only model-checked: the liveness properties (`StartDecides`, `KeepsAdjusting`,
`Settles`, `AlarmAnswered`, `StreamsDrained`, `EndsNoticed`), which need fairness.
Every safety property of the passing runs is proved.

## Plan

1. `SyncDaemon`, `SingleWriter`, `TimeArith`, `ClockServo`, `CardCounter`,
   `CardDriver` - done, proofs included.
2. `AlarmTimer` - done, proofs included.
3. `TcpStream`, `TcpClient`, `TcpServer`, `TimedSending`, `MessageStream`,
   `WireFormat` - done, proofs and refinement included.
4. What a torn reading does to the servo, and the guest's measurement - done, in
   `ClockServo`.
5. `CardDriver`'s theorems, with parallel probes - done.
6. Left: a bound on how long the servo takes to settle, which is a liveness
   property and only model-checked (`Settles`); the longest period with which it
   settles at all, which lies between 3 s and 4 s; disturbances in the middle of a
   course at the default period.

## Not modelled

The printed text; `host_read()`, which returns a constant, `host_write()`,
`host_llseek()`, suspend and resume, which change nothing, and the compiled-out
setting of the card's counter; the load generators, the PTP daemon's
configuration and the build; what KVM answers to the hypercall. The servo's liveness
is checked with the periods of its run; its safety is proved for every period.

Of timed sending: the capacity of the sockets' buffers, so that a `write()` waits
for the connection only; a server that is started again; the client's second
reading of the system time in mode 0, and `localtime()`'s buffer, which main() and
the handler share: both concern the text that is printed.
