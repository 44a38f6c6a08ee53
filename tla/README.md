# A verification development for rs-matter-stack

`rs-matter-stack` turns `rs-matter`, a Matter protocol library, into a device:
it owns the order in which a device boots, is commissioned over Bluetooth (BLE),
joins its operational network, and comes back to BLE when it has to.  Almost
everything it does is the composition of futures: `select` over tasks that
belong together, dropped as a whole when one of them returns.  This directory
holds TLA+ models of that orchestration, TLC configurations that check them on
small instances, and TLAPS proofs that hold for every instance.

`rs-matter` itself, the drivers, the mDNS implementations, the application and
the commissioner are outside the repository.  They appear as actions that may
happen whenever the code in `src/` lets them, with no fairness of their own.

## The system

| Part | Where | State it keeps | Operations |
|---|---|---|---|
| Commissioning-window wait | `wireless.rs:871-890` | a subscription, a predicate | `wait_comm_window`, `wait_next_comm_window` |
| Non-concurrent run loop | `wifi.rs:141-270, 481-622`, `thread.rs:141-282, 493-643`, `wireless.rs:732-785` | the phase, `NetCtlState` (verdict), networks store | `run`, `run_wifi` / `run_thread`, `GattTask::run`, `WifiTask::run` / `ThreadTask::run`, `run_btp` |
| Interaction Model (IM) hydration | `lib.rs:667-746` | `im_hydrated`, IM state | `im`, `run_im`, `startup_im` |
| Concurrent run (coex) | `wireless.rs:663-730, 787-833` | whether the peripheral runs | `run_btp_coex`, `run_gatt_while_ble_commissionable` |
| Bump allocator | `bump.rs` | `offset`, the boxes | `reserve`, `alloc_with`, drop, `reset` |
| Run lock and guard | `wifi.rs:156-176`, `thread.rs`, `eth.rs` | `run_lock` | every `run*` method |
| Netif watch and mDNS | `lib.rs:518-664` | `NetifState` | `run_oper_netif_mdns`, `load_netif_state`, `wait_changed` |
| Startup and factory reset | `wireless.rs:602-655`, `eth.rs:178-226` | fabrics, KV store | `startup`, `reset` |
| `WirelessNetCtl` | `wireless.rs:148-549` | the variant | `connect`, `scan`, `set_enabled`, diagnostics |
| Responders | `lib.rs:748-816` | their boxes in the arena | `run_responder*`, `run_one_responder_with_bump` |
| Reseeding RNG | `rand/reseeding.rs` | seed, byte counter | `before_generate`, `reseed`, `clone` |
| Transports, drivers, mDNS wrappers | `udp.rs`, `nal.rs`, `ble.rs`, `mdns.rs`, `wireless/gatt.rs`, `network.rs` | none | adapters and traits |

How the parts interact:

- a `run*` method takes the run lock, arms a guard that resets the bump
  allocator, and allocates the future of the whole run there; that future
  allocates others, which allocate others again: the IM its responder, the
  responder its handlers;
- the run loop looks at the commissioning window of `rs-matter` and enters the
  BLE or the operational phase.  Each phase is a `select` of a transport, an
  IM, and waits on the window; when one returns, all are dropped;
- the phases share the networks store, the verdict of the last connect
  (`NetCtlState`) and the `im_hydrated` flag; the window and the failsafe
  outlive both;
- in coex operation there is one phase only, and a loop of its own starts and
  stops the BLE peripheral with the window;
- beside either, the netif watch restarts mDNS when addresses change;
- the reseeding random generator is handed to the crypto backends, which clone
  it; it shares nothing with the rest but the entropy source.

What is hard here is not in any single future.  It is what happens between two
of them: a notification between a read and an await, a window that is still
open when the radio is handed over, a verdict or a flag that outlives the phase
it was meant for, an error after a flag was set, a guard that runs while boxes
are alive, several changes seen as one, a request taken back while it is being
acted on.  `PROJECT.json` lists these hazards at
the lines where they bite, and which property covers each.

## Modules

| Module | Models | Composes |
|---|---|---|
| `Windows` | the window states the stack tells apart, and its predicates | |
| `WindowWait` | abstract: what `wait_comm_window` promises, an atomic wait | `Windows` |
| `CommWindow` | the window, and `wait_comm_window` step by step | `Windows` |
| `WaitCall` | that wait with an arbitrary caller | extends `CommWindow`, implements `WindowWait` |
| `RadioHandOver` | abstract: what a commissioner sees of a device with one radio | |
| `WirelessRun` | the non-concurrent run loop, its phases, IMs and commissioner | extends `CommWindow`, implements `RadioHandOver` |
| `CoexBle` | the BLE side of concurrent operation | extends `CommWindow` |
| `Bump` | the allocator | |
| `Arena` | abstract: the memory that the futures of the runs may expect | |
| `BumpRun` | the allocator over the life of runs by several callers | extends `Bump`, implements `Arena` |
| `NetifMdns` | the netif watch, and mDNS with its retries | |
| `Lifecycle` | boots, `startup`, runs, `reset` and loss of power over the KV store | |
| `Reseeding` | the reseeding generator, its clones and a failing entropy source | |
| `MCBumpRun`, `MCNetifMdns` | the layouts and conditions TLC is given | |
| `CommWindowProofs`, `WaitCallProofs`, `WirelessRunProofs`, `CoexBleProofs`, `BumpRunProofs`, `LifecycleProofs`, `ReseedingProofs`, `NetifMdnsProofs` | theorems | the module each is named after |

### State and actions against the code

*CommWindow.*  `win` is `Matter::comm_window_state()` reduced to what the code
asks of it: `closed`, `own` (`is_open_on_all_transports`), `admin` (open, with
an opener).  `opened` numbers the windows, so that "another window" can be said.
The future is `wpc`, `until` its closure, and `dirty` tells whether the
subscription made at `wireless.rs:880` would resolve.  `Subscribe`, `Accepted`
or `Refuse`, `Park` and `Wake` are the lines of the loop, with the window free
to change between any two of them: it may be closed from another thread.  A
caller adds to `Accepted` what it does when the wait returns, since no other
task of the caller runs between.
A subscription remembers a change that comes after it was made, polled or not:
that is what the comment at `wireless.rs:879` relies on.

*WirelessRun.*  `phase` is the position in `run_wifi` / `run_thread`, with a
value for every await at which the loop can be found: the driver bringing BLE
or the network up, the deferred connect, and the two phases proper.  `im`
follows `run_im`: built, in `startup_im`, serving.  `prov` is
`oper_net_act_task` with its two-second delay, whose polling of the verdict is
one step that may be late; `wait_prov_ready` is `rs-matter`'s, is given the BTP
as well, and is taken to return once the verdict is there.  `verdict` is the network id
of a positive `NetCtlState`.  `networks` and `stored` are the networks store in
memory and in the KV store, `armed` the failsafe, `fabric` whether the device
has been commissioned.  Wifi and Thread run the same code here and are one
model.  A phase ends in one step because `select` drops the rest with it:
`DropPhase` is part of every action that ends one.  `loaded`, `granted`,
`pending`, `joined` (the network last connected to) and `entry` are history,
which the actions keep up to date and only the properties read.

*RadioHandOver.*  Six variables: what the `radio` carries, the network of a
connect that is still `asked` for, the one last `joined`, and the networks that
are `known`, `granted` but not persisted, and `kept` in the store.  It says in a dozen short actions
what the run loop, with its phases, tasks, drivers and two IMs, amounts to for
the other side: a connect asked for over BLE is performed, for the very network
that was asked for and with credentials that are still there, before the
operational network serves anything, unless it is taken back or given up while the radio carries nothing; only what is persisted
survives a loss of power; nothing is recalled from the store over credentials
that have been granted since.  `WirelessRun` implements it with `Radio`, which is
"none" while a driver comes up or a deferred connect is performed, and with its
own variables for the rest.

*CoexBle.*  `pc` is the position in the loop; the same wait is restarted with
another predicate at each stage.  `seen` is history: the number of the window
that the loop last saw open, and chose its stage for.

*Bump, BumpRun.*  `offset` and the boxes; `Padding`, `StartAt` and `Fits` are
`align_min` with the address of the arena as a parameter, because its type has
an alignment of one.  A box is `reserved` between `reserve` and the write.
`pc[r]` walks through a `run*` method, and backwards through its locals when
it ends: the root future, the guard, the lock.  `Uses[r]` are the futures that
the method of caller `r` allocates, `Parent[t]` the future that allocates `t`
and holds its box: `t` is allocated only when that future is polled, so has been
constructed (`Polled`), and is dropped only when nothing that it holds itself is
left (`Emptied`).  With one radio only the BTP future of a phase is allocated
beside the root (`wireless.rs:746`); with both radios, and over Ethernet, the
responders and their handlers are as well (`lib.rs:704-816`).

*Arena.*  Two variables: the bytes that each future owns, and the run that takes
memory.  There is no offset, no stage, no guard and no reset: a future is put
anywhere in the arena where its layout allows it and no other lives, and a run
begins and ends with nothing owned.  `BumpRun` implements it with the bytes of a
box from its reservation to its drop, and the holder of the run lock.

*NetifMdns.*  `netifs` is what `NetifDiag::netifs` would list, `cur` the state
of the current turn (the buffer that `wait_changed` fills equals it between two
loads, and is not kept apart).  `mac` and `ipv4` are left out: they are read
and compared like the IPv6 addresses.  One listing is read as a whole.

*Lifecycle.*  `kv` and `mem` give, for the fabrics, the networks store and the
state of the IM (events watermark, subscriptions), the epoch in which the
content was written, that is, after how many factory resets, or nothing.
`call` is the `&mut self` method or the run in progress: `reset` walks through
its three `?` in `reset_networks` and `reset_im`, and each may fail having done
any part of its work.  `im` and `hydrated` follow `startup_im`; `table` tells
whether the subscriptions table, which the construction of an IM clears, holds
the persisted subscriptions.  `armed` is the failsafe: what a commissioner gives the device
(`Provisioned`) is in memory only until `CommissioningComplete` persists it or
`FailSafeExpires` rolls it back, in whichever phase or run that happens.  A run
may go from phase to phase (`SwitchPhase`), each with an IM of its own, or have
one only, as in coex operation.  `startup` may fail in the load or after it, when
the window cannot be opened (`StartupFails`).  `torn` is history: a load or a
reset has failed or been cut short since the boot, so memory and store may
differ; `again` too: an IM has served or begun to load before in this boot.
Over Ethernet the networks store and its step are not there.  What `rs-matter`
loads, removes and persists in one call is taken as one step (that
`CommissioningComplete` writes the fabric and the network together is its
promise, not shown here); calling `startup` before `run`, as the example in
`src/README.md` does, is a guard of `Run`.

*Reseeding.*  `inner[g]` is the seed that generator `g` runs from, a number for
each seed drawn; `left[g]` is `bytes_until_reseed`, an `i64` scaled down to
`MaxI64`.  `GenerateDue` is `before_generate` with the count run out, reseeding
or failing to, and taking the request off the count; `Generate` the same with
bytes left.  `u32`, `u64` and slices are requests of different lengths.

## Runs

| Run | Instance | Shows |
|---|---|---|
| `wait_call` | 4 windows | no lost wake-up; implements the atomic wait, returning included |
| `wireless_run` | 3 windows, 2 networks | five invariants and three leads-to properties of the run loop; implements `RadioHandOver`, fairness included |
| `bump_run` | 22 bytes at address 1, six futures, 3 callers of two methods | boxes apart and aligned, reset only when unused; implements `Arena` |
| `coex_ble` | 5 windows | the peripheral stops with the window, starts for the next own one, and runs for the window the loop saw only if it is the device's own |
| `netif_mdns` | 2 interfaces, 6 conditions, 2 addresses | mDNS catches up with the interface, and is not restarted with the arguments it has |
| `lifecycle` | 2 factory resets completed, any number begun | a reset forgets all, a broken one strands nobody, memory agrees with the store while no failsafe is armed, the first IM of a boot resumes the subscriptions |
| `reseeding` | 3 generators, an `i64` up to 5, 4 seeds | no overflow, reseeding in time, no shared stream, retries a threshold apart |
| `hydrated_flag`, `only_pending`, `window_swapped`, `coex_swapped`, `bump_enough` | small | one statement of a comment or doc each, and a behaviour of the code that does not keep it |

Three runs, `bump_run`, `reseeding` and `netif_mdns`, check a type invariant that
says something about the code: the used part of the arena, the byte counter and
the list of addresses stay within what holds them.  The types of the other
modules are part of the inductive invariants that are proved.

`NeverStuck`, an invariant of `wireless_run`, is about the awaits: in every state
in which a phase has something to react to, TLC finds one of the steps that
react to it enabled.  It tells a future that sleeps for a notification already
given from one that is merely late.

The five last runs end in a counterexample.  They are listed under `findings`
with the line of the code and the line that says otherwise; none of them
contradicts a property of the passing runs.  Two of them are about the same
weakness, that a wait sees the window only when it is polled, so that a window
put in the place of another meanwhile is taken for that other one.  With it the
operational phase misses a new own window (`window_swapped`), and the coex loop
keeps the peripheral up for a window of an administrator, or down for the
device's own (`coex_swapped`).  What does hold beside them is
`AwaitedWindowHandsBack`, for a phase that has seen its entry window gone, and
`SettledAgrees`, which speaks of the window that the loop has seen.

### Bounds

- `MaxWindows` bounds the windows opened in a behaviour, the one counter that
  would grow without end.  A hand-over involves one window, a bounce or a
  hand-back two, and a third is there to be opened at the wrong moment.
  `wait_call` and `coex_ble` afford more because they are small.
- `Nets` has two networks: with one, a replayed connect could not be for
  another network than the one asked for.
- `bump_run` has one caller of `run`, whose BTP future comes and goes with its
  phases, and two of `run_coex`, with transport, IM, handler and a zero-sized
  future, the last three inside of each other.  The arena holds two BLE phases of
  the former, and the futures of the latter in most orders of allocation but not
  in all: allocations succeed, a slot is reused after the reset, and the arena
  runs out.  It lies at an odd address, so that everything needs padding.
- `reseeding` has three generators: two clones of one original, or a clone of a
  clone, are needed for two of them to share a stream unnoticed.  Thresholds are
  0, below and above the largest `i64`; requests empty, short, and the longest.
  Four seeds let one generator be reseeded after all three have been.
- `MaxResets` bounds the completed resets of `lifecycle`: one shows what a
  reset leaves behind, a second that nothing of the epoch between survives.
  Boots, runs, failed resets and losses of power are not bounded.
- The conditions of `netif_mdns` are the ones the loading code distinguishes:
  no address, only the unspecified one, repeated ones, more than fit, another
  order, not operational.

Nothing else is bounded; commands, crashes, failures and restarts of the run
may repeat without limit.  Deadlock is not checked where the system may stop:
a wait after the last window, and a program that has panicked.

### Fairness

Weak fairness is assumed of the steps of the stack's own futures, because an
executor polls a woken future again: a turn of a wait loop (`Polled`), its
return (`BleWindowGone`, `EntryWindowGone`, `HandBack`, `WindowSeen`,
`WindowGone`), the poll and the timer of the hand-over (`ProvReady`,
`HandOver`), the loads of the netif watch and the retry timer of mDNS.  No
fairness is assumed of a driver, the application, the commissioner or the KV
store, nor that a run goes on: the leads-to properties of `WirelessRun` are
about a phase, and are also met if the run ends.  `RadioHandOver` has one fairness
condition, that BLE is let go once a connect has been asked for, which the poll and
the timer of the hand-over give.  The poll is inside `wait_prov_ready` of
`rs-matter`, which is given the BTP too (`wireless.rs:766`); that nothing there
holds it up is an assumption.  The notification of a netif
change is taken to last until it is awaited, which `NetChangeNotif` leaves to
the driver; with a driver that drops notifications nobody awaits,
`SettledReflects` holds only if it also notifies again.

## Proofs

TLAPS checks all of the following, with no bound on the constants beyond the
named assumptions (`MaxWindows` a natural number, `None` not a network, layouts
with positive alignment, `Root` one of the tasks, `NoRun` not a caller, thresholds
that fit a `u64` and requests that fit an `isize`, a number of interfaces).

*CommWindowProofs, WaitCallProofs.*  `WaitInv` adds to `NoMissedChange` the
types, that nobody waits exactly when there is no predicate, and that a refusal
stands until a change is signalled.  It is inductive because a change sets
`dirty` as soon as the subscription exists, and only a new subscription clears
it.  `CommWindowProofs` has the lemmas about the steps a composition is made of
(start, stop, a step of the loop, a change of the window), which the next two
reuse.  `WaitCallProofs` gives `WaitMissesNothing`, and `ImplementsWaitSafety`:
every step is a step of `WindowWait` or a stutter, so a call answers only with
an accepted state that the window is in.

*WirelessRunProofs.*  `RunInv` is a conjunction of six parts, each kept by
every action with the help of the others.  `CredentialsKept` is not inductive
alone: a load could overwrite credentials, and what excludes it is
`HydrationOrder`: while a load is under way or the flag is down nothing has
been granted, because nothing has been served.  `VerdictOfThisAttempt` and
`ReplayedFirst` need `VerdictOrder`: a deferred connect always is the current
verdict, which is why the operational phase never misses it; and a verdict that
is not of a deferred connect is of the network last joined, which is why a
replayed connect never moves the device to another one.  `NoBounce` needs
`EntryOrder`: the window counter never falls behind the entry mark, and the
wait for an own window starts only after the entry window was seen gone.
`ImplementsHandOverSafety` maps every step to a step of `RadioHandOver` or a
stutter: those within a phase by their effect on the credentials, those between
phases by what they do to `Radio`.  The operational network is joined with
nothing asked for because of `VerdictOrder`, and nothing is recalled over granted
credentials because of `HydrationOrder`.

*BumpRunProofs.*  `Inv` ties the boxes to the run: the caller past the lock is
its holder, boxes are in use only between `building` and `unwind`, and the
arena is empty before the first allocation and after the reset.  With it the
reset finds no box in use, and the boxes are apart at any base address.
`ImplementsTheArena` is the promise of allocator, lock and guard in one formula:
a reservation takes bytes behind all those in use, a drop gives them back, a
write and the reset change nothing that a future can see, and the lock changes
hands only with nothing owned.  `BoxesAligned`, which it needs, rests on a fact of arithmetic, `PaddedIsMultiple`: an address and
the padding computed for it make a multiple of the alignment.

*CoexBleProofs.*  The stage determines the predicate waited for
(`WaitsForItsStage`), and fits the window that was last seen for as long as that
one is open (`StageFitsSeen`); with `WaitInv`, `SettledAgrees` follows.

*LifecycleProofs.*  `LifeInv` adds to the properties what a reset has removed so
far (`Removed`), and what memory is known to hold (`Loaded`): the fabrics once
`startup` has succeeded, the rest once the first IM has loaded it.  The first is
why a reset forgets everything although it may be cut short and repeated.  The
second is why memory agrees with the store although nothing is loaded again
after a reset in the same boot: both have been emptied together.  `Provisions` is
about the failsafe: it is armed only when everything has been loaded, and never
with a fabric that has no network.  `Resumed` says
how the table of the first run's IM comes to be full, for `FirstRunResumes`.

*ReseedingProofs.*  `SeedInv` ties the count of every generator to the bytes given
out since it last asked for a seed, and its seed to those drawn; a seed is new
because all seeds in use have been drawn before.  From it follow all four
properties, for every width of the counter.

*NetifMdnsProofs.*  `WatchInv` says that the watch sleeps only on a state that a
load would give again, and that a state that is down is empty but for its index.
`NoTurnIsIdle`, that no turn runs mDNS with the arguments it was run with before
(a list of the same addresses in another order is another argument, as it is for
the comparison at `lib.rs:603`), follows from the second, `SettlesOnWhatIs` from the first and from
what a load computes.  That is proved by induction over the list of addresses
(`CollectingKeeps`): what has been collected after n addresses are different ones
of those, and all of them unless the room is used up.  The induction, and that
`Collecting` is well defined in the first place, rest on the least element that a
set of natural numbers has (`FirstExists`).

### Liveness and its one hypothesis

The prover reasons about fairness and leads-to, but does not look into
`ENABLED`.  Each of the four modules with fairness therefore has a definition
`GuardsEnable`: for every action that is fair, its guard implies that a step of
it is enabled, and for the fair step of an abstract specification the converse.
Each conjunct is read off one action, whose guard is all that it demands of the
state it starts from; none is about what the program does.  The theorems about
liveness have the form `Spec /\ []GuardsEnable => P`, and this is the only
hypothesis in the project that is not proved.  TLC, which does compute `ENABLED`,
checks what it is used for: in `wireless_run` `NeverStuck` has the same `ENABLED`
terms, in the states in which a step is owed, and `NeverGetsStuck` derives it for
every instance; the other runs check the liveness properties themselves.

The argument is the same for all waits.  `CommWindowProofs` calls a wait `Due`
while the window is in an accepted state, and shows that a due wait is about to
return or has a step to take (`DueIsPollable`, from `NoMissedChange`), that
every step of any task leaves it where it is or takes it one stage on, from a
refusal to the park, the new subscription and the read (`DueNearer`), and that
its own steps do the latter (`DueStepMoves`).  Weak fairness of the loop then
carries it to the read, and weak fairness of the caller's step past it.

- `CallReturns`: a call that is due returns, or the window leaves the accepted
  states.  With it `ImplementsTheWait` is the whole refinement of `WindowWait`.
- `LoopCatchesUp`, with `PeripheralStops` and `PeripheralStarts`: the same for
  the coex loop, whose stage tells what its wait is for.
- `PhaseCatchesUp`, with `BleStops` and `AwaitedWindowsHandBack`: the same for the
  phases of the run loop.  It needs `PhaseTasks`, which says what each phase is
  composed of.  `HandsOver` follows the verdict instead: while BLE is up only
  `ProvReady` moves `oper_net_act_task`, and `VerdictOrder` has it see every
  deferred connect.  From it comes the fairness part of `ImplementsTheHandOver`.
- `MdnsGetsThere`: once the interfaces stop changing, the watch goes from asleep
  with a notification to the load, the load makes the state fresh, a load of a
  fresh state gives it again (`LoadTwice`), and mDNS is retried until it runs.

Every property of the passing runs is now stated by a theorem.  What remains to
TLC alone are the values of `ENABLED`, that is, `GuardsEnable` itself.

## What is not modelled, and the plan

Done in this order: the window wait, the non-concurrent run loop, the
allocator over a run, coex, the netif watch, the lifecycle with factory reset,
the proofs of these, the hand-over as an abstract specification with its
refinement, the nested futures of the responders, the reseeding generator, the
liveness properties, and the memory of the futures as an abstract specification.
What is left is an abstract specification of the coex and Ethernet runs (one phase, IM
and netif watch side by side) that `CoexBle` and `NetifMdns` are shown to implement together.

Three more divergences were met and are not among the runs.

- The doc of `startup` has the persisted subscriptions re-hydrated "by `run`"
  (`wireless.rs:631-636`); that is so for the first IM of a boot only.  The IM of
  a later phase or run clears the table and serves without them until the next
  boot.  `SubscriptionsResumed` states what does hold.
- `wireless.rs:843-844` has an own window open on entry to the operational phase
  in no case but the hand-over.  The loop looks at the window once per turn
  (`wifi.rs:234`): one that opens while the driver brings the network up, or that
  is still open when a task of the BLE phase has ended it with `Ok`, is open on
  entry as well, and is waited out without being advertised over BLE.
- The user task is polled for as long as the operational phase lasts
  (`wifi.rs:601-604`, `thread.rs:622`, `eth.rs:414`); only mDNS is stopped when
  the interface goes down.  The docs have the task stopped and started with the
  interface (`lib.rs:838-841`, `wifi.rs:140`).

Left out for good: transports, drivers and mDNS wrappers (I/O without state),
the diagnostics accessors of `WirelessNetCtl` (defaults or delegation),
formatting macros, examples, and the memory-report scripts under `.github`.
