# The card reader and its phone in TLA+

The repository holds the pieces of a smart card accessory for a MediaTek phone: a
kernel driver that notices the accessory and routes USB to it, an Android
application that talks to the card through an Alcor USB reader, the scripts that
copy the pieces over an Android tree and build it, and that tree's changed files,
several applications and services of the phone among them. This directory models the
parts that carry logic of their own, checks them with TLC on small instances and
proves the main facts with TLAPS for every instance.

    cd tla
    tlc -workers 2 -config CardReaderDriver_clean.cfg CardReaderDriver
    tlc -workers 2 -config SmartCardApp_tasks.cfg SmartCardApp
    tlapm CardReaderDriverProofs.tla

`PROJECT.json` lists, for each definition, the lines it stands for; each property
that passes comes with a plausible mistake in one definition (the operators marked
"Mistake" just before the definition) that breaks it.

## Inventory

Paths are below `src/`; `app` is `mx2150_code/bird/mmi/bird_app`, `server` is
`mx2150_code/bird/alps/frameworks/base/services/core/java/com/android/server`.

| Component | State | Operations | Status |
|---|---|---|---|
| Kernel driver, `cardreader_bird/cardreader_bird.c` | remembered pin level, published state, trigger of the interrupt, one work item, two outputs, what probe registered | probe with its error label, interrupt handler, worker, remove | modelled but for suspend: `CardReaderDriver` |
| Application, `SmartCardApp/app/src/main/java/com/example/smartcardapp/TestActivity.java` | buttons, spinner, `mReader`, `mMyDev`, `mTask`, `mSlotStatus` | life cycle, seven buttons, spinner, USB broadcasts, HotPlug threads | modelled: `SmartCardApp` |
| The APDU exchange in the same file (457-490, 721-804) | the locals of three loops | `sendAPDUkOnClick` with `toByteArray` and `logBuffer` | modelled: `HexCodec` |
| Driver and application together | USB routing decides which device Android sees | pin, switch, attach and detach, reader | modelled: `CardReaderSystem` |
| StudentSos, `app/StudentSos`, and its key in `server/policy/PhoneWindowManager.java` | the key's property, `mIsDialing`, `mIsSosSuccess`, dialling threads | click, start, stop, call state messages, dialling loop | modelled: `StudentSos` |
| StudentTrafficManage, `app/StudentTrafficManage` | preferences, two firewall chains, one AsyncTask | start command, query, rule setting | modelled: `FireWall` |
| RebootTest, `app/BirdFirmwareTest/src/com/bird/reboottest` | counters in preferences, a delayed message | boot, resume, reboot, cancel, clear | modelled: `RebootTest` |
| Build scripts, `script/makeBird`, `script/script/main`, `build_action.sh`, `clone.sh`, `copy_and_pac.sh` | exit codes, the tree, output directories, packages | clone, lunch, clean, make, OTA, package | modelled: `BuildPipeline` |
| KCFlashLight, `app/KCFlashLight` | LED, screen, SOS timer, time service | on, off, SOS, time-out, leaving | partly: `FlashLight` |
| `server/BirdContainerManagerService.java`, with what it uses of `UserManagerService` and `UserController` | second user, kept settings, attempts left, flags of a removal | add, enter, leave, destroy, stop, password reports, receiver | partly: `SecureContainer` |
| amlib, `SmartCardApp/app/libs/*.jar` | reader and USB interface | connect, transmit, getCardStatus, close, destroy | only a jar: environment of `SmartCardApp` |
| Copy scripts, JNI wrappers, birdfkram, other applications, Android and kernel files | | file copies, single ioctls, vendor code | not modelled, see the end |

Two copies are not modelled again: the driver under
`mx2150_code/bird/alps/kernel-3.18` is identical, and the application under
`Alcor_Android_SmartCardApp_V1.0.0.1` extends another activity class.

How they interact. The accessory pulls a pin; the driver's interrupt handler
publishes the new state and queues work; the worker turns the USB switch, and in the
UART build the supply VGP1; Android then sees the reader attached or detached and
broadcasts a detachment; the application asks for permission, opens the reader,
connects to the card and polls the slot from a thread of its own. The other
components meet only Android: `StudentSos` the power key and the telephone,
`FireWall` the school's application and netd, `RebootTest` the preferences and the
power, `FlashLight` the camera and the activity manager, `SecureContainer` the user
manager. `BuildPipeline` is what puts them on a phone.

What is hard. In the driver: the handler runs while probe is still choosing the
trigger, preempts the worker anywhere, toggles a remembered level instead of reading
the pin, and shares one work item with any number of requests. In the application:
four kinds of asynchronous input (clicks, permission answers, detachments, life
cycle) reach handlers that each switch some of the buttons, and HotPlug threads,
started at every connect and never joined, share `mSlotStatus` and `mReader` with no
lock. Between the two: news of a detachment is late when the accessory bounces.
`StudentSos`: a thread that polls flags which callbacks change, and a service
destroyed under it. `FireWall`: a cancelled query that still writes, kernel chains
that outlive the process. `RebootTest`: a counter that must survive the reboots it
causes, and messages that outlive their activity. `BuildPipeline`: exit codes
through pipes, copies that fail or overlay unnoticed, old output in shared
directories. `FlashLight`: an LED that outlives the process, a limit kept by another
component and reached through broadcasts, a kill between any two calls.
`SecureContainer`: requests that Android carries out later, refuses or fails at,
with the exception swallowed, and one receiver whose registrations all operations
share.

What makes each correct is said property by property under "Runs".

## Modules

    UsbSwitch                 what the driver promises of its outputs
      ^ implemented by
    CardReaderDriver          the driver               <- CardReaderDriverProofs
    SmartCardApp              the application          <- SmartCardAppProofs
      ^ extended by
    CardReaderSystem          the application, the bus and (INSTANCE) UsbSwitch
                                                       <- SmartCardAppProofs
    HexCodec                  the APDU exchange        <- SmartCardAppProofs
    MCSmartCardApp            SmartCardApp and its exchange, for TLC
    StudentSos                emergency dialling       <- StudentSosProofs, MCStudentSos
    FireWall                  the firewall service     <- FireWallProofs, MCFireWall
    RebootTest                the reboot test          <- RebootTestProofs
    BuildPipeline             the build scripts        <- BuildPipelineProofs, MCBuildPipeline
    FlashLight                the torch                <- FlashLightProofs
    SecureContainer           the second user          <- SecureContainerProofs

A module's variables have the names of the fields they stand for where the code has
one; what a thread or process does next is a variable such as `pc`, `probe`,
`phase`. A variable that is no state of the program but remembers something a
property needs is called a ghost below.

### CardReaderDriver

One variable for each piece of driver state (`cur` is `cur_eint_gpio_state`, `state`
is `cur_cardreader_sim_eint_state`), one "what next" variable for each thread of
control: `probe` (probe, then remove), `isr` and `worker`; `held` is the set of
things registered. An action is a stretch of one thread that no other thread can
observe half-way: the handler, lines 200-221, is `IsrToggle`, `IsrSetTrigger`,
`IsrPublish`, `IsrQueueWork`, and registration's test and set of the trigger
(274-282) are two actions, with the interrupt free to come between. `class_create`
and `device_create` may report failure as an error pointer that the NULL tests let
through; a failed `gpio_request` is only logged, and a failed look-up of the pins'
states brings the kernel down where they are first used; registration without a
device node goes on and makes probe return early (`"abandoned"`).
`create_singlethread_workqueue` may fail, which nobody tests. `queue_work`
coalesces, is refused while the queue is being destroyed, and brings the kernel down
on no queue or, perhaps, on a freed one (`isr = "panic"`), because remove never
frees the interrupt. Ghost `refused`: removal had begun when a state was to be
queued.

Level triggers raise the interrupt as long as the pin has the level; a falling edge
is latched, and may or may not survive a change of trigger type.

Left out: the wake lock and system suspend, which only delay the worker,
`cardreader_irq_flag` (never read), the file operations (they change nothing) and
log texts.

`UsbSwitch` states the promise with no interrupt, queue or thread: while somebody
serves, a want may be asked for at any time, the outputs may be anything as long as
a request is due, and when none is due they are those of the last want. `Promise` in
`CardReaderDriver` is the refinement mapping: the abstract switch serves from the
moment registration has set the outputs until remove begins, the want is the
published state, and a request is due from `IsrPublish` until the worker is past its
last output with nothing queued.

### SmartCardApp and HexCodec

The UI thread runs one handler at a time, so a handler is one action, except
`PowerOffOnClick`, whose two halves (close the reader; stop the task) a HotPlug
thread can tell apart. A `HotPlug` object and its thread are one member of `Tasks`;
`tasks[t]` is what the thread does next, one action for each access to something
shared. A name is used again when its thread has ended. Broadcasts wait in a queue
and are received only while the receiver is registered.

`mReader` says what was last done with the Reader the field names: `InitReader`
makes a new one (`"fresh"`), so what was done with the one before is forgotten, as
it is in the program, where nobody else keeps a reference. A reader can be reached
when the USB interface is open on a device that is attached and the Reader has not
been destroyed; on such a reader `getCardStatus` is taken to succeed, otherwise it
returns a code or throws. An exception skips the sleep.

`HardwareMayFail` lets the constructor in `onCreate` throw, after which the rest of
`onCreate` is skipped and some later handlers crash; a permission answer may also
open the interface and then fail at the constructor of the Reader. `run()` sets
`isRunning` again (99), so that a stop that comes between `start()` and `run()` is
lost; ghost `unheard` is the set of the threads this happened to. Left out: texts,
the messages that only show them, and the interrupt in `onStop`, which only shortens
a sleep.

`HexCodec` is the handler of the APDU button as a machine of its own: `SendText`
takes what was typed, `CountChar`, `PutChar` and `SkipChar` are the turns of the two
loops of `toByteArray` (count the digits; fill halves of bytes), `Reply` is the
card's answer as bytes of Java's, from -128 to 127, and `LogByte` is one turn of
`logBuffer`, with its lines of `LineBytes`. A character is a digit in either case,
or anything else (separators and letters alike are skipped). A write beyond the
array is `"crashed"`; the library's own failures are `Finish`. What was sent is
forgotten when the reply comes, as nothing reads it again. The reference it is
compared with (`Reads`) does not loop: it counts the digits of a text.

`MCSmartCardApp` puts the two together for TLC. The handler shares no variable with
the rest of the application but the button that starts it, so its steps and those of
threads and environment commute; an exchange is therefore told of in one go, from a
state in which nothing else is under way (`Calm`).

### CardReaderSystem

The application beside the driver's promise and the bus. `Reader` is the one device
behind the switch and `ToReader` the level of the output that routes USB to it; the
board's wiring is not in the repository, so it is a constant. `Enumerate` and
`Disconnect` let the bus follow the output, later; `attached` changes by nothing
else. The driver is present as `UsbSwitch` rather than as `CardReaderDriver`:
`KeepsPromise`, proved for every instance, is what makes that substitution good, and
it keeps the composition small.

### StudentSos

A service instance bears the name of the first thread it started; `Threads` are the
starts of one run. `PowerKey` is the third click of the power key: it tests and sets
`persist.sys.student.sos` and sends `star_call`, received later. A thread goes
through `while`, `for`, `wait` (the test of flags and call state) and `call`, with
the main thread's handler (`Handle`), `end_call`, `onDestroy` and the telephone
between any two of them. `onDestroy` neither stops nor interrupts the thread; the
handler of a destroyed instance lives on. The tone is left out because
`mCanPalyTone` is never set, so it is never played; so are speaker, volume and SMS,
and the choice among several SIMs, which changes only how a call is asked for.

Without an account a plain number (`NoAccount`) stops the service and is called all
the same, and its thread, emergency numbers included, goes through the rest of the
list; an exception in `startCall` (`CallThrows`) ends it. `onCreate` reads the
cursor before it tests it for null (405, 410), so that a start may die
(`CreateThrows`): the process ends with its threads (`"dead"`), and the system tries
the start again or gives it up.

Telephone, Telecom and other senders of `STUDENTSOS` are the environment: a call
asked for is set up, refused or lost (`Refuses`), comes in where `Rings` allows, and
is answered or ended by anybody. Nothing is said of how fast they are. Ghosts:
`endCalled`, the instances that an `end_call` stopped; `givenUp`, the last start
died and is not tried again; `refused`, no message will tell of the last call. Other
deaths of the process, which is persistent, and the boot, which resets the property,
are left out.

### FireWall

The school's application changes rows of its list and broadcasts; broadcasts wait
(`pending`). `StartCommand` clears both chains, cancels the task and starts another;
AsyncTasks run one after the other, so a cancelled one that runs goes on storing its
rows (`stale`) while the new one waits (`"queued"`). A query stores row by row in
the preferences that nothing ever removes a key from; `Post` and `Key` set the
rules, key by key, in any order. A rule may be refused after the first or before
both of its calls. `Crash` may come anywhere, between the two chains too; chains and
preferences stay, and the sticky service is started again. Clearing a chain may
fail, as the service is not connected to netd or the exception is swallowed
(259-268), and goes on: what was denied then stays. Ghosts: `kept`, what the last
start failed to clear in each chain, and `failed`, whether since then the query
failed or a rule was refused. `Left(a)` names what the code does with an application
that leaves the list: its old lock stays in force.

Left out: rows of packages that are not installed, which the code skips, and updates
that change a package's uid; that `commit` waits for the disk is one step.

### RebootTest

Preferences survive power failures; fields, activities and messages do not. `Fire`,
`Count` and `Reboot` are the three commits and the call of `handleMessage`, with a
power failure possible between any two. Both activities are singleTask in one task,
which is why `OptionsActivity` can be opened above or below a living test, and an
activity that Android destroys leaves its delayed message in the looper (`orphans`),
where it fires with the counts it had. Ghosts: `reboots` caused and counts `lost` to
a power failure since the test was set up, and `relaunched`, set once
`OptionsActivity` was opened beside a living test.

### BuildPipeline

One invocation of `makeBird` after the other on one tree; `pc` is the step it is at.
Images and OTA archives are reduced to where they come from, a package to whether it
is there, in part or in full. `pipestatus` is `PIPESTATUS[0]` on its way through the
branches of `build_action.sh`, which set, test and overwrite it, and `ExitStatus`
what `main` gets of it. `make` and `lunch` are external. Copying ends with the
status of its last command, so that a part that fails is not noticed, and it lays
files over those of another project without deleting: it leaves the project's tree,
a mixture (`Mixed`) or the tree as it was. `make clean` empties the output of every
product or fails, which `build_action.sh` does not ask (ghost `littered`). A make
that failed may have replaced the images or not. `copy_and_pac.sh` takes the first
product with images in the order of `*`, an OTA archive only if there is exactly
one, and finds perhaps nothing to copy. `Kill` is the end of the process at any
step; together with copies of the package that fail it is bounded by `MaxFaults`.
Ghost `since` counts the packagings of a project since its last full one. The
targets that neither clone nor package stand under `"snod"`.

### FlashLight

One process, one LED that the kernel keeps when the process dies. The main thread
runs one handler at a time, call by call: `doing` is the handler, `todo` its next
call (a broadcast, the LED, the timer, leaving), and `Crash` may come between any
two, after which the sticky service is restarted with a new count. TIME_ON and
TIME_OFF reach `TimeReceiver` in the order of sending; `ACTION_RETURN` has a way of
its own. The end of the time runs on the thread of the service's timer, beside the
main thread: `TimeUp` switches the LED off, `SendReturn` broadcasts, `StopSelf`
stops the service (`ending`). The SOS timer's thread posts messages which the main
thread handles later, after the timer was cancelled perhaps. Ghost `by` says who lit
the LED: the torch, SOS, or a message that came late; ghost `upset` marks a burning
LED that lost its limit in one of two ways: a kill inside an SOS click, between
TIME_OFF and the LED, and a service that was told to start while about to stop
itself. Left out: wake locks, sounds, pictures, and a second screen launched before
the first one is destroyed.

### SecureContainer

The calls of the service and its receiver, with switching, stopping and removing a
user as `UserController` and `UserManagerService` do it for the one container user.
A switch is asked for (`starting`) and happens later; a broadcast is sent to who is
registered at that time, and `unregisterReceiver` takes every registration at once.
`adb` stands for the settings kept and closed together (ADB, development settings,
Bluetooth). Every call may come at any time. What the service calls may refuse or
throw, which it swallows: a switch is refused or ignored after the settings were
closed, `removeUser` refuses or fails half-way after `mRemoving` was set,
`createUser` fails. Ghost `slips` names what went wrong since the last start in a
way the code does not make good: `"closed"`, `"again"`, `"deaf"`, `"refused"`,
`"inside"` (explained in the module; each property excepts only those that can break
it, and TLC finds it violated without any one of them). Ghost `wanted` is the set of
values the owner may find. Left out: location, start screens, lock, `mStopContainer`
(never read), `mContainerJustRemoved`, and `setData` by others.

## Runs

| Run | Instance | Question |
|---|---|---|
| `CardReaderDriver_clean` | no UART, clean pin, no unbinding | does the driver follow the pin from any registration race, settle, and clean up a failed probe |
| `CardReaderDriver_glitchy` | UART, any pin, unbinding | do coalesced requests ever leave the outputs behind, does the driver implement `UsbSwitch`, is the work item there when used, and what does removal leave behind |
| `SmartCardApp_buttons` | 2 devices, 1 task, 2 broadcasts under way, failing `onCreate`; texts of up to 4 characters of 4, replies of up to 3 octets of 3 | are the buttons consistent with each other and with the reader; is an APDU sent and shown as it is |
| `SmartCardApp_tasks` | 1 device, 2 tasks, 1 broadcast | is there one monitor only and do all threads end, but for those that lost their stop; is no field null where it is used, does the slot status settle on the truth |
| `SmartCardApp_unconnected` | 1 device, 1 task | does the code keep to amlib's documentation: it does not |
| `CardReaderSystem_bounce` | 1 device, 1 task, 2 broadcasts under way | is a connection shown to a reader that is away, and does a reader that stays away end it |
| `RebootTest_reboots` | counts up to 4, 7 acts of the user, 3 power failures | are the reboots counted, and does the test end |
| `StudentSos_calls` | 2 starts, 1 `end_call`, an empty, a plain and an emergency number, with an account and without, 1 intent, refused and throwing calls, calls that come in while dialling, a start that dies | do threads and the key stay apart, are calls allowed while it dials, and does dialling go on and end |
| `FireWall_lists` | 3 applications, 2 with one uid, 2 broadcasts under way | are exactly the locked applications denied, whatever overlaps, fails or crashes |
| `BuildPipeline_packages` | 2 projects and products, all actions on one beside `new` of the other, 2 faults; copies, cleaning and makes may fail | is only what was built packaged, as what it is, and is one package always kept |
| `FlashLight_torch` | SOS built in, handlers call by call, limit 5, 2 kills anywhere, 4 broadcasts | is a burning torch always limited, and nothing lit behind a closed screen |
| `SecureContainer_visits` | 3 attempts, calls at any time, refusals and swallowed exceptions, 2 reboots | do settings come back, is a removal told and carried out |

### Bounds

The driver's state is finite; its runs have no bounds at all. For the application:
one reader and one other device, because detachments of other devices reach the same
handler; two tasks, since the reuse of names gives any number of threads in sequence
and the properties are about an old and a current one; `MaxBroadcasts` 2 in
`buttons` and in the system, so that a detachment and an answer, or an old
detachment and a new one, wait in either order, and 1 in `tasks`, where the threads
matter; `MaxListed` 1, since only zero or not matters (`UpToMax` saturates).
`HexCodec`: the characters are a digit above the sign bit, a letter in each case,
and a separator; four of them make two bytes, with the odd digit in either; the
octets are Java's -128 and -1 and a positive one with a letter; three of them, in
lines of two, fill a line and begin another.

`RebootTest`: four reboots leave room for a second test started over the first; the
acts and power failures suffice to open `OptionsActivity` beside a living test and
to lose the phone in each commit. `StudentSos`: an `end_call` and a click make a
second thread beside the first, which is where the hazards are; a number of each
kind takes every branch of the choice of calls. `FireWall`: two applications that
share a uid and the school's; two broadcasts overlap, a third start finds what a
second one left. `BuildPipeline`: two projects with a product each, so that what
another project left in the output directory can be picked up; two faults can follow
on each other, or a fault on a build of the other project. `FlashLight`: five ticks,
so that a session can end and another begin within a count; four broadcasts, so that
off and on of two sessions wait together. `SecureContainer`: one user is all there
is; three attempts are lost, reset and used up; two reboots, the second meeting what
the first left. Where a theorem is listed below, it holds without any bound.

Deadlock. Checking is on in `BuildPipeline_packages` and `SecureContainer_visits`.
It is off where the system really stops: a device whose kernel went down, a process
that crashed, a user or a number of starts used up, a list that nobody changes any
more, a torch that is off.

### What the properties say

Driver. `FollowsPin`: with a clean pin, whenever the line is quiet `cur`, `state`
and the trigger are those of the pin, although the handler only toggles.
`SwitchSettles`: if the pin rests, the outputs come to rest where it is.
`SwitchAgrees`: one pending bit and one reading of the state are enough, on any pin.
`KeepsPromise`, `PromiseAnswered`: the driver implements `UsbSwitch`, and a
published state that stands is applied, as long as there is a queue and the kernel
is up. `WorkReady`: the handler, which may run as soon as the interrupt is
requested, finds its work item initialised. `RemovedSettled`: what removal leaves on
the outputs is the last state published in time. `ErrorPathReleases`: the error
label gives back what probe had got, however far. A clean pin (`CleanPin`) moves at
most once during registration and never while an interrupt is raised or being
served. A bouncing pin can leave the remembered level inverted for good, since no
code reads the pin again; that is why `FollowsPin` and `SwitchSettles` assume it,
and the other properties do not.

Application. `ConnectXorPowerOff`: exactly one of the two is enabled whatever
handlers ran. `TalksToOpenReader`: ATR, APDU and Protocol are never offered on a
closed or destroyed reader. `NoUiCrash`: the unguarded references of the handlers
are never null once `onCreate` ran to its end. `OneMonitor`: apart from tasks that
lost their stop (`unheard`), only the current one is marked running.
`SlotStatusSettles`: races on `mSlotStatus` cannot leave it wrong. `ThreadsEnd`: no
thread outlives the activity, but those. `ApduExact`: the array that the first loop
measured is large enough for the second, the k-th digit typed is the k-th half byte
sent, an odd digit is completed by zero, and what is shown reads as the bytes
received, so that it can be typed again.

System. `ConnectionKnown`: PowerOff, ATR and APDU are offered only while the reader
is on the bus or the news of its leaving is under way, however it bounces.
(Protocol, which the detachment forgets, stays enabled: see "Disagreements".)
`Withdrawn`: once the accessory stays away no connection is shown and no thread
polls, for good, but one that lost its stop.

`RebootTest`. `NoUncountedReboot`: a reboot is committed before it happens, from
whichever activity's message. `CountExact`: and counted only if it happens, or power
fails in between, until two activities count at once. `FlagConsumed`: the flag does
not make a later boot start the test. `TestEnds`: after the last act the phone stops
rebooting.

`StudentSos`. `OneThreadPerService`: the property the key tests keeps two threads
off one set of fields, although everything between click and `onDestroy` is
asynchronous. `SosAllowsCalls`: while a thread dials calls are allowed out, unless
an `end_call` took its service away or it found no account and goes through the rest
of its list. `KeyWorksAgain`: the key is never dead, unless the last start died and
was given up. `SuccessEndsDialling`, `CallsUntilSuccess`: an answered call ends
thread and service; until then every turn comes, unless calls keep coming in, a call
was refused unheard, an `end_call` let a second thread in, or the process died.

`FireWall`. `OnlyLockedDenied`: from the start for the last change on, nothing but
what is locked, `Left`, or was not cleared (`kept`) is denied, if the list could be
read. `Exact`: at rest, exactly that, if no rule was refused either. `SchoolFree`:
the school's application never is. `Settles`: and it comes to rest.

`BuildPipeline`. `PackagesSuccess`: through all branches of `build_action.sh` only a
build that succeeded, with its archive, is packaged; `copybin`, which builds
nothing, apart. `KeepsAPackage`: a packaging that failed, was killed or found no
complete build leaves the full package there was, as itself or as `_old`; two of
them in a row may lose it. `PackagesOwnBuild`: what `new` and `ota` package is what
this invocation made of the tree, unless its `make clean` failed. That the tree is
the project's is not so, see "Disagreements".

`FlashLight`. `Limited`: between any two calls, and after a kill there, a torch that
burns is under the time limit, unless `upset`. `OffWhenGone`: nothing burns behind a
closed screen. `TurnsOff`: a forgotten torch goes off.

`SecureContainer`. `Restored`: after a visit the owner has his settings again.
`RemovingTold`: `mRemoving` is on while a removal goes on, and only then.
`DestroyEnds`: a container destroyed from inside or outside goes. Each but for the
`slips` it names.

Type invariants (`TypeOK` of each module) are proved and not run.

### Fairness

* `CardReaderDriver`: weak fairness of probe, of the handler and of the worker. The
  kernel runs probe to its end, a raised interrupt is served, and the workqueue has
  a thread of its own. The pin and unbinding are not fair.
* `SmartCardApp`: weak fairness of each HotPlug thread (`Scheduled`), which Android
  schedules like any other. Clicks, plugging, permission answers, broadcasts, the
  card and even the second half of `PowerOffOnClick` are not fair.
* `CardReaderSystem`: also strong fairness of the bus, which the bound on broadcasts
  may hold up for a while, and of `Receive`, since the UI thread's queue is served
  in order, so that a broadcast comes through between clicks; weak fairness of the
  second half of `PowerOffOnClick`. Here and in `SmartCardApp` fairness is written out
  as what enables an action and what it changes, which TLC checks faster.
* `RebootTest`: weak fairness of the phone's steps (time passes, it boots); none of
  the user or of power failures, which are bounded.
* `StudentSos`: weak fairness of each thread, of the main thread's handling of
  messages and of `onDestroy`, and of the telephone's setting up, refusing and
  ending calls; three of them are written out as what is eventually disabled or
  always taken again. Whoever answers or calls, starts and deaths are free.
* `FireWall`: weak fairness of the service's threads together.
* `FlashLight`: weak fairness of the calls of a handler that began, of the delivery
  of broadcasts, and of the time limit (ticks, the steps of its end, the restart of
  the sticky service). Not of the SOS timer.
* `SecureContainer`: weak fairness of each step Android was asked for (start, stop,
  removal of the state) and of each kind of news to the receiver.
* `BuildPipeline` has no liveness property: what a shell does it does or is killed.

### Disagreements found

One with a run: a second permission answer replaces `mReader` under enabled exchange
buttons, so that they work on a reader that was never connected, against the
documentation of `Reader.connect()` (`SmartCardApp_unconnected`,
TestActivity.java:694).

Others were met while modelling. They are in the models, and the properties above
are stated so as to except them:

* Driver: `create_singlethread_workqueue` (415) is not tested; the interrupt then
  queues on no queue.
* TestActivity: a stop between `start()` and `run()` is lost, as `run()` sets
  `isRunning` (99), and the thread polls on after the activity is gone; Protocol
  stays enabled after a detachment (622-628), and does nothing; the text "SmartCard
  Removed!!" is put into a message that is never sent (112-118); the code after
  "Close reader" closes nothing (642-645); the code after "Update reader list"
  appends to the list without clearing it (631-640).
* RebootTest: a stopped test's waiting message, of an activity Android destroyed,
  still reboots the phone; opened again beside a living test, the older activity
  goes on with its own counts.
* StudentSos: `quertFamilyNum` counts a cursor (405) before it tests it for null
  (410); a start that dies there leaves the key's property on and the key dead until
  the boot; a thread without an account dials on after its service ended and
  outgoing calls may be forbidden again, where the comment at 311 has them allowed;
  after an `end_call` the thread dials on; a call that is refused, of which no
  message comes, lets it sleep until another call changes state.
* FireWall: an application that was locked and left the list stays denied, as
  nothing removes its key; a clearing that fails is only logged (259-268), so that
  an application that was unlocked stays denied until a later start clears.
* Build scripts: two failed packagings in a row lose the last full package; a remake
  packages whatever project the tree holds under the name it was given; a copy that
  fails is not noticed (`clone.sh` 29-50) and one that succeeds leaves the files
  only another project has (`clone_product.sh` 16-25), so that even `new` may
  package a mixture; the status of `make clean` is overwritten (`build_action.sh`
  34, 77), so that `new` may package another build's images; `copybin` after a clean
  makes a package without images.
* FlashLight: the comment at `FlashLightActivity` 44 promises a torch ten minutes. A
  kill inside a click on SOS, between TIME_OFF (61) and the LED (73), leaves one
  that burns without limit, and so does a click on the torch while the service of
  the session before is about to stop itself (`TimeService` 25-28). SOS's last
  message may light the LED after its timer was cancelled, and an LED lit by SOS
  burns on after a crash, as no limit is set for it. A torch left by Back and lit
  again is limited by the count of the session before.
* BirdContainerManagerService: a switch that is refused or throws after the settings
  were closed leaves them closed (221-227, 269-273); a `removeUser` that is refused
  or throws leaves `mRemoving` on with the container in place (173, 182); a
  container can be entered while it is being removed, which leaves it half removed;
  a second request to enter before the switch keeps the closed settings and loses
  the owner's; the end of one operation unregisters the receiver for all of them.

## Proofs

The `...Proofs` modules prove, for every value of the constants:

| Module | Theorem | Statement | Rests on |
|---|---|---|---|
| all eight | `TypeCorrect` | `Spec => []TypeOK` | inductive with what the module calls `Flags`, `Values`, `Queue`, `Serial`, `Building`, `Places`, `KeyInv` |
| `CardReaderDriverProofs` | `WorkIsReady`, `ErrorPathIsClean` | `WorkReady`, `ErrorPathReleases` | `Phases` |
| | `SwitchIsRight`, `RemoveSettles`, `ImplementsUsbSwitch` | `SwitchAgrees`, `RemovedSettled`, `KeepsPromise` | `Phases`, `SwitchInv` |
| | `PinIsFollowed` | `CleanPin /\ Spec => []FollowsPin` | `Phases`, `FollowInv` |
| | `InterruptsEnd`, `RestsAtPin` | `CleanPin`: bound with a queue and with the pin at rest, every step brings handler and worker nearer to their rest, and the outputs rest where the pin is | `HandlerInv`; `FollowInv` and `SwitchInv` for the second |
| `SmartCardAppProofs` | `OneWayOn`, `UiDoesNotCrash`, `NoTalkAfterClose` | `ConnectXorPowerOff`, `NoUiCrash`, `TalksToOpenReader` | `UiInv` |
| | `MonitorIsAlone` | `OneMonitor` | `TaskInv` |
| | `ThreadsWindDown` | while the activity is not visible every step of a thread brings it nearer to its end, unless it lost its stop | `TaskInv` |
| | `StatusConverges` | while reader and card rest, nobody is misled anew about the card, and without a misled thread the status becomes true and stays so | `TypeOK`, `Unmade` |
| | `ShownIsKnown` | `SysSpec => []ConnectionKnown` | `UiInv`, `SysInv` |
| | `ExchangeIsExact` | `CodecSpec => []ApduExact` | `CodecInv` |
| `RebootTestProofs` | `EveryRebootCounted`, `CountIsExact`, `FlagIsConsumed` | `NoUncountedReboot`, `CountExact`, `FlagConsumed` | `Ahead`, `InStep`, `FlagInv` |
| | `TestCountsDown`, `TestIsShort` | every step of the phone by itself brings the end of the test nearer; at most 5 * `MaxCount` + 5 of them | `FlagInv` |
| `StudentSosProofs` | `ThreadsApart`, `KeyIsNotDead` | `OneThreadPerService`, `KeyWorksAgain` | `KeyInv` |
| | `CallsAllowed` | `SosAllowsCalls` | `KeyInv`, `DialInv` |
| | `SuccessWindsDown`, `EndedLeavesNoService` | a success is for good and each step of its thread brings it nearer to its end, without a call; a thread that ended has stopped its service | `KeyInv`, `EndedStops` |
| `FireWallProofs` | `NothingElseDenied`, `RestsExact` | `OnlyLockedDenied`, `Exact` | `Serial`, `Listed`, `InStep`, `ChainsOpen`, `Denies` |
| | `SchoolIsFree` | `SchoolFree`, if no other application has the school's uid | `NeverSchool` |
| | `ServiceWindsDown` | while `Fresh`, every step brings the service nearer to its rest, where nothing moves | `Serial` |
| `BuildPipelineProofs` | `SuccessPackaged` | `PackagesSuccess` | `StatusInv` |
| | `FullIsKept` | `KeepsAPackage`, for any number of faults | `KeptInv` |
| | `OwnBuildPackaged` | `PackagesOwnBuild` | `OwnInv` |
| `FlashLightProofs` | `LimitHolds` | `Limited` | `Places`, `QueueInv`, `CallsInv`, `LimitInv` |
| | `GoneIsOff` | `OffWhenGone` | `TimerInv` |
| `SecureContainerProofs` | `RemovalIsTold`, `SettingsComeBack` | `RemovingTold`, `Restored` | `RemovalInv`; `Kept` for the second |
| | `RemovalGoesOn` | a container that was destroyed is led back from its absence by no step but a slip or a reboot | `RemovalInv`, `OnItsWay` |

* `Phases` ties how far probe has come to what is held and to who may be running:
  the work item is initialised before the interrupt is requested, nothing runs
  before that, and the queue is empty and the worker idle once the queue is
  destroyed.
* `SwitchInv` adds to `SwitchAgrees` what the worker must have right half-way: if
  nothing has been published or queued since it read the state, the value it holds
  is still the published one. `SwitchAgrees` alone says nothing of a worker under
  way and is not inductive.
* `FollowInv` is the argument about toggling. During registration, with at most one
  move of the pin, either `cur` is the pin, or the pin has risen and no edge has
  been seen, or it has fallen and the one interrupt of that fall is to come, under
  way or over. Once bound, the trigger waits for the pin to leave `cur`, or the
  interrupt is raised.
* `UiInv` says what enabled buttons promise of the fields: PowerOff that a reader
  and a task exist, the exchange buttons that the reader was not closed.
* `TaskInv`, of threads that run or are about to: but for those that lost their stop
  only the current one does, none does while the activity is not visible, and none
  while Connect is enabled, except between the halves of `PowerOffOnClick`. The last
  part is what a new connect needs, the one before it what lets threads end.
* `SysInv`: nothing but `Reader` is ever on the bus, and as long as a connection's
  buttons are enabled and the activity is not destroyed, a stopped one included, the
  receiver is registered and the reader is on the bus or the news that it left
  waits. That news is behind or before others in the queue and stays there until it
  is received (`NewsWaits`), whatever attachments come meanwhile.
* `HandlerInv`: no edge is latched while the handler runs, so that no interrupt
  follows but one of the level; and a handler that brought a bound driver down had
  no queue.
* `CodecInv` has one part for each loop: how many digits were counted up to here
  (`CountInv`), that the halves of the array up to here are the digits read and the
  half to come next is the one `len` and `first` name (`FillInv`), and that the text
  made so far shows the bytes up to here (`LogInv`). The rank of a digit is a
  cardinality, whose step lemmas (`RankStep`, `RankOfDigit`) replace an induction
  over texts; arithmetic of half bytes is in `ByteHigh` and `ByteLow`.
* `Ahead` carries the bound of `NoUncountedReboot` to everybody who holds a count
  that will be committed: the living activity, its message, the messages of dead
  ones, the handler half-way. `InStep` is the equality that holds until a second
  activity counts; `FlagInv` says that a living activity has cleared the flag, and
  that a flag set while the phone is quiet has no activity or message beside it.
* `KeyInv`: the key's property is on from click to `onDestroy`, and no service runs
  while a start is under way, so every thread has a service of its own. `DialInv`:
  but for `end_call`, only a thread that is done or found no account stops its
  service.
* `FireWall`'s invariants follow the list through the service: a task that will
  store it is queued or running, then the preferences say what the list says
  (`InStep`), then the keys not yet looked at and the uids denied together are those
  locked, beside what was not cleared (`ChainsOpen`, `Denies`). Old tasks are
  harmless because they run first (`Serial`) and the rows they leave are written
  over or are `Left`.
* `StatusInv` says what a `PIPESTATUS` of 0 stands for at each test of
  `build_action.sh`: before the OTA branch for the make, after it for the archive
  too.
* `KeptInv`: after a full packaging the package is full, or its `_old` while the
  next one copies; after one that went wrong either is, until the next one has
  moved. `OwnInv` follows a cleaned build from `make clean` to the package: nobody
  else's images are there.
* `CallsInv` is what the calls of a handler owe to their order: who lights the LED
  has sent TIME_ON last, and who sends TIME_OFF, SOS apart, finds the LED off.
  `LimitInv` adds that a service about to stop itself has no torch in its care.
  `Limited` is about the last broadcast only, which is why a queue of any length is
  no harder than one of one.
* `TimerInv`: no SOS timer and no handler half-way without a screen, and no timer
  when the screen goes.
* `RemovalInv` follows a removal: a user that goes has `mRemoving` on, its news
  waits or somebody listens for it. `Kept`: the owner's value is in the database
  during a visit and in the settings otherwise. `OnItsWay`: a removal asked for
  inside waits for a switch to the owner, with the receiver listening. Each holds as
  long as nothing slipped, and a slip is all that breaks it.

The only assumptions are the `ASSUME`s of the modules (types of the constants, names
for "none" outside the sets) and what the table names: `CleanPin` and the school's
uid. Each is explained with its module. The implementation theorem is about steps;
that a want which stands is met (`PromiseAnswered`) is checked by TLC.

Liveness is what the installed provers cannot do: no rule for fairness, no
`ENABLED`. Of most liveness properties the half that is about single steps is proved
all the same, and for every instance. A measure bounds the work that is left
(`StepsLeft`, `Within`, `Stage`, `RemovalLeft`), no step but those the theorem names
puts it up, and where the measure ends the property holds. In all but
`RemovalGoesOn` every step the property waits for takes it down, so that nothing can
go round for ever; there calls may come between, which leave it as it is. The other
half, that a step is taken as long as work is left, is TLC's, under the fairness
stated above.

| Checked by TLC | Proved of it |
|---|---|
| `SwitchSettles` | `InterruptsEnd`, `RestsAtPin` |
| `SlotStatusSettles` | `StatusConverges` |
| `ThreadsEnd` | `ThreadsWindDown` |
| `TestEnds` | `TestCountsDown`, `TestIsShort` |
| `SuccessEndsDialling` | `SuccessWindsDown`, `EndedLeavesNoService` |
| `Settles` | `ServiceWindsDown`, with `RestsExact` |
| `DestroyEnds` | `RemovalGoesOn` |
| `PromiseAnswered`, `Withdrawn`, `CallsUntilSuccess`, `TurnsOff` | nothing |

Two of the measures are weaker than a number. In `ServiceWindsDown` a step within a
stage takes away a row or a key, so that the argument needs `Apps` to be finite;
`StatusConverges` and `ThreadsWindDown` are about each thread by itself. What puts a
measure up is the environment: the pin, unbinding, the user, a power failure, a
change of the list, a slip, a reboot.

Every invariant of a passing run is proved, `FollowsPin` and `SchoolFree` under the
hypothesis the table names. No module declares a `RECURSIVE` operator.

## Not modelled

* amlib is a jar with documentation only; the copy scripts are lists of file copies,
  one step (`CopyFiles`) of `BuildPipeline`; the JNI wrappers and birdfkram make one
  ioctl or write per call and keep nothing.
* The other applications (WriteIMEI, BirdElectronicCard, SalesCount, STKHeartTest,
  the players and cameras) have nothing to do with the reader and are largely
  derived from AOSP or MediaTek samples.
* Everything else under `mx2150_code/bird/alps` is Android's and MediaTek's code
  with local changes, by far the most lines of the repository; it is there to be
  copied over a tree that is not in the repository, and cannot be read, let alone
  run, without it. Firmware tables of touch panels are data.
* In the components that are modelled: system suspend and the wake lock of the
  driver (the interrupt may wake a system that suspends again before the worker has
  run; nothing in the source says when the platform suspends); a second
  `FlashLightActivity` launched before the first is destroyed; deaths of the
  dialling service's process other than in its start.
* The hazards without a property are those where the code states no intent to check
  it against: `PROJECT.json` says so for each.
