# A verification of Beer-Heater-V1

The program is the firmware of a beer heater: an AVR that measures two
temperatures and the heater's voltage and current, shows its state on three
LEDs, takes two buttons and commands over USB, and has a data flash for a log.
These modules model the parts of it whose behaviour depends on order: what the
interrupts and the main loop share, what the firmware and its chips share, and
what survives a reset or a loss of power.

## The system

`main` (`src/main.c:77`) initialises the hardware and then calls, for ever,
`RunCommand`, `HandleButtonPress` and `TemperatureControllerTask`. Five
interrupts run beside it.

| part | state | operations | who touches it |
|---|---|---|---|
| status bytes (`status.c`) | hardware, program and HIO byte | `BH_GetStatus`, `BH_SetStatus` | main loop **and** `ISR(INT2_vect)` |
| front panel (`Hardware.c`, `max7315.c`) | expander registers, its INT line | `LED`, `HandleButtonPress`, `GetButtonState`, the ISR | main loop **and** the ISR, over one two-wire bus |
| millisecond counter (`Hardware.c`) | `ElapsedMS`, 16 bits | `ISR(TIMER0_COMPA_vect)`, `DelayMS` | the timer writes, the main loop waits |
| temperature controller (`Hardware.c`) | `CountsFromRTC`, averages, CONTROL_ON | start, stop, task, `ISR(INT3_vect)` | main loop and the clock's interrupt |
| data logger (`Datalogger.c`) | place in flash, buffer in use, schedule | init, add, save, find, read back, start, process | main loop |
| data flash (`at45db321d.c`) | pages, two buffers, busy flag | transfers, reads, writes | the logger; `mem` commands |
| relay, buzzer, calibration | port pins, EEPROM | `Relay`, `Beep`, `CalibrateHeaterCurrent` | commands, `ISR(TIMER3_COMPA_vect)` |
| conversions (`Hardware.c`, `thermistor.c`) | none | counts to volts, amperes, degrees | the controller, commands |
| clock (`ds3232m.c`) | the chip's registers | get and set time, status | commands, the logger |
| AD converter (`ad7794.c`) | the chip's registers | configure, convert, read | measurements, commands |
| command line (`commands.c`) | none of its own | 13 handlers | runs in the main loop |
| USB (`main.c`, `Descriptors.c`) | LUFA's | event handlers | the timer interrupt |

The command interpreter, `TWIRW` and the jump to the boot loader are in the git
submodule `common`, LUFA in another: neither is among the files, and both are
modelled, where they matter, by how this code uses them.

What is hard in this code, and what it would take to be right:

* **Panel.** The main loop and the ISR change one byte without a lock, and use
  one bus. A press must be taken once; the LED bits must show what is lit; the
  edge-triggered interrupt must not lose the level that triggers it.
* **Delay.** A 16-bit counter is read in two loads and three places while it is
  counted and reset. A delay must return, and take its time.
* **Logger.** The log's end is written nowhere. It must be found again after
  every reset, with one buffer being copied in the background and the other one
  full of old bytes; what is read back must be what was logged.
* **Controller.** Ticks of the clock are counted in an interrupt, compared with
  `==`, and set to 0 by the main loop: samples may be missed or delayed.
* **Converter.** A wait that times out is not noticed, and its answer comes while
  another channel is measured. Values must be the channel's own, and a
  thermistor's current must not stay on.
* **Buzzer.** Its interrupt may be pending when its timer is turned off. Behind a
  beep the buzzer must be quiet.
* **Schedule.** Minutes are compared with `==`, the first ones come from an
  uninitialised time, and the bus may fail. Samples and data sets must come in time,
  the same number of samples for each data set.
* **Clock, calibration.** What they keep must survive losses of power in the middle
  of being written, failing transactions that nobody looks at, a bus that a command
  turned off, sums in too few bits, and a mask that matches nothing.

`PROJECT.json` lists these hazards at their lines, with the properties for them.

## The modules

### Panel, PanelPresses, PanelLeds (runs `panel`, `panel_faulty`, `panel_lost_press`, `panel_phantom`)

`Panel` is the status byte, the expander, the two buttons, the main loop and
`ISR(INT2_vect)`. `hio` is `BH_HIOStatus` with its bits as three sets; `task`,
`pc` and `calls` say where the main loop is, `blink0` and `latched` belong to the
expander, `int2` is the flag in EIFR. One step is one load, one store, one bus
transaction, one decision, or one half of the ISR: these are the places between
which the other side can act. `BH_SetStatus` is `LoadStatus` and `StoreStatus`,
because the byte is not volatile and the operation compiles to a load and a
store. `LED` is `LED`, `ModifyRead`, `ModifyWrite`, and then a `BH_SetStatus`; it
ignores errors, as the code does. The ISR is two steps because the buttons may
move between the vector and the read. `B1_OLD` and `B2_OLD` are there, compared
and never written.

`twi` is the state of the processor's two-wire interface. The command `twiscan` turns
it on, scans the bus and turns it off (`src/Board/commands.c:525`), and nothing but a
restart turns it on for good: from then on every transaction fails, the ISR's read of
the buttons included. INT then stays low behind the next move of a button, no further
edge comes, and the buttons are dead, although the ISR is commented `Triggered on a
change of button state` (`src/Board/Hardware.c:810`). The properties about presses are
therefore stated for the time until then.

The constants choose the environment: faults of the bus (`TwiFaults`), whether
`TWIRW` survives being entered by the ISR inside a transaction of the main loop
(`TwiNests`; its source is not here, so both answers are checked), two buttons at
once (`Chords`), bounce, commands that call `LED` and the controller's LED 3.

`PanelPresses` adds history variables that follow a press from the button to
`HandleButtonPress`, `PanelLeds` one, `astray`, that follows for which LEDs the last
update went wrong: its transaction failed or was garbled, or its state was neither 0 nor
1. `led 2 2` is accepted (`src/Board/commands.c:163`), changes the expander's register and
leaves the status byte as it was.

* `panel`: reliable bus, everything else allowed. `NoStuckInterrupt`: while the bus is on
  the interrupt cannot hang on its level. A press is lost only if the ISR ran inside an
  update (`LostOnlyByRace`), and one is invented only with two buttons down or a bounce
  (`PhantomOnlyIfMixed`).
* `panel_faulty`: the bus fails, garbles and is turned off, and `led 2 2` is typed. Even so
  the unlocked update costs presses and nothing else (`StoreLosesOnlyPresses`); an LED bit
  differs from the expander between two tasks only for an LED that is astray
  (`LedAgreement`), so that a failure stays with its LED until the next good update of
  it, unless a transaction was garbled; and pending presses are taken (`RedPressTaken`,
  `BlackPressTaken`).
* `panel_lost_press`, `panel_phantom`: two defects, with a counterexample each.

The instances are the real ones: two buttons, three LEDs, one byte. Only the
commands are thinned (`SomeCalls`, `OddCalls`): one with a number that is no LED, and one
with a state that is none. The other calls are made by the buttons and the controller.

*Fairness.* The core serves a pending interrupt as soon as no ISR runs (weak
fairness of both halves). It executes one instruction of the main program after
each return from an interrupt, so however fast interrupts come the main loop is
not starved: strong fairness of `MainLoop`, as every interrupt disables it. The
people at the buttons owe nothing.

### DelayTimer, Buzzer (runs `delay`, `delay_hang`)

`DelayMS` with two steps for every read of `ElapsedMS`, and the tick. The
comparison, the sum and the difference wrap like the 16-bit words they are. A
tick is thousands of instructions apart from the next; the variable `paced` says
so without counting instructions: between two ticks the loop makes at least one
whole comparison. Without it a tick could jump over the value that is waited
for, and no delay would be sure to return.

`Buzzer` is `Beep` around it: `BuzzerOn`, the delay, the two steps of `BuzzerOff`,
the compare flag of timer 3 and the ISR that toggles the pin. Interrupts are those
of the core: one instruction of the main program is executed behind each return,
otherwise a pending interrupt comes first, the one with the lower vector before
the others. `fresh` says that an interrupt has just returned. What `BuzzerOff` is
exposed to follows from these rules: an interrupt that is pending when the timer
stops is served between the two steps, except if another one with a lower vector
is served there; then it comes after the pin was cleared, and sets it.

* `delay`: a byte of 5 values, a roll-over of 22 out of 25, so that every kind of
  value exists, the last three words that the counter never shows included. Delays
  short, of a byte, across a byte, long and too long. `DelayLength`: undisturbed,
  the delay is right to a tick, *unless the sum wraps*, where the rest of the
  word is missing. `ReachedDelayReturns`: it returns if it waits for a value below
  the roll-over, and `BeepEnds`: the beep then ends. `QuietAfterBeep`: behind it the
  pin is low and nothing is pending, but for the case above, which does happen.
* `delay_hang`: it may wait for a value at or above it, and then does not return
  (here with a byte of 8 values, and no buzzer). A beep would sound for ever, and
  `DFU` (`src/Board/commands.c`) would not reach the boot loader.

*Fairness.* The main program runs and the timer ticks: weak fairness of both in
`DelayTimer`. In `Buzzer` the main program is never kept from its next step by the
interrupts, as one step follows each of them: weak fairness of `Beep`. A tick, or an
interrupt of timer 3, may have to wait for another interrupt and is then served:
strong fairness. None of them is faster than the instructions of a few ISRs.

### Dataflash, Datalogger, DataloggerLog, RecordLog (runs `datalogger`, `datalogger_full`, `datalogger_part`)

`Dataflash` is the chip: pages, two buffers, and the page it is copying. A page
is seen as slots for data sets. What is not the header of a data set matters
only by the size its bytes seem to give, 255 for erased bytes and 0 for zeroes:
this is what the scan tests. `Datalogger` has one action per function, over whole
scans: `PageToLook`, `FoundSlot` and `ReportsFull` are what
`Datalogger_FindLastDataSet` returns. A reset of the processor leaves the chip
alone; a loss of power takes the buffers and leaves a page that was being copied
erased. `DataloggerLog` defines the log somebody reads back and, as a history
variable, the cases in which the code gives it up: it was restarted, on purpose
or because the device is full; it went round to page 0; the chip was busy and
ignored a command; power failed during a copy; a full page ended in zero bytes;
a partly filled page was saved with older data sets behind it.

`RecordLog` is what a user of the log relies on, without pages, buffers and headers:
data sets are added, and reach the log at its end all together and in order, or are
forgotten all together and for good. `DataloggerLog` maps its `log` to what is
read back, its `unsaved` to the data sets in the buffer in use that are in no page,
and calls the promise off when `spoiled`.

* `datalogger`: in all other cases, through resets, losses of power, saves and
  scans at any time, the log is in order (`LogOrdered`), nothing in flash is
  hidden from the reader (`NothingHidden`), and the logger implements `RecordLog`
  (`ImplementsRecordLog`): a page that is copied a second time, with more data sets,
  adds just these, and what a start, a reset or a loss of power made the
  logger forget does not come back out of a buffer.
* `datalogger_full`, `datalogger_part`: two of these cases are against what
  `datalogger.h` says, with a counterexample each.

Three pages of three slots, one of which counts as room, and up to nine data sets, as
many as fill the log with one forgotten on the way: both buffers are used again,
the log is filled, goes round, is reported full too early and too late. The
constraint stops behind a state in which the log was spoiled.
In the program data sets are added by the minute, so a command to the busy chip
is rare; the model allows it. Not modelled: a buffer written while the chip
copies from this very buffer, which needs `Datalogger_Init` and
`Datalogger_AddDataSet` within the 20 ms of a copy.

### ADConverter, TemperatureController (run `controller`)

`ADConverter` is the AD7794 and its driver: mode, channel, excitation current,
ready bit, and what the data register was converted from. Values are not numbers
here; what matters of one is the channel and the current it was measured with.
`TemperatureController` adds the main loop's use of it: `temps`, `tempcal`, `cal`,
the relay, starting and stopping, and `TemperatureControllerTask` with
`ISR(INT3_vect)`, which counts the clock's seconds in `CountsFromRTC`. A
measurement is three steps, `Start` (the registers are written), `Wait` (the ready
bit, or the timeout nobody looks at) and `Read`; `todo` is the list of channels
still to measure. A tick may come between any two steps. `LED(3,1)`, `LED(3,0)`
and `LED(2,.)` around them are in `Panel`, the `Datalogger_Init` of a start is in
`Datalogger`; neither touches the count.

Histories: `since`, the ticks since a sample began; `idle`, the ticks since the
main loop looked at the count; `slow`, that it once was away for two;
`armed` and `missed`, that a controller that was on when the count became PERIOD
saw it pass. The run allows timeouts, a clock as fast as it likes, and every
command at any time:

* `SampleSpacing`: two samples begin at least a period apart. What makes it true
  is the reset of the count *behind* the sample; without it the ticks of a long
  sample shorten the next interval.
* `MissedOnlyIfSlow`: the test is `==`, so a sample can be missed, but only by a
  main loop that was away for a whole second, as it is in `cal`, in a beep, or
  while it waits for a key.
* `SamplesGoOn`: if it never is, a controller that stays on goes on sampling.
* `OwnValues`: after waits that did not time out, the value that is read is the
  channel's own, with the right current on. After a timeout it may be another one's.
* `ExcitationOff`: between measurements no current heats a thermistor.

PERIOD is 3 and a calibration takes 2 readings, instead of 10, and 10 or 5: the
count passes, meets and wraps at the period, and a list of readings has a first,
and a last. The types, `SampleSpacing`, `MissedOnlyIfSlow` and `ExcitationOff` are also
proved, for all values.

*Fairness.* The main program runs, the clock ticks, and a conversion that was
started ends: weak fairness of each. Nobody has to press a key.

Abstracted: the eight calibrations at the start of `cal` are one step without a
conversion to read, the EEPROM is in `HeaterCurrent`, and invalid input in `tempcal`
is any other key.

### LoggerSchedule (run `schedule`)

`Datalogger_Start`, `Datalogger_Process` and `Datalogger_AddDataSetToAverage`. Nothing
in the repository calls the first two yet; they are modelled as `datalogger.h` means
them to be used, `Datalogger_Process` as often as the main loop comes by. `FirstTime`
and `Later` are the computations of the two minutes, in the byte they are done in.
`Datalogger_Start` takes its minute from the stack (the call of `GetTime` is
commented out), `ProcessUnread` is a call that finds the bus failing and the same.
`Datalogger_AddDataSetToAverage` puts a test in place of the measurement: every call
overwrites the average so far and its `DataSetNumber` (`src/Board/Datalogger.c:477`), so
that what is saved is no average of the samples, and no property says that it is.
`Average` is its arithmetic, of which theorems speak.
What is saved is handed to `Datalogger_AddDataSet`, which is part of `Datalogger`.

The histories say what one can rely on: since when the clock was read in every minute
(`looked`), and since then the minutes and samples behind the last sample and data set.

* `OnTime`: whatever was on the stack, the first sample and the first data set come
  within the hour, the following ones within their periods. One minute that is not
  looked at may cost an hour, which is why the histories begin anew there.
* `SamplesPerDataSet`: between two data sets the sampling function is called six times,
  although the two minutes are moved independently of each other and
  need not even be multiples of one another.

The constants are the real ones, with three minutes on the stack: one whose next
multiples are in the hour, one whose next multiple is the next hour, and 255, for
which the sum wraps. That no other matters is proved.

### HeaterCurrent, Clock, PowerCycle (run `power_cycle`)

What has to be there when power comes back. `HeaterCurrent` is the zero of the current
sensor: `CalibrateHeaterCurrent` writes its three bytes to the EEPROM one by one,
`ZeroUsed` is what `ConvertHeaterCurrent` makes of them. `Clock` is the DS3232M on its
battery and its driver: `settime` and `gettime` for hours and minutes in BCD, and
`DS3232M_Init` in the steps of its transactions, with the read-modify-writes of
`DS3232M_DisableAlarm`, where a failing read leaves what the stack held. `gettime` prints
its time whether it could be read or not: `shown` is what it printed, `error` whether
`I2C Error` came in front of it, `trouble` whether the last `settime` said so.
`twiscan` leaves the bus off, and then both always fail. The clock may be found with
what another program left in it, 12-hour mode included, and counts on in the mode it
is in. `PowerCycle` puts both under the main loop, which carries out one
of these operations at a time, and lets power fail inside any of them, minutes pass,
and the battery fail too.

* `ReadsTrue`: what `gettime` prints is the time that was typed, gone on over midnight and
  through losses of power, unless `gettime` itself or the last `settime` printed an error.
  Half a `settime`, a bus that is off and the bytes of the stack never pass for the time
  unannounced.
* `NeverTwelveHour`: whatever is typed, and wherever a transaction breaks off, no step
  puts a clock that is in 24-hour mode into 12-hour mode, for which
  `(RecieveData[2] & 0x40) == 0x04` (`src/Board/ds3232m.c:115`) never tests.
* `ReportedSound`: if the status byte calls the clock good, its control register is what
  `DS3232M_Init` wrote, unless `DisableAlarm` wrote back in this start what it had not
  read; and the oscillator has never stopped, unless a status that could not be read was
  written back and cleared its flag.
* `ZeroKept`: the sensor that reads the zero stored last is read as no current, unless power
  failed while one was being stored, and if that zero is a plain one: its low byte
  is not 0xFF, and its middle byte is below 128. What happens to the others is a theorem.

A byte of 4 values for the zero, with two plain averages; real registers for the clock, a
clock as delivered and one found at 12:59 in the afternoon, times at the ends of an hour, a
ten and a day, one that is nonsense, and two minutes to pass. The proofs are for all of
them.

## Where code and comments disagree

Five runs end in a counterexample against a sentence of the repository: `panel_lost_press`,
`panel_phantom`, `delay_hang`, `datalogger_full`, `datalogger_part`. Their findings are in
`PROJECT.json`. These disagreements need no search, and are stated by theorems or follow
from a single step of the model:

* `rounding (half away from zero)` (`src/Board/Datalogger.c:515`): differences below zero
  may come out one too low. `AverageRounds` says by how much, and `AverageRoundsDown` gives
  two words of the code's own test for which they do.
* `If no calibraion exsists` (`src/Board/Hardware.c:748`): the branch is also taken for a
  calibration whose low byte is 0xFF. And a middle byte from 128 on is multiplied in a
  16-bit int (`src/Board/Hardware.c:754`). `ZeroMisread` is about both.
* `Handle hours in 12 or 24 hour mode` (`src/Board/ds3232m.c:114`): a clock in 12-hour mode
  is read as one in 24-hour mode. `TwelveHourRead`: its afternoon is 21 to 32 o'clock.
* `the oscillator has stopped since last initalization` (`src/Board/ds3232m.c:41`): no code
  clears the flag, so that a clock that stopped once is reported bad at every start from
  then on, however often it has been initialised and set. That is the second half of
  `ReportedSound`.
* `disable square wave output` (`src/Board/ds3232m.c:47`): the 0x00 that is written clears
  INTCN too, and so selects the square wave on that pin, by which the controller counts
  its seconds. The model keeps to what is written.
* `Triggered on a change of button state` (`src/Board/Hardware.c:810`): not any more after
  `twiscan`, see above.

## The proofs

The modules whose names end in `Proofs` hold for every value of the constants, under the
named assumptions of the modules. `PanelProofs`:

* `TypeCorrect`: `TypeOK` is inductive with what it says of `calls`.
* `StoreSafe`: the invariant is `TypeOK` with the property itself: between the
  load and the store only the ISR changes `hio`, and it only adds PEND bits.
* `InterruptAlive` (assumes `ReliableBus`): a read that succeeds sets `latched`
  to `down`, and a move that makes them differ sets the flag. It says nothing of the time
  after `twiscan`.
* `LedsAgree` (assumes nothing): strengthened by what `readReg`, `op`, `reg` and `hio` say of
  `blink0` at each label of `LED`, for each LED that is not astray, since the two copies
  differ while it runs.
* `LostCorrect` (assumes `ReliableBus`; before `twiscan`, like the next one): `LostInv` adds that until an update is raced, the
  copy that `BH_SetStatus` is about to store has the PEND bits of `hio`, and that no press
  that is owed is the one just being taken. It needs `StoreLosesOnlyPresses` and that
  reads of the expander succeed (`ReliableRead`).
* `PhantomCorrect` (assumes `ReliableBus`): `PhantomInv` adds that until moves are mixed at
  most one button is down, that in front of a read by the ISR a button that is down is one
  that went down since the last read, and that no second interrupt is pending
  while one is served.

`SequenceFacts` has the facts about numbers and sequences which the library
does not have: a set of numbers has a least one, and what is flattened piece by piece is
increasing, has the elements of its pieces, and grows at its end when the last
piece does (`FlattenIncreasing`, `FlattenRange`, `FlattenAppend`). `SetInduction`
takes the place of the library's induction, whose operator the provers cannot
instantiate: it speaks of the set of the numbers for which something holds, and follows
from `NatLessThanWellFounded`.

`DataloggerProofs`, for every number of pages and of data sets in a page:

* `TypeCorrect`: `TypeOK`, with the type of the chip. What the scan returns is a minimum
  over pages and slots, which has to be in range (`FirstOrNone`, `HeadersAre`).
* `LogOrderedCorrect` and `NothingHiddenCorrect`: neither is inductive, as both speak of the
  pages only and the next page comes out of a buffer. `LogInv` says three things of a log
  that is not spoiled. `FlashRight`: in every page the data sets come first, in order,
  behind those of the pages in front of it, and there are none behind a page with room.
  `WriterRight`: while logging, the pages in front of the current one are full and those
  behind it empty, and the buffer holds what the page holds and then, up to the next
  slot, newer data sets in order. That is not obvious, as the scan of a restart loads the buffer
  that is not in use, and logging goes on in buffer 1 whichever that was: a
  logger that runs is saved by its own buffer, which holds the page already (`WriterFound`).
  `StoppedRight`: one that has stopped because the device is full finds it full again.
* `KeepsPromise`: `DataloggerLog` implements `RecordLog`. `LogAlways` gives the invariant before
  and after a step, and `RecordStep` maps every action: `AddDataSet` to `Add`, or to
  `AddAndSave` when the page fills (`AddPromised`); `SaveDataToFlash` to `Save` or a stutter
  (`SavePromised`); starts, resets and losses of power to `Forget` or a stutter
  (`ForgetMaps`); reading and the end of a copy to a stutter. The heart of it is `LogAppended`:
  a buffer copied to its page adds to the end of the log just the data sets that the page
  does not have, since the pages behind it are empty.

`DelayTimerProofs`:

* `TypeCorrect`: arithmetic of the two bytes.
* `DelayLengthCorrect`: the invariant `DelayInv` relates the counter, the ticks,
  the target and the branch taken at each label. It is not inductive without the
  distance between the counter and the target.

`BuzzerProofs` rests on the lemmas of `DelayTimerProofs`: a beep takes steps of `DelayTimer`
and of nothing else with its variables.

* `BeepLength`: the delay in a beep has its length, too.
* `BuzzerTypeCorrect`: the timer runs in two of the labels of `Beep`, and no other.
* `QuietCorrect`: the invariant says that an interrupt can only be pending behind the stop
  of the timer if it was so at the stop, or has waited for another one.

`LoggerScheduleProofs`:

* `TypeCorrect`: the minutes are minutes, whatever byte the first ones are computed from.
* `OnTimeCorrect`: the invariant adds the minutes since the last sample to those until the
  next one. The sum is at most the period, or the hour if there was none; it would
  not be inductive without what holds in a minute in which the clock has been read.
* `SamplesCorrect` (assumes that one period divides the other): the same sum is exact for
  data sets, and `SKIP * samples` differs by less than a period from the minutes passed.
  At a data set the difference is a multiple of the period, so it is 0.
* `AverageRounds`: for all values and numbers of samples. The heart of it is
  `HalfOfQuotient`: rounding half of a truncated quotient rounds the quotient.
  `AverageRoundsDown` is a case in which it does not do what the comment says.

`PowerCycleProofs`. Each step of `PowerCycle` is a step of both parts (`StepsOfBoth`):

* `ZeroCorrect`, `ZeroMisread`: `StoredInv` says that bytes not on the list have been
  written. That three bytes make up the number again is `Bytes`, for every size of a byte;
  `ReadBack` is what becomes of it in the sum of `ConvertHeaterCurrent`.
* `TimeCorrect`, `ModeCorrect`: `TimeInv`, the registers are the digits of the time unless
  there was trouble, and digits can be told from their byte (`TimeOf`), so that a
  register of 24-hour mode is none of 12-hour mode.
* `TwelveHourRead`: arithmetic of the register, for all hours of an afternoon.
* `SoundCorrect`: `SoundInv` follows the flag and the control register through the labels
  of `DS3232M_Init`, each as long as nothing unread was written to it.
* `TypeCorrect`: from these and the flags.

`TemperatureControllerProofs`:

* `TypeCorrect`: with the facts that the lists of channels are sequences and not
  empty.
* `SpacingCorrect`: the invariant `SpacingInv` says that between samples the
  count is not ahead of `since`; a sample begins when the count is PERIOD.
* `MissedCorrect`: `MissedInv` says that a count of PERIOD that an armed
  controller has not answered came with a tick the main loop has not seen, so
  that the next one is the second.
* `ExcitationCorrect`: `CurrentInv` says that a current is on only between
  `Start` and `Read`, and is that of the channel being measured.
* `OwnCorrect`: `OwnInv` says that wherever the main loop waits or reads, the chip is set
  up for the channel that is due, also in continuous mode, where the list names one
  channel only.

Every safety invariant and every action property of the passing runs is a theorem.
Only model-checked are the liveness properties (they rest on fairness and ENABLED, which the
prover does not handle), and the runs with a counterexample.

## Not modelled

* Of the clock, the date, the alarms and the temperature: nothing sets an alarm or asks for
  the temperature, and the date goes the way of the minutes.
* The raw register commands `adread` and `adwrite`, and `mem 1 1`, which leaves the data flash
  selected on the bus of the AD converter: tools to try the hardware with, which
  promise nothing.
* The ID, power-down and sector commands of the data flash: nothing that is stored depends on
  them.
* Which way the floating-point conversions round.

Left out for good: the floating-point equation of the thermistor, USB descriptors
and LUFA, formatted output, the command interpreter and the boot loader jump of
the submodule `common`.
