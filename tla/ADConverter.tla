---------------------------- MODULE ADConverter -----------------------------
(***************************************************************************)
(* The AD7794 as Board/ad7794.c and the Get... functions of                *)
(* Board/Hardware.c drive it: a configuration and a mode are written, the  *)
(* status is polled until a conversion is ready, and the data register is  *)
(* read.  Of a value only what was measured matters: the channel and the   *)
(* current that was switched on.                                           *)
(***************************************************************************)
EXTENDS Naturals, Sequences

CONSTANT Timeouts   \* may 50000 polls pass without a conversion?

ASSUME ADConverterAssumption == Timeouts \in BOOLEAN

Thermistors == {"red", "black"}
Channels    == Thermistors \union {"voltage", "internal", "current"}
Currents    == Thermistors \union {"off"}
Value       == [channel : Channels, io : Currents]

VARIABLES
    adMode,      \* the mode register
    adChannel,   \* the channel in the configuration register
    adIO,        \* the excitation current
    adData,      \* what the data register was converted from
    adReady,     \* the ready bit: a conversion nobody has read
    late         \* history: a wait for the running conversion timed out

adVars == <<adMode, adChannel, adIO, adData, adReady, late>>

(* AD7794Init leaves the chip idle, with channel 2 configured.             *)
ADInit ==
    /\ adMode = "idle"
    /\ adChannel = "red"
    /\ adIO = "off"
    /\ adData = [channel |-> "red", io |-> "off"]
    /\ adReady = FALSE
    /\ late = FALSE

(* The registers GetRedTemp and the like write before they wait.  Writing  *)
(* the mode starts a conversion and takes back the ready bit; only the     *)
(* functions of the thermistors write the current.                         *)
StartConversion(c, mode) ==
    /\ adChannel' = c
    /\ adMode' = mode
    /\ adIO' = IF c \in Thermistors THEN c ELSE adIO
    /\ adReady' = FALSE
    /\ late' = FALSE
    /\ UNCHANGED adData

(* Mutant: the status is read once.                                        *)
WaitOnce == UNCHANGED adVars

(* AD7794WaitReady; its callers ignore the 0xFF of a timeout.              *)
WaitReady ==
    /\ \/ adReady /\ UNCHANGED late
       \/ ~adReady /\ Timeouts /\ late' = TRUE
    /\ UNCHANGED <<adMode, adChannel, adIO, adData, adReady>>

(* Mutant: only the current of the first thermistor is switched off again. *)
IOAfterRed(c) == IF c = "red" THEN "off" ELSE adIO

IOAfter(c) == IF c \in Thermistors THEN "off" ELSE adIO

(* AD7794GetData and what follows it in the function of the channel.  The  *)
(* data register is read, ready or not.                                    *)
ReadData(c) ==
    /\ adReady' = FALSE
    /\ adIO' = IOAfter(c)
    /\ UNCHANGED <<adMode, adChannel, adData, late>>

(* The calibrations of the command `cal' end with channel 6 and no data.   *)
SelfCalibrate ==
    /\ adMode' = "idle"
    /\ adChannel' = "voltage"
    /\ adReady' = FALSE
    /\ UNCHANGED <<adIO, adData, late>>

(* The chip ends a conversion; a single one leaves it idle.                *)
Convert ==
    /\ adMode # "idle"
    /\ adData' = [channel |-> adChannel, io |-> adIO]
    /\ adReady' = TRUE
    /\ adMode' = IF adMode = "single" THEN "idle" ELSE adMode
    /\ UNCHANGED <<adChannel, adIO, late>>

ADTypeOK ==
    /\ adMode \in {"idle", "single", "continuous"}
    /\ adChannel \in Channels
    /\ adIO \in Currents
    /\ adData \in Value
    /\ adReady \in BOOLEAN
    /\ late \in BOOLEAN
=============================================================================
