--------------------------- MODULE HeaterCurrent ----------------------------
(***************************************************************************)
(* The zero of the heater's current sensor (Board/Hardware.c):             *)
(* CalibrateHeaterCurrent measures it with the relay off and writes its    *)
(* three bytes to the EEPROM; ConvertHeaterCurrent reads them back for     *)
(* every current it computes.  The EEPROM takes milliseconds for a byte,   *)
(* and power may fail between two of them.                                 *)
(***************************************************************************)
EXTENDS Integers

CONSTANTS
    BYTE,       \* the number of values of a byte, 256 in the program
    Readings    \* what the converter may read from the sensor without current

WORD == BYTE * BYTE

ASSUME HeaterAssumption ==
    /\ BYTE \in Nat \ {0, 1} /\ BYTE % 2 = 0
    /\ Readings \subseteq 0..(BYTE * WORD - 1) /\ Readings # {}

Addresses == 0..2

VARIABLES
    eeprom,    \* NV_CURRENT_ZERO_CAL
    CalValue,  \* the zero that is being stored
    todo,      \* the bytes of it that are still to be written
    zero,      \* history: the zero stored last
    torn       \* history: power failed while the next one was being stored

NONE == -1

heaterVars == <<eeprom, CalValue, todo, zero, torn>>

HeaterInit ==
    /\ eeprom = [i \in Addresses |-> BYTE - 1]     \* erased
    /\ CalValue = 0 /\ todo = {}
    /\ zero = NONE /\ torn = FALSE

-----------------------------------------------------------------------------
(* CalibrateHeaterCurrent: the average of five readings.  That the relay   *)
(* is off meanwhile is part of the module TemperatureController.           *)
Averages ==
    {(f[1] + f[2] + f[3] + f[4] + f[5]) \div 5 : f \in [1..5 -> Readings]}

Measure ==
    /\ todo = {}
    /\ CalValue' \in Averages
    /\ todo' = Addresses
    /\ UNCHANGED <<eeprom, zero, torn>>

(* What a byte of the zero is worth; the high byte comes first.            *)
Weight(i) == IF i = 0 THEN WORD ELSE IF i = 1 THEN BYTE ELSE 1

(* Mutant: the low byte comes first.                                       *)
CalStringReversed(v) == [i \in Addresses |-> (v \div Weight(2 - i)) % BYTE]

CalString(v) == [i \in Addresses |-> (v \div Weight(i)) % BYTE]

(* eeprom_update_block writes the bytes one by one, in an order of its own. *)
StoreByte(i) ==
    /\ i \in todo
    /\ eeprom' = [eeprom EXCEPT ![i] = CalString(CalValue)[i]]
    /\ todo' = todo \ {i}
    /\ IF todo' = {} THEN zero' = CalValue /\ torn' = FALSE /\ CalValue' = 0
                     ELSE UNCHANGED <<zero, torn, CalValue>>

-----------------------------------------------------------------------------
(* ConvertHeaterCurrent.                                                   *)

(* The product of the middle byte is a 16-bit int with a sign.             *)
Signed(x) == IF x >= WORD \div 2 THEN x - WORD ELSE x

(* Whether there is a calibration is told by one byte, looked at three     *)
(* times, so that many a real zero is taken for none; without one the zero *)
(* is the middle of the range.                                             *)
ZeroUsed ==
    IF eeprom[2] = BYTE - 1 THEN (BYTE \div 2) * WORD
    ELSE eeprom[2] + Signed(eeprom[1] * BYTE) + eeprom[0] * WORD

CountsFromZero(counts) == counts - ZeroUsed

-----------------------------------------------------------------------------
(* Power fails, and perhaps a zero is stored in part.                      *)
HeaterPowerFail ==
    /\ CalValue' = 0 /\ todo' = {}
    /\ torn' = (torn \/ todo # {})
    /\ UNCHANGED <<eeprom, zero>>

HeaterNext ==
    \/ Measure
    \/ \E i \in Addresses : StoreByte(i)

HeaterTypeOK ==
    /\ eeprom \in [Addresses -> 0..(BYTE - 1)]
    /\ CalValue \in 0..(BYTE * WORD - 1)
    /\ todo \subseteq Addresses
    /\ zero \in 0..(BYTE * WORD - 1) \union {NONE} /\ torn \in BOOLEAN

(* The zeros that come back as they were: the low byte is not that of an   *)
(* erased EEPROM, and the highest bit of the middle byte is not set.       *)
Plain(z) == z % BYTE # BYTE - 1 /\ (z \div BYTE) % BYTE < BYTE \div 2

(* Without current, a current is computed to be none: a sensor that reads  *)
(* the zero measured last, if that is a plain one, is read as no current,  *)
(* however often power has failed since, unless it failed while another    *)
(* zero was being stored.  Without a calibration that holds of the middle  *)
(* of the range.                                                           *)
ZeroKept ==
    (todo = {} /\ ~torn) =>
        /\ zero = NONE => CountsFromZero((BYTE \div 2) * WORD) = 0
        /\ zero # NONE /\ Plain(zero) => CountsFromZero(zero) = 0
=============================================================================
