---------------------------- MODULE PanelPresses ----------------------------
(***************************************************************************)
(* The fate of a press.  Panel with history variables that follow every    *)
(* press from the button to HandleButtonPress: the firmware never reads    *)
(* them, and each action is an action of Panel that also writes them down. *)
(* What is said of presses is said until the first twiscan: behind it the  *)
(* ISR takes whatever the stack holds for the buttons.                     *)
(***************************************************************************)
EXTENDS Panel

VARIABLES
    fresh,   \* buttons that went down since the ISR last read the inputs
    owed,    \* presses the ISR saw and HandleButtonPress has not taken yet
    raced,   \* the ISR ran inside a read-modify-write of BH_HIOStatus
    mixed    \* a button moved with another one down, or before the ISR had
             \* seen the last move

history == <<fresh, owed, raced, mixed>>
allVars == <<vars, history>>

HInit ==
    /\ Init
    /\ fresh = down
    /\ owed = {}
    /\ raced = FALSE
    /\ mixed = (Cardinality(down) > 1)

(* HandleButtonPress decides which press it takes when it reads the byte;  *)
(* from then until its store the bit is on its way out.                    *)
HMainLoop ==
    /\ MainLoop
    /\ owed' = IF pc = "top" /\ pc' = "load" THEN owed \ {op'.n} ELSE owed
    /\ UNCHANGED <<fresh, raced, mixed>>

InUpdate == pc = "store" \/ (pc = "load" /\ op.field = "pend")

HINT2_read ==
    /\ INT2_read
    /\ owed' = owed \union (fresh \intersect down)
    /\ fresh' = {}
    /\ raced' = (raced \/ InUpdate)
    /\ UNCHANGED mixed

HToggle(b) ==
    /\ Toggle(b)
    /\ fresh' = fresh \union (down' \ down)
    /\ mixed' = (mixed \/ int2 \/ isr \/ Cardinality(down') > 1)
    /\ UNCHANGED <<owed, raced>>

HNext ==
    \/ HMainLoop
    \/ INT2_vect /\ UNCHANGED history
    \/ HINT2_read
    \/ \E b \in Buttons : HToggle(b)

HSpec == HInit /\ [][HNext]_allVars

-----------------------------------------------------------------------------
(* The press HandleButtonPress is taking.                                  *)
Taking == IF pc \in {"load", "store"} /\ op.field = "pend" THEN {op.n} ELSE {}

(* A press the ISR saw stays recorded until HandleButtonPress takes it:    *)
(* what the comment on BH_STATUS_HIO_B1_PEND says of the bit.              *)
NoLostPress == twi = "on" => owed \subseteq hio.pend

(* Without an interrupt inside the read-modify-write of BH_SetStatus, or   *)
(* between the read of HandleButtonPress and that update, no press is lost *)
(* although the ISR and the main loop write the same byte.                 *)
LostOnlyByRace == ~raced => NoLostPress

(* A bit PEND means a press, a button that went down, not one that was     *)
(* down already when something else moved.  The comparison with B1_OLD and *)
(* B2_OLD is there to tell these apart, but nothing writes those bits.     *)
NoPhantomPress == twi = "on" => hio.pend \subseteq owed \union Taking

(* One button at a time, each released before the next is touched and      *)
(* without a bounce, gives no press that was not made.                     *)
PhantomOnlyIfMixed == ~mixed => NoPhantomPress
=============================================================================
