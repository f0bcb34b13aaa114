-------------------------------- MODULE Flash --------------------------------
(***************************************************************************)
(* web/src/ui/useFlash.ts: a value on screen that lights up for a moment    *)
(* when it changes.  React renders with new props, runs the effect of the   *)
(* render before the next one, and a browser timer ends the flash.          *)
(***************************************************************************)
CONSTANT None   \* undefined: a half-typed input, a reading that failed

VARIABLES
  value,   \* the props of the last render: the value
  reset,   \* and the document or node it is of
  ran,     \* the props the effect last ran with
  last,    \* last.current: the value last noticed, and of what
  on,      \* state.on
  from,    \* state.from: the value before the changes began
  timer    \* the timer that ends the flash is running

own == <<ran, last, on, from, timer>>
Props == [value |-> value, reset |-> reset]

\* The first render takes the value as it is.
Mounted ==
  /\ ran = Props
  /\ last = Props
  /\ on = FALSE
  /\ from = None
  /\ timer = FALSE

Mount ==
  /\ ran' = Props'
  /\ last' = Props'
  /\ on' = FALSE
  /\ from' = None
  /\ timer' = FALSE

Change(before) ==
  /\ on' = (before # value)
  /\ from' = IF before = value THEN from ELSE before
  /\ timer' = TRUE

(***************************************************************************)
(* The effect runs when a prop changed; what it returned last time, which   *)
(* clears the timer, runs first.                                            *)
(***************************************************************************)
Effect ==
  /\ ran # Props
  /\ ran' = Props
  /\ \/ /\ last.reset # reset
        /\ last' = Props
        /\ on' = FALSE
        /\ from' = None
        /\ timer' = FALSE
     \/ /\ last.reset = reset
        /\ value = None \/ value = last.value
        /\ timer' = FALSE
        /\ UNCHANGED <<last, on, from>>
     \/ /\ last.reset = reset
        /\ value # None /\ value # last.value
        /\ last' = Props
        /\ Change(IF on THEN from ELSE last.value)

Expire ==
  /\ timer
  /\ on' = FALSE
  /\ timer' = FALSE
  /\ UNCHANGED <<ran, last, from>>
=============================================================================
