----------------------------- MODULE UsbSwitch -----------------------------
(***************************************************************************)
(* What the cardreader driver promises of the outputs it drives, without   *)
(* interrupts, queue or threads: once it serves, somebody may ask for      *)
(* another setting at any time, the outputs may be anything while a        *)
(* request is due, and when none is due they are those of the last one.    *)
(***************************************************************************)
CONSTANTS
  Wants,    \* what can be asked for
  Outs,     \* what the outputs can be
  For(_)    \* the outputs of each want

VARIABLES
  serving,  \* the outputs are being looked after
  want,     \* what was asked for last
  out,      \* the outputs
  due       \* the outputs may not yet be those of want

vars == <<serving, want, out, due>>

Init == serving = FALSE /\ want \in Wants /\ out \in Outs /\ due = FALSE

(* Nothing is said of the outputs while nobody looks after them.           *)
Idle == /\ ~serving
        /\ want' \in Wants /\ out' \in Outs
        /\ UNCHANGED <<serving, due>>

Start == /\ ~serving /\ serving' = TRUE
         /\ want' \in Wants /\ out' = For(want')
         /\ UNCHANGED due

Ask == /\ serving
       /\ want' \in Wants /\ due' = TRUE
       /\ UNCHANGED <<serving, out>>

Turn == /\ serving /\ due
        /\ out' \in Outs
        /\ UNCHANGED <<serving, want, due>>

Settle == /\ serving /\ due
          /\ out' = For(want) /\ due' = FALSE
          /\ UNCHANGED <<serving, want>>

Stop == /\ serving /\ serving' = FALSE /\ due' = FALSE
        /\ UNCHANGED <<want, out>>

Next == Idle \/ Start \/ Ask \/ Turn \/ Settle \/ Stop

Spec == Init /\ [][Next]_vars

(* A want that stands is met, and stays met.                               *)
Answered == \A w \in Wants : <>[](serving /\ want = w) => <>[](out = For(w))
=============================================================================
