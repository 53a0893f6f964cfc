------------------------------ MODULE SafeUpdate ------------------------------
(***************************************************************************)
(* What over-the-air updates promise to somebody who only sees what the    *)
(* board would boot and what it keeps beside it: an image runs on trial    *)
(* until it is confirmed; a confirmed one gives way to nothing but a new   *)
(* one, installed whole; and only an image on trial is ever left for what  *)
(* stands beside it, which may be nothing.                                 *)
(***************************************************************************)
CONSTANT Images

VARIABLES
  current,    \* what the board boots: {[image, state]}, or {} when it cannot
  other       \* what the other bank holds, or {} when that is no whole image

Contents == {{c} : c \in [image : Images, state : {"TRIAL", "CONFIRMED"}]}
OnTrial(content) == \E i \in Images : content = {[image |-> i, state |-> "TRIAL"]}

Init == current \in Contents /\ other \in Contents \union {{}}

Swap == current' = other /\ other' = current

\* An update clears what stands beside and brings a new image there.
Receive == /\ current # {} /\ UNCHANGED current
           /\ other' = {} \/ OnTrial(other')

Install == current # {} /\ OnTrial(other) /\ Swap

Confirm == \E i \in Images :
             /\ current = {[image |-> i, state |-> "TRIAL"]}
             /\ current' = {[image |-> i, state |-> "CONFIRMED"]} /\ UNCHANGED other

GoBack == OnTrial(current) /\ Swap

Next == Receive \/ Install \/ Confirm \/ GoBack

Spec == Init /\ [][Next]_<<current, other>>
=============================================================================
