-------------------------------- MODULE Players --------------------------------
(* What the guards of the Coach Engine have in common: whom they guard.    *)
CONSTANT Player
===============================================================================
