------------------------------ MODULE MCCapture ------------------------------
(* Instances of Capture on one piece of equipment: a required item that      *)
(* needs a photo when it fails and an optional item that takes a text.       *)
EXTENDS Capture

CONSTANTS forklift, forks, remarks
==============================================================================
