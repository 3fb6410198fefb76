---------------------- MODULE MCBootstrapStateMachine ----------------------
(* Instances of BootstrapStateMachine: the model values of its threads. *)
EXTENDS BootstrapStateMachine

CONSTANTS kernel, callback, supervisor, none

Kernel == {kernel}
Callback == {callback}
Supervisor == {supervisor}
=============================================================================
