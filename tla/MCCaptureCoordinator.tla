-------------------------- MODULE MCCaptureCoordinator -------------------------
(***************************************************************************)
(* Every kind of notification and every wish, each as often as the bounds of *)
(* the configuration allow.                                                  *)
(***************************************************************************)
EXTENDS CaptureCoordinator

EveryNotice == {"sleep", "lock", "clock"}
EveryWish == {"preference", "retry"}

(* Not everything at once: three notifications together with a wish, or with a *)
(* fault, or two with both. *)
Budget == spent.notices + spent.wishes + spent.faults <= 4
=============================================================================
