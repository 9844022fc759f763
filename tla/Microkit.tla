------------------------------- MODULE Microkit -------------------------------
(***************************************************************************)
(* What the program relies on from seL4 and the Microkit (external code,   *)
(* read from how systems/light.system and the domains use it).             *)
(*                                                                         *)
(* Every protection domain (PD) is one thread with a fixed priority on one *)
(* core.  Its event loop waits for a notification, receives a word with    *)
(* one bit per channel, and calls notified() once per set bit, lowest      *)
(* channel first.  A signal to a PD that is waiting is delivered at once:  *)
(* the PD is ready and its word holds that channel alone.  A signal to any *)
(* other PD sets a bit in its notification object, where signals on one    *)
(* channel coalesce until the PD waits again.  A signal carries no data.   *)
(***************************************************************************)
EXTENDS Integers

VARIABLE thread
  (* thread[p].pc    "blocked" waiting for a notification, "ready" in the  *)
  (*                 event loop, otherwise a point inside a handler        *)
  (* thread[p].todo  channels received, their notified() call still due    *)
  (* thread[p].badge channels pending in p's notification object           *)

PDs == {"scheduler", "gpio", "commandin", "vehicle_state", "faultmg", "lightctl"}

(* Mutant: the scheduler below commandin. *)
PrioritySchedulerBelow(p) ==
  CASE p = "scheduler"     -> 248
    [] p = "gpio"          -> 252
    [] p = "commandin"     -> 250
    [] p = "vehicle_state" -> 245
    [] p = "faultmg"       -> 210
    [] p = "lightctl"      -> 200

(* light.system, the priority attribute of each protection domain. *)
Priority(p) ==
  CASE p = "scheduler"     -> 253
    [] p = "gpio"          -> 252
    [] p = "commandin"     -> 250
    [] p = "vehicle_state" -> 245
    [] p = "faultmg"       -> 210
    [] p = "lightctl"      -> 200

(* Channel ids as the receiving PD names them (include/light_channels.h). *)
COMMANDIN_UART_IRQ           == 0
SCHEDULER_FROM_COMMANDIN     == 4
FAULTMG_FROM_LIGHTCTL        == 5
GPIO_FROM_FAULTMG            == 8
LIGHTCTL_FROM_SCHEDULER      == 10
FAULTMG_FROM_COMMANDIN       == 12
SCHEDULER_FROM_FAULTMG       == 13
SCHEDULER_FROM_VEHICLE_STATE == 15
VEHICLE_STATE_FROM_COMMANDIN == 18
Channels == 0 .. 63

Blocked == [pc |-> "blocked", todo |-> {}, badge |-> {}]

(* A PD whose wait has just returned these channels.                       *)
Woken(channels) == [pc |-> "ready", todo |-> channels, badge |-> {}]

(* The scheduler of seL4 runs p: every PD of a higher priority waits. *)
Runs(p) == \A q \in PDs : Priority(q) > Priority(p) => thread[q].pc = "blocked"

(* microkit_notify: the receiver after a signal, and the threads after it. *)
Signalled(receiver, channel) ==
  IF receiver.pc = "blocked"
  THEN Woken({channel})
  ELSE [receiver EXCEPT !.badge = @ \cup {channel}]

Signal(threads, p, channel) ==
  [threads EXCEPT ![p] = Signalled(threads[p], channel)]

(* p moves to a point of its code. *)
Goto(p, label) == [thread EXCEPT ![p].pc = label]

(* The event loop, its received word done with, waits for the next one.    *)
Wait(p) ==
  /\ Runs(p)
  /\ thread[p].pc = "ready"
  /\ thread[p].todo = {}
  /\ thread' = [thread EXCEPT ![p] =
                  IF @.badge = {} THEN Blocked ELSE Woken(@.badge)]

(* The event loop calls notified(channel) for the lowest bit still set.    *)
Called(p, channel) ==
  /\ Runs(p)
  /\ thread[p].pc = "ready"
  /\ channel \in thread[p].todo
  /\ \A other \in thread[p].todo : channel <= other

(* The threads once that call is at the label inside notified().           *)
Enter(p, channel, label) ==
  [thread EXCEPT ![p].todo = @ \ {channel}, ![p].pc = label]

(* The threads of PDs whose code has these labels.                         *)
ThreadRecord(labels) == [pc : labels, todo : SUBSET Channels, badge : SUBSET Channels]
===============================================================================
