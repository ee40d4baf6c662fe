-------------------------- MODULE SniffController --------------------------
(***************************************************************************)
(* The controller and the remote device behind one link, as the host sees  *)
(* them through the GAP library: a sniff command is executed or fails some *)
(* time after it was given, the remote device changes the mode as it       *)
(* likes, and the events of both reach the host in order.  None of this is *)
(* code of the repository; it is what bt_gap.c and bt_pm.c are written     *)
(* for.                                                                    *)
(***************************************************************************)
EXTENDS BtPmOps

CONSTANTS
    CtrlMayFail     \* TRUE: a sniff command may fail for no reason of ours

ASSUME CtrlMayFailAssumption == CtrlMayFail \in BOOLEAN

VARIABLES
    link,   \* the T_BT_LINK, or a record that holds its fields
    mode,   \* the mode of the link in the controller
    evq     \* events of the controller the host has not handled

Modes == {"active", "sniff"}

\* The link policy the host has set must allow sniff mode.
Allowed(m) == m = "sniff" => link.policy

ModeEvent(m) == IF m = "sniff" THEN "conn_sniff" ELSE "conn_active"

IsChange(ev) == ev \in {"conn_active", "conn_sniff"}

Wanted(cmd) == IF cmd = "enter" THEN "sniff" ELSE "active"

\* A command to the mode the link is in fails, as does one the policy forbids.
Executable ==
    LET m == Wanted(Head(link.cmds)) IN mode # m /\ Allowed(m)

CtrlSucceeds ==
    /\ link.cmds # <<>>
    /\ Executable
    /\ LET m == Wanted(Head(link.cmds))
       IN  /\ mode' = m
           /\ evq' = Append(evq, ModeEvent(m))
    /\ link' = [link EXCEPT !.cmds = Tail(@)]

CtrlFails ==
    /\ link.cmds # <<>>
    /\ CtrlMayFail \/ ~Executable
    /\ evq' = Append(evq, IF Head(link.cmds) = "enter" THEN "enter_fail"
                                                       ELSE "exit_fail")
    /\ link' = [link EXCEPT !.cmds = Tail(@),
                            !.refused = IF Executable /\ @ = "never" THEN "before" ELSE @]
    /\ UNCHANGED mode

PeerChangesMode ==
    /\ \E m \in Modes \ {mode} :
          /\ Allowed(m)
          /\ mode' = m
          /\ evq' = Append(evq, ModeEvent(m))
    /\ UNCHANGED link
=============================================================================
