-------------------------------- MODULE BtPm --------------------------------
(***************************************************************************)
(* One BR/EDR link to a phone: its sniff power manager (bt_pm.c), the      *)
(* role switch that waits for it (bt_mgr.c, bt_gap.c) and the controller   *)
(* with the remote device behind it.                                       *)
(*                                                                         *)
(* The host task runs one handler at a time, so an action is one handler.  *)
(* Between two handlers the controller executes a command, the phone       *)
(* changes the mode of the link, or the OS timer expires.                  *)
(*                                                                         *)
(* The bud is the primary of its pair, or alone: on a secondary            *)
(* bt_mgr_handle_acl_msg returns before it looks at an event of a phone    *)
(* link, and a failed command would not reach bt_pm_sm there.              *)
(***************************************************************************)
EXTENDS SniffController

CONSTANTS
    SwitchRequests, \* the roles bt_link_role_switch is asked for (master?)
    Holds,          \* what may hold a role switch back: "sco", "sc"
    MaxInFlight,    \* bound: the phone and the controller keep at most this
                    \* many commands and events between host and controller
    MaxPosted       \* bound: expiry messages in the queue

ASSUME BtPmAssumption ==
    /\ SwitchRequests \subseteq BOOLEAN
    /\ Holds \subseteq {"sco", "sc"}
    /\ MaxInFlight \in Nat
    /\ MaxPosted \in Nat

VARIABLES
    phase,  \* "none": no T_BT_LINK, "setup": GAP_ACL_CONN_SUCCESS was
            \* handled, "ready": GAP_ACL_CONN_READY too
    busy    \* a subscriber forbids sniff mode: a call, a stream, or the
            \* link is not authenticated, as no link is before it is ready

vars == <<phase, link, busy, mode, evq>>

RoleStatus == {"IDLE", "MASTER_PENDING", "MASTER_RUNNING",
               "SLAVE_PENDING", "SLAVE_RUNNING"}
Pending(setMaster) == IF setMaster THEN "MASTER_PENDING" ELSE "SLAVE_PENDING"
Running(setMaster) == IF setMaster THEN "MASTER_RUNNING" ELSE "SLAVE_RUNNING"

\* bt_link_alloc (calloc) and the bt_sniff_mode_config of BT_MSG_ACL_CONN_SUCCESS.
NewLink(stale) ==
    [pm_state |-> "ACTIVE", pm_action |-> "IDLE", pm_enable |-> TRUE,
     policy |-> TRUE, listed |-> FALSE, running |-> FALSE, posted |-> stale,
     cmds |-> <<>>, unexpected |-> FALSE, refused |-> "never",
     role_master |-> FALSE, role_switch_status |-> "IDLE", held |-> {}]

Init ==
    /\ phase = "none"
    /\ link = NewLink(0)
    /\ busy = TRUE
    /\ mode = "active"
    /\ evq = <<>>

InFlight == Len(link.cmds) + Len(evq)

-----------------------------------------------------------------------------
(* Role switch.  A switch asked for while it cannot run is remembered in   *)
(* role_switch_status and tried again by the handlers below.               *)

bt_link_role_switch(s, setMaster) ==
    IF \/ s.role_master = setMaster
       \/ s.role_switch_status \in {"MASTER_RUNNING", "SLAVE_RUNNING"}
    THEN {s}
    ELSE LET p == IF s.role_switch_status = "IDLE"
                  THEN [s EXCEPT !.role_switch_status = Pending(setMaster)]
                  ELSE s
         IN  IF p.held # {} THEN {p}
             ELSE IF ExitDone(p)
                  THEN {[t EXCEPT !.role_switch_status = Running(setMaster)] :
                           t \in bt_sniff_mode_exit(p, FALSE)}
                  ELSE bt_sniff_mode_exit(p, FALSE)

RetryRoleSwitch(s) ==
    CASE s.role_switch_status = "MASTER_PENDING" -> bt_link_role_switch(s, TRUE)
      [] s.role_switch_status = "SLAVE_PENDING"  -> bt_link_role_switch(s, FALSE)
      [] OTHER -> {s}

-----------------------------------------------------------------------------
(* The life of the link.                                                   *)

ConnSuccess ==
    /\ phase = "none"
    /\ phase' = "setup"
    \* The new timer may get the OS handle a queued expiry message names.
    /\ \E stale \in {0, link.posted} : link' = NewLink(stale)
    /\ UNCHANGED <<busy, mode, evq>>

ConnReady ==
    /\ phase = "setup"
    /\ phase' = "ready"
    /\ link' = LinkConnected(link)
    /\ UNCHANGED <<busy, mode, evq>>

\* bt_link_free: the timer is deleted, the messages of it stay queued.
ConnDisconn ==
    /\ phase # "none"
    /\ phase' = "none"
    /\ link' = NewLink(link.posted)
    /\ mode' = "active"
    /\ evq' = <<>>
    /\ busy' = TRUE

-----------------------------------------------------------------------------
(* The events of the controller (bt_handle_acl_status_info, and            *)
(* BT_MSG_ACL_SNIFF_ENTER_FAIL / EXIT_FAIL of bt_mgr).  The subscribers of  *)
(* a phone link (bt_mgr, HFP, A2DP) do nothing on them.                    *)

bt_pm_sm(s, ev) ==
    IF PmIgnores(s, ev) THEN {s}
    ELSE UNION {PmEnd(t, ev) : t \in PmBegin(s, ev)}

AclConnActive(s) == UNION {RetryRoleSwitch(t) : t \in bt_pm_sm(s, "conn_active")}

\* Mutant: GAP_ACL_CONN_SNIFF does not try the role switch again.
AclConnSniffNoRetry(s) == bt_pm_sm(s, "conn_sniff")

AclConnSniff(s) == UNION {RetryRoleSwitch(t) : t \in bt_pm_sm(s, "conn_sniff")}

Handle(s, ev) ==
    CASE ev = "conn_active" -> AclConnActive(s)
      [] ev = "conn_sniff"  -> AclConnSniff(s)
      [] OTHER              -> bt_pm_sm(s, ev)

HandleEvent ==
    /\ evq # <<>>
    /\ link' \in Handle(Turn(link), Head(evq))
    /\ evq' = Tail(evq)
    /\ UNCHANGED <<phase, busy, mode>>

-----------------------------------------------------------------------------
(* The idle timer and the other requests to enter sniff mode.              *)

\* bt_mgr_pm_cback refuses a link that may not sniff, HFP and A2DP one in use.
Vetoed == busy \/ ~link.pm_enable

TimerExpires ==
    /\ link.running
    /\ link.posted < MaxPosted
    /\ link' = [link EXCEPT !.running = FALSE, !.posted = @ + 1]
    /\ UNCHANGED <<phase, busy, mode, evq>>

\* Mutant: the callback runs without an expiry message.
TimeoutUnqueued ==
    /\ LET taken == [Turn(link) EXCEPT !.posted = @ - 1]
       IN  link' \in IF taken.listed THEN SniffEnterReq(taken, Vetoed) ELSE {taken}
    /\ UNCHANGED <<phase, busy, mode, evq>>

\* sys_lp_timer_expire: the callback runs if the timer is in the list.
bt_pm_timeout_cback ==
    /\ link.posted > 0
    /\ LET taken == [Turn(link) EXCEPT !.posted = @ - 1]
       IN  link' \in IF taken.listed THEN SniffEnterReq(taken, Vetoed) ELSE {taken}
    /\ UNCHANGED <<phase, busy, mode, evq>>

\* bt_hid_device.c: the interrupt channel is up.
HidDeviceConnected ==
    /\ phase = "ready"
    /\ link' \in SniffEnterReq(Turn(link), Vetoed)
    /\ UNCHANGED <<phase, busy, mode, evq>>

-----------------------------------------------------------------------------
(* Users of the link.                                                      *)

\* A profile is about to send: bt_sniff_mode_exit(bd_addr, refresh).
Traffic ==
    /\ phase # "none"
    /\ \E refresh \in BOOLEAN : link' \in bt_sniff_mode_exit(Turn(link), refresh)
    /\ UNCHANGED <<phase, busy, mode, evq>>

SniffModeEnable ==
    /\ phase # "none"
    /\ \E newParams \in BOOLEAN : link' \in bt_sniff_mode_enable(Turn(link), newParams)
    /\ UNCHANGED <<phase, busy, mode, evq>>

SniffModeDisable ==
    /\ phase # "none"
    /\ link' \in bt_sniff_mode_disable(Turn(link))
    /\ UNCHANGED <<phase, busy, mode, evq>>

UserBusy ==
    /\ phase = "ready"
    /\ busy' = ~busy
    /\ UNCHANGED <<phase, link, mode, evq>>

RoleSwitch ==
    /\ phase # "none"
    /\ \E setMaster \in SwitchRequests : link' \in bt_link_role_switch(Turn(link), setMaster)
    /\ UNCHANGED <<phase, busy, mode, evq>>

\* GAP_ACL_ROLE_MASTER / SLAVE: our switch is done, or the phone switched.
RoleChanged ==
    /\ phase = "ready"
    /\ SwitchRequests # {}
    /\ link' = [link EXCEPT !.role_master = ~@, !.role_switch_status = "IDLE"]
    /\ UNCHANGED <<phase, busy, mode, evq>>

\* GAP_BR_ROLE_SWITCH_RSP with an error.
RoleSwitchFailed ==
    /\ link.role_switch_status \in {"MASTER_RUNNING", "SLAVE_RUNNING"}
    /\ link' = [link EXCEPT !.role_switch_status = "IDLE"]
    /\ UNCHANGED <<phase, busy, mode, evq>>

\* A SCO connection is set up, or secure connections starts.
HoldBegins ==
    /\ phase = "ready"
    /\ \E h \in Holds : link' = [link EXCEPT !.held = @ \cup {h}]
    /\ UNCHANGED <<phase, busy, mode, evq>>

\* bt_handle_sco_disconnect, GAP_ACL_CONN_BR_SC_CMPL.
HoldEnds ==
    /\ \E h \in link.held : link' \in RetryRoleSwitch([Turn(link) EXCEPT !.held = @ \ {h}])
    /\ UNCHANGED <<phase, busy, mode, evq>>

\* GAP_ACL_CONN_ENCRYPTED
AclConnEncrypted ==
    /\ phase # "none"
    /\ link' \in RetryRoleSwitch(Turn(link))
    /\ UNCHANGED <<phase, busy, mode, evq>>

-----------------------------------------------------------------------------
(* The controller and the phone.                                           *)

Ctrl == (CtrlSucceeds \/ CtrlFails) /\ UNCHANGED <<phase, busy>>

PhoneChangesMode ==
    /\ phase = "ready"
    /\ InFlight < MaxInFlight
    /\ PeerChangesMode
    /\ UNCHANGED <<phase, busy>>

-----------------------------------------------------------------------------
Next ==
    \/ ConnSuccess \/ ConnReady \/ ConnDisconn
    \/ HandleEvent
    \/ TimerExpires \/ bt_pm_timeout_cback \/ HidDeviceConnected
    \/ Traffic \/ SniffModeEnable \/ SniffModeDisable \/ UserBusy
    \/ RoleSwitch \/ RoleChanged \/ RoleSwitchFailed
    \/ HoldBegins \/ HoldEnds \/ AclConnEncrypted
    \/ Ctrl \/ PhoneChangesMode

Spec == Init /\ [][Next]_vars

\* The controller executes the commands it was given and the host task
\* handles the events it is sent.
FairSpec == Spec /\ WF_vars(Ctrl) /\ WF_vars(HandleEvent)
-----------------------------------------------------------------------------
(* Properties.                                                             *)

TypeOK ==
    /\ phase \in {"none", "setup", "ready"}
    /\ link \in [pm_state : PmState, pm_action : PmAction, pm_enable : BOOLEAN,
                 policy : BOOLEAN, listed : BOOLEAN, running : BOOLEAN,
                 posted : Nat, cmds : Seq(Commands), unexpected : BOOLEAN, refused : Refusals,
                 role_master : BOOLEAN, role_switch_status : RoleStatus,
                 held : SUBSET Holds]
    /\ busy \in BOOLEAN
    /\ mode \in {"active", "sniff"}
    /\ evq \in Seq(PmEvents)

\* Between two handlers a request is remembered in pm_action only while the
\* link is on its way to the other mode, and it is the request to turn back:
\* every handler of bt_pm_sm settles pm_action before it returns, whatever
\* order events, timer and requests come in.
PendingActionConsistent == ~Marked(link)

\* On a phone link, whose subscribers only answer requests, no call of
\* bt_sniff_mode_enter or bt_sniff_mode_exit takes one of the branches
\* commented "This case will not happen in reality".
MarkedBranchesUnreached == ~link.unexpected

\* The host never loses track of the mode of the link: with no change of mode
\* left in the event queue pm_state stands for the mode the controller is in,
\* and otherwise the last change queued does.  Failures of overtaken commands
\* and changes the phone makes in between may not break this.
Believed == IF link.pm_state \in {"ACTIVE", "SNIFF_PENDING"} THEN "active" ELSE "sniff"

ModeTracked ==
    /\ (\A i \in DOMAIN evq : ~IsChange(evq[i])) => Believed = mode
    /\ \A i \in DOMAIN evq :
          (IsChange(evq[i]) /\ \A j \in DOMAIN evq : j > i => ~IsChange(evq[j]))
              => evq[i] = ModeEvent(mode)

\* A transient pm_state is left again: the command that will end it, or an
\* event that will, is still on its way.
PendingIsOutstanding ==
    /\ link.pm_state = "SNIFF_PENDING" =>
          \/ \E i \in DOMAIN link.cmds : link.cmds[i] = "enter"
          \/ \E i \in DOMAIN evq : evq[i] \in {"enter_fail", "conn_sniff"}
    /\ link.pm_state = "ACTIVE_PENDING" =>
          \/ \E i \in DOMAIN link.cmds : link.cmds[i] = "exit"
          \/ \E i \in DOMAIN evq : evq[i] \in {"exit_fail", "conn_active"}

\* A ready link in active mode always has its idle timer counting, or its
\* expiry message queued: no order of stops, restarts and stale expiry
\* messages leaves an idle link awake for good.
IdleTimerAlive ==
    phase = "ready" /\ link.pm_state = "ACTIVE" =>
        link.listed /\ (link.running \/ link.posted > 0)

\* A role switch that bt_link_role_switch postponed is not forgotten: it is held
\* back by SCO or secure connections, or a command or an event is on its way
\* whose handler may try it again.  Not an invariant: see the next property.
RoleSwitchNotForgotten ==
    link.role_switch_status \in {"MASTER_PENDING", "SLAVE_PENDING"} =>
        link.held # {} \/ InFlight > 0

\* The only handlers that forget one are those of a failed sniff command, and
\* one that GAP refuses a call in and that leaves the link in sniff mode: with
\* no call of theirs refused, sniff-enter and sniff-exit success, the end of SCO
\* and of secure connections all try the switch again, in whatever order they
\* come.
ForgottenOnlyOnFailure ==
    [][RoleSwitchNotForgotten /\ ~RoleSwitchNotForgotten' =>
          \/ evq # <<>> /\ evq' = Tail(evq) /\ Head(evq) \in {"enter_fail", "exit_fail"}
          \/ link'.refused = "now" /\ link'.pm_state = "SNIFF"]_vars

\* A link whose sniff mode stays disabled ends up in active mode for good,
\* even if the phone puts it to sniff while the policy still lets it; only a
\* call or a command that fails may keep it in sniff mode.
DisabledLinkSettles ==
    <>[](phase = "ready" /\ ~link.pm_enable /\ link.refused = "never")
        => <>[](link.pm_state = "ACTIVE")

=============================================================================
