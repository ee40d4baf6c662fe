------------------------------ MODULE BtPmOps ------------------------------
(***************************************************************************)
(* The sniff-mode power manager of one ACL link, as operators on the       *)
(* fields of T_BT_LINK it uses (src/src/framework/btm/bt_pm.c).  An        *)
(* operator named after a C function takes the link and returns the set of *)
(* links the call may leave: there is more than one where gap_br_* may     *)
(* refuse the command.  The operators only read and write the fields named *)
(* in PmFields, so a module may carry more fields in the same record.      *)
(*                                                                         *)
(*   pm_state, pm_action, pm_enable  as in T_BT_LINK                       *)
(*   policy       bit GAP_LINK_POLICY_SNIFF_MODE of acl_link_policy        *)
(*   listed       timer_sniff is in sys_timer_db.lp_timer_list             *)
(*   running      the OS timer behind timer_sniff is counting              *)
(*   posted       expiry messages of timer_sniff still in the sys_timer    *)
(*                message queue                                            *)
(*   cmds         sniff commands given to the controller, not executed yet *)
(*   unexpected   history: a branch was taken that the code marks with     *)
(*                "This case will not happen in reality"                   *)
(*   refused      history: "never", or GAP has refused a call or the       *)
(*                controller failed a command it could have executed;      *)
(*                "now" if GAP refused a call of the handler that called   *)
(*                the power manager last                                   *)
(***************************************************************************)
EXTENDS Naturals, Sequences

CONSTANTS
    GapMayReject    \* TRUE: gap_br_enter/exit_sniff_mode may return an error

ASSUME GapMayRejectAssumption == GapMayReject \in BOOLEAN

PmState  == {"ACTIVE", "SNIFF_PENDING", "SNIFF", "ACTIVE_PENDING"}
PmAction == {"IDLE", "SNIFF_ENTER", "SNIFF_EXIT"}
Commands == {"enter", "exit"}
Refusals == {"never", "before", "now"}

PmFields == {"pm_state", "pm_action", "pm_enable", "policy", "listed",
             "running", "posted", "cmds", "unexpected", "refused"}

-----------------------------------------------------------------------------
(* timer_sniff, a one-shot low precision timer.  A stopped timer whose     *)
(* expiry message is still queued keeps posted: the message finds the      *)
(* timer again if it has been started meanwhile.                           *)

sys_timer_start(s) == [s EXCEPT !.listed = TRUE, !.running = TRUE]

sys_timer_stop(s) == [s EXCEPT !.listed = FALSE, !.running = FALSE]

-----------------------------------------------------------------------------
(* The two commands of the GAP library: refused, or handed to the          *)
(* controller with the link put in the transient state.                    *)

Refused(s) == IF GapMayReject THEN {[s EXCEPT !.refused = "now"]} ELSE {}

\* The link as a handler finds it that is about to call the power manager.
Turn(s) == [s EXCEPT !.refused = IF @ = "now" THEN "before" ELSE @]

\* Mutant: the transient state is set before the result is known.
IssueStateFirst(s, cmd, pending) ==
    LET t == [s EXCEPT !.pm_state = pending]
    IN  Refused(t) \cup {[t EXCEPT !.cmds = Append(@, cmd)]}

Issue(s, cmd, pending) ==
    Refused(s) \cup {[s EXCEPT !.pm_state = pending, !.cmds = Append(@, cmd)]}

\* The branches that the comments of bt_sniff_mode_enter and
\* bt_sniff_mode_exit mark with "This case will not happen in reality".
Marked(s) ==
    \/ s.pm_state \in {"ACTIVE", "SNIFF"} /\ s.pm_action # "IDLE"
    \/ s.pm_state = "SNIFF_PENDING"  /\ s.pm_action = "SNIFF_ENTER"
    \/ s.pm_state = "ACTIVE_PENDING" /\ s.pm_action = "SNIFF_EXIT"

Noted(s, action) ==
    [s EXCEPT !.pm_action = action, !.unexpected = @ \/ Marked(s)]

bt_sniff_mode_enter(s) ==
    CASE s.pm_state = "ACTIVE" -> Issue(Noted(s, "IDLE"), "enter", "SNIFF_PENDING")
      [] s.pm_state \in {"SNIFF_PENDING", "SNIFF"} -> {Noted(s, "IDLE")}
      [] s.pm_state = "ACTIVE_PENDING" -> {Noted(s, "SNIFF_ENTER")}

bt_sniff_mode_exit(s, refresh) ==
    CASE s.pm_state = "ACTIVE" ->
           {IF refresh THEN sys_timer_start(Noted(s, "IDLE")) ELSE Noted(s, "IDLE")}
      [] s.pm_state = "SNIFF_PENDING" -> {Noted(s, "SNIFF_EXIT")}
      [] s.pm_state = "SNIFF" -> Issue(Noted(s, "IDLE"), "exit", "ACTIVE_PENDING")
      [] s.pm_state = "ACTIVE_PENDING" -> {Noted(s, "IDLE")}

\* What the two functions return: TRUE when the mode asked for is reached.
EnterDone(s) == s.pm_state = "SNIFF"
ExitDone(s)  == s.pm_state = "ACTIVE"

\* bt_link_policy_set with the sniff bit as given.
SetPolicy(s, sniff) ==
    Refused(s) \cup {[s EXCEPT !.policy = sniff]}

-----------------------------------------------------------------------------
(* bt_pm_sm.  The four controller events run the subscribers of            *)
(* pm_cback_list in the middle: Begin is the code before the loop over     *)
(* pm_cback_list, End the code after it.  A failure event is ignored       *)
(* unless the link is in the transient state it answers.                   *)

PmEvents == {"conn_sniff", "enter_fail", "conn_active", "exit_fail"}

\* Mutant: late failures are not told from awaited ones.
PmIgnoresNothing(s, ev) == FALSE

PmIgnores(s, ev) ==
    \/ ev = "enter_fail" /\ s.pm_state # "SNIFF_PENDING"
    \/ ev = "exit_fail"  /\ s.pm_state # "ACTIVE_PENDING"

SniffEnterSuccessBegin(s) == {[sys_timer_stop(s) EXCEPT !.pm_state = "SNIFF"]}

\* Mutant: pm_enable is not looked at.
SniffEnterSuccessEndStays(s) ==
    IF s.pm_action = "SNIFF_EXIT"
    THEN bt_sniff_mode_exit([s EXCEPT !.pm_action = "IDLE"], FALSE)
    ELSE {[s EXCEPT !.pm_action = "IDLE"]}

SniffEnterSuccessEnd(s) ==
    IF s.pm_enable = FALSE \/ s.pm_action = "SNIFF_EXIT"
    THEN bt_sniff_mode_exit([s EXCEPT !.pm_action = "IDLE"], FALSE)
    ELSE {[s EXCEPT !.pm_action = "IDLE"]}

SniffEnterFailBegin(s) == {[sys_timer_start(s) EXCEPT !.pm_state = "ACTIVE"]}

\* Mutant: pm_action is still set when the mode change is asked for.
EnterIfPendingLate(s) ==
    IF s.pm_action = "SNIFF_ENTER"
    THEN {[t EXCEPT !.pm_action = "IDLE"] : t \in bt_sniff_mode_enter(s)}
    ELSE {[s EXCEPT !.pm_action = "IDLE"]}

\* Mutant: a request to turn back that has come true is not cleared.
EnterIfPendingKeepsExit(s) ==
    IF s.pm_action = "SNIFF_ENTER"
    THEN bt_sniff_mode_enter([s EXCEPT !.pm_action = "IDLE"])
    ELSE {s}

EnterIfPending(s) ==
    IF s.pm_action = "SNIFF_ENTER"
    THEN bt_sniff_mode_enter([s EXCEPT !.pm_action = "IDLE"])
    ELSE {[s EXCEPT !.pm_action = "IDLE"]}

SniffEnterFailEnd(s) == EnterIfPending(s)

\* Mutant: the idle timer is not started when the link is active again.
SniffExitSuccessBeginNoTimer(s) ==
    {[t EXCEPT !.pm_state = "ACTIVE"] :
        t \in IF s.pm_enable THEN {s} ELSE SetPolicy(s, FALSE)}

SniffExitSuccessBegin(s) ==
    {[sys_timer_start(t) EXCEPT !.pm_state = "ACTIVE"] :
        t \in IF s.pm_enable THEN {s} ELSE SetPolicy(s, FALSE)}

SniffExitSuccessEnd(s) == EnterIfPending(s)

SniffExitFailBegin(s) == {[sys_timer_stop(s) EXCEPT !.pm_state = "SNIFF"]}

SniffExitFailEnd(s) ==
    IF s.pm_action = "SNIFF_EXIT"
    THEN bt_sniff_mode_exit([s EXCEPT !.pm_action = "IDLE"], FALSE)
    ELSE {[s EXCEPT !.pm_action = "IDLE"]}

PmBegin(s, ev) ==
    CASE ev = "conn_sniff"  -> SniffEnterSuccessBegin(s)
      [] ev = "enter_fail"  -> SniffEnterFailBegin(s)
      [] ev = "conn_active" -> SniffExitSuccessBegin(s)
      [] ev = "exit_fail"   -> SniffExitFailBegin(s)

PmEnd(s, ev) ==
    CASE ev = "conn_sniff"  -> SniffEnterSuccessEnd(s)
      [] ev = "enter_fail"  -> SniffEnterFailEnd(s)
      [] ev = "conn_active" -> SniffExitSuccessEnd(s)
      [] ev = "exit_fail"   -> SniffExitFailEnd(s)

\* BT_PM_EVENT_LINK_CONNECTED
LinkConnected(s) == sys_timer_start([s EXCEPT !.pm_state = "ACTIVE"])

\* BT_PM_EVENT_SNIFF_ENTER_REQ: vetoed is the answer of the subscribers.
SniffEnterReq(s, vetoed) ==
    LET stopped == sys_timer_stop(s)
    IN  IF vetoed THEN {sys_timer_start(stopped)}
        ELSE IF EnterDone(stopped) THEN bt_sniff_mode_enter(stopped)
        ELSE {sys_timer_start(t) : t \in bt_sniff_mode_enter(stopped)}

\* BT_PM_EVENT_SNIFF_EXIT_REQ: no subscriber of pm_cback_list refuses it.
SniffExitReq(s) == bt_sniff_mode_exit(s, FALSE)

-----------------------------------------------------------------------------
(* The two calls of the application.  A call of bt_sniff_mode_enable that  *)
(* gives new sniff parameters leaves sniff mode for them to be negotiated. *)

bt_sniff_mode_enable(s, newParams) ==
    LET enabled == IF s.pm_enable THEN {s}
                   ELSE SetPolicy([s EXCEPT !.pm_enable = TRUE], TRUE)
    IN  IF newParams THEN UNION {SniffExitReq(t) : t \in enabled} ELSE enabled

bt_sniff_mode_disable(s) ==
    IF s.pm_enable = FALSE THEN {s}
    ELSE LET t == [s EXCEPT !.pm_enable = FALSE]
         IN  IF t.pm_state = "ACTIVE" THEN SetPolicy(t, FALSE)
             ELSE SniffExitReq(t)
=============================================================================
