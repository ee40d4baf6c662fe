----------------------------- MODULE AudioPath -----------------------------
(***************************************************************************)
(* The scheduler of audio paths (audio_path.c).  Every stream, tone,       *)
(* prompt or signal of the earphone is a path, with a category.  A path is *)
(* IDLE, PENDING (its user has started it), READY (its drivers are being   *)
(* brought up), RUNNING, SUSPENDING (taken down to make room) or STOPPING. *)
(* Paths are brought up one at a time, the one with priority first, when   *)
(* its category mixes with those that run; those that give way to it are   *)
(* suspended.                                                              *)
(*                                                                         *)
(* Everything runs in one task: an action here is one message handler with *)
(* all the calls and callbacks nested in it.  The codec, the DSP, the ANC  *)
(* engine and the task's message queue are modelled by what they answer.   *)
(* The user of a path is the session above it, as audio_passthrough.c,     *)
(* vad.c and audio_track.c have it; its callbacks call back into the       *)
(* scheduler.                                                              *)
(***************************************************************************)
EXTENDS Naturals, FiniteSets, SequencesExt, FiniteSetsExt

CONSTANTS
  Paths,      \* the handles audio_path_create may return
  Categories, \* the categories this instance explores, among AllCategories
  NoPath

\* AUDIO_CATEGORY_*; a path for voice activity detection in hardware, which
\* has no DSP session, is a category of its own here.
AllCategories == {"AUDIO", "VOICE", "RECORD", "LINE", "TONE", "VP", "APT", "LLAPT",
                  "ANC", "VAD", "HWVAD", "KWS", "PIPE"}

ASSUME CategoriesAssumption == Categories \subseteq AllCategories
ASSUME NoPathAssumption == NoPath \notin Paths

VARIABLE a

vars == <<a>>

-----------------------------------------------------------------------------
(* Tables                                                                  *)

\* The categories a running path of category c does not mix with: the
\* complement of mix_strategy_map.
Excludes(c) ==
  CASE c = "AUDIO"  -> {"KWS"}
    [] c = "VOICE"  -> {"RECORD", "KWS"}
    [] c = "RECORD" -> {"VOICE", "KWS"}
    [] c = "LINE"   -> {"LINE", "APT", "KWS"}
    [] c \in {"TONE", "VP"}   -> {"TONE", "VP", "KWS"}
    [] c = "APT"    -> {"LINE", "APT", "LLAPT", "KWS"}
    [] c = "LLAPT"  -> {"APT", "LLAPT", "ANC", "KWS"}
    [] c = "ANC"    -> {"LLAPT", "ANC", "KWS"}
    [] c \in {"VAD", "HWVAD"} -> {"APT", "LLAPT", "ANC", "VAD", "HWVAD"}
    [] c = "KWS"    -> {"APT", "LLAPT"}
    [] c = "PIPE"   -> {"KWS"}

\* priority_strategy_map: the categories a path of category c gives way to.
YieldsTo(c) ==
  CASE c = "AUDIO"  -> {"VOICE", "TONE", "VP", "ANC", "LLAPT"}
    [] c = "VOICE"  -> {"TONE", "VP"}
    [] c = "RECORD" -> {"VOICE"}
    [] c = "LINE"   -> {"VOICE", "TONE", "VP"}
    [] c = "APT"    -> {"AUDIO", "VOICE", "TONE", "VP"}
    [] c \in {"VAD", "HWVAD"} -> {"VOICE", "RECORD", "LINE", "TONE", "VP", "APT", "LLAPT", "ANC"}
    [] OTHER        -> {}

\* audio_path_domain_mask_get, without the gateway and the VAD, whose flags
\* the scheduler masks out: what must be up before the path runs.  The
\* devices of the path are those of the earphone, speaker and microphone.
Domains(c) ==
  CASE c \in {"ANC", "LLAPT", "HWVAD"} -> {"codec", "plugin"}
    [] c = "KWS"  -> {"dsp", "plugin"}
    [] c = "PIPE" -> {"dsp"}
    [] OTHER      -> {"codec", "dsp", "plugin"}

IsAnc(c) == c \in {"ANC", "LLAPT"}
IsNotification(c) == c \in {"TONE", "VP"}

\* What a user keeps one handle for in its database: a path that exists
\* keeps out those of its class.  Tracks and the like have any number.
Class(c) == CASE IsNotification(c) -> {"TONE", "VP"}
              [] c \in {"VAD", "HWVAD"} -> {"VAD", "HWVAD"}
              [] c \in {"APT", "LLAPT", "ANC"} -> {c}
              [] OTHER -> {}

-----------------------------------------------------------------------------
(* State: the record a holds the list of paths with a record for each, the *)
(* flag PATH_STARTING with the stops that wait for it to clear, the paths  *)
(* that wait for the ANC engine, the task's queue of plugin messages and   *)
(* the power of the DSP.  missed is a history variable, see Stop.          *)

Absent == [cat |-> "none", state |-> "IDLE", codec |-> "off", dsp |-> "off",
           plugin |-> FALSE, waitCodec |-> FALSE, waitRunning |-> FALSE,
           user |-> "none", action |-> "none"]

Init == a = [list |-> <<>>, path |-> [p \in Paths |-> Absent], starting |-> FALSE,
             stops |-> <<>>, ancEnabling |-> NoPath, ancDisabling |-> NoPath,
             msgs |-> <<>>, power |-> "off", missed |-> FALSE]

Set(b, p, field, value) == [b EXCEPT !.path[p] = [@ EXCEPT ![field] = value]]
Cat(b, p) == b.path[p].cat
InState(b, state) == {p \in Paths : b.path[p].cat # "none" /\ b.path[p].state = state}

\* audio_plugin_occasion_occur with no plugin registered for the occasion.
Occasion(b, p, occasion) == [b EXCEPT !.msgs = Append(@, [path |-> p, occasion |-> occasion])]

\* The flags of the path's event group, and whether its wait to run is over.
Up(x) == (IF x.codec \in {"on", "disabling"} THEN {"codec"} ELSE {})
         \cup (IF x.dsp \in {"on", "disabling"} THEN {"dsp"} ELSE {})
         \cup (IF x.plugin THEN {"plugin"} ELSE {})
MayRun(x) == x.waitRunning /\ Domains(x.cat) \subseteq Up(x)

\* dsp_mgr_session_enable and _disable queue an activity; one that finds its
\* session in another state is never finished, and blocks the queue.  (A
\* disabling that follows an enabling too soon would only wait for it; it
\* counts as stuck here, and DspNeverStuck says that there is none.)
DspEnabled(dsp)  == IF dsp = "off" THEN "loading" ELSE "stuck"
DspDisabled(dsp) == IF dsp = "on" THEN "disabling" ELSE "stuck"
-----------------------------------------------------------------------------
(* Scheduling                                                              *)

audio_path_starting_check(b) == InState(b, "READY") # {}

\* Mutant: only the first running path of the list is asked.
MixableWithFirst(b, p) ==
  LET running == SelectSeq(b.list, LAMBDA q : b.path[q].state = "RUNNING")
  IN running = <<>> \/ Cat(b, p) \notin Excludes(Cat(b, Head(running)))

\* Mutant: the paths being brought up are asked, not those that run.
MixableWithReady(b, p) ==
  \A q \in InState(b, "READY") : Cat(b, p) \notin Excludes(Cat(b, q))

audio_path_is_mixable(b, p) ==
  \A q \in InState(b, "RUNNING") : Cat(b, p) \notin Excludes(Cat(b, q))

audio_path_schedule_priority(b, first, second) ==
  IF Cat(b, second) \in YieldsTo(Cat(b, first)) THEN second ELSE first

\* The pending path whose turn it is, NoPath when there is none.
audio_path_schedule_switch(b) ==
  LET select[n \in 0..Len(b.list)] ==
        IF n = 0 THEN NoPath
        ELSE IF b.path[b.list[n]].state # "PENDING" THEN select[n - 1]
        ELSE IF select[n - 1] = NoPath THEN b.list[n]
        ELSE audio_path_schedule_priority(b, select[n - 1], b.list[n])
  IN select[Len(b.list)]

\* Mutant: paths that are being taken down are not waited for.
StableWhenNoneReady(b) == InState(b, "READY") = {}

audio_path_is_stable(b) ==
  InState(b, "READY") \cup InState(b, "STOPPING") \cup InState(b, "SUSPENDING") = {}

\* The running paths audio_path_suspend takes down for p.
Yielding(b, p) == {q \in InState(b, "RUNNING") :
                      ~IsAnc(Cat(b, q)) /\ audio_path_schedule_priority(b, q, p) = p}

\* AUDIO_PATH_EVT_SUSPEND: audio_track pauses; the other users ignore it.
ToldSuspend(x) ==
  IF x.cat \in {"AUDIO", "VOICE", "RECORD"} /\ x.user = "started"
  THEN [x EXCEPT !.user = "paused"] ELSE x

Suspended(x) ==
  ToldSuspend([x EXCEPT !.state = "SUSPENDING",
                        !.dsp = IF "dsp" \in Domains(x.cat) THEN DspDisabled(@) ELSE @])

audio_path_suspend(b, p) ==
  [b EXCEPT !.path = [q \in Paths |-> IF q \in Yielding(b, p) THEN Suspended(b.path[q])
                                     ELSE b.path[q]]]

\* audio_path_schedule from where a path is made READY.
BroughtUp(b, p) ==
  LET x == b.path[p]
      ready == [x EXCEPT !.state = "READY", !.waitRunning = TRUE,
                         !.codec = IF "codec" \in Domains(x.cat) THEN "enabling" ELSE @,
                         !.dsp = IF "dsp" \in Domains(x.cat) THEN DspEnabled(@) ELSE @]
  IN [b EXCEPT !.starting = TRUE, !.path[p] = ready]

audio_path_schedule(b) ==
  LET p == audio_path_schedule_switch(b)
      c == [b EXCEPT !.missed = FALSE]
  IN IF p = NoPath \/ ~audio_path_is_stable(b) THEN b
     ELSE IF "dsp" \in Domains(Cat(b, p)) /\ b.power # "on"
     THEN [c EXCEPT !.power = IF @ = "off" THEN "booting" ELSE @]
     ELSE IF audio_path_is_mixable(b, p) THEN BroughtUp(c, p)
     ELSE audio_path_suspend(c, p)

-----------------------------------------------------------------------------
(* Starting, stopping and destroying                                       *)

audio_path_start(b, p) ==
  IF b.path[p].state = "IDLE"
  THEN audio_path_schedule(Set(b, p, "state", "PENDING")) ELSE b

\* Mutant: the path is freed without being taken off the list.
DestroyedInList(b, p) == [b EXCEPT !.path[p] = Absent]

audio_path_destroy(b, p) ==
  LET i == CHOOSE k \in DOMAIN b.list : b.list[k] = p
  IN [b EXCEPT !.list = RemoveAt(@, i), !.path[p] = Absent]

\* AUDIO_PATH_EVT_IDLE: the user takes its session for stopped, then does
\* what it was asked meanwhile.  A notification gives its path back.
ToldIdle(b, p) ==
  LET x == b.path[p]
  IN IF IsNotification(x.cat) \/ x.action = "release" THEN audio_path_destroy(b, p)
     ELSE IF x.action = "start"
     THEN audio_path_start([b EXCEPT !.path[p] =
                              [@ EXCEPT !.user = "starting", !.action = "none"]], p)
     ELSE Set(b, p, "user", "stopped")

\* audio_path_stop of a running path: what takes its drivers down.
TakenDown(b, p) ==
  CASE IsAnc(Cat(b, p)) -> IF b.ancDisabling = NoPath THEN [b EXCEPT !.ancDisabling = p] ELSE b
    [] Cat(b, p) = "HWVAD" -> Occasion(b, p, "DIGITAL_OFF")
    [] OTHER -> Set(b, p, "dsp", DspDisabled(b.path[p].dsp))

\* Mutant: a path that is being suspended is taken down once more.
StopTakesDownAgain(b, p) ==
  LET state == b.path[p].state
  IN IF state = "IDLE" THEN ToldIdle(b, p)
     ELSE IF audio_path_starting_check(b) THEN [b EXCEPT !.stops = Append(@, p)]
     ELSE CASE state = "PENDING" ->
                 ToldIdle([Set(b, p, "state", "IDLE") EXCEPT !.missed = TRUE], p)
            [] OTHER -> TakenDown(Set(b, p, "state", "STOPPING"), p)

\* Mutant: the stop of a path that is being suspended is not noted.
StopForgetsSuspending(b, p) ==
  LET state == b.path[p].state
  IN IF state = "IDLE" THEN ToldIdle(b, p)
     ELSE IF audio_path_starting_check(b) THEN [b EXCEPT !.stops = Append(@, p)]
     ELSE CASE state = "PENDING" ->
                 ToldIdle([Set(b, p, "state", "IDLE") EXCEPT !.missed = TRUE], p)
            [] state = "RUNNING" -> TakenDown(Set(b, p, "state", "STOPPING"), p)
            [] OTHER -> b

\* A pending path that is stopped makes room for those behind it, but
\* nothing schedules them: missed remembers this.
audio_path_stop(b, p) ==
  LET state == b.path[p].state
  IN IF state = "IDLE" THEN ToldIdle(b, p)
     ELSE IF audio_path_starting_check(b) THEN [b EXCEPT !.stops = Append(@, p)]
     ELSE CASE state = "PENDING" ->
                 ToldIdle([Set(b, p, "state", "IDLE") EXCEPT !.missed = TRUE], p)
            [] state = "SUSPENDING" -> Set(b, p, "state", "STOPPING")
            [] state = "RUNNING" -> TakenDown(Set(b, p, "state", "STOPPING"), p)
            [] OTHER -> b

-----------------------------------------------------------------------------
(* Running                                                                 *)

\* The user calls audio_path_stop, and takes its session for stopping.
UserStops(b, p) == audio_path_stop(Set(b, p, "user", "stopping"), p)

\* AUDIO_PATH_EVT_RUNNING: a session that was starting or paused has
\* started, and is stopped at once if that was asked meanwhile.
ToldRunning(b, p) ==
  LET x == b.path[p]
  IN CASE x.user = "starting" /\ x.action = "stop" -> UserStops(Set(b, p, "action", "none"), p)
       [] x.user = "starting" /\ x.action = "release" -> UserStops(b, p)
       [] x.user \in {"starting", "paused"} /\ x.action = "none" -> Set(b, p, "user", "started")
       [] OTHER -> b

\* sys_event_flag_post that clears PATH_STARTING: the stops that waited are
\* made again in turn, until one of their callbacks brings up a path.
StopsPosted(b) ==
  LET after[n \in 0..Len(b.stops)] ==
        IF n = 0 THEN [b EXCEPT !.starting = FALSE, !.stops = <<>>]
        ELSE LET c == after[n - 1]
                 p == b.stops[n]
             IN IF c.starting THEN [c EXCEPT !.stops = Append(@, p)] ELSE audio_path_stop(c, p)
  IN after[Len(b.stops)]

\* Mutant: the flag PATH_STARTING is cleared only when no stop waits for it.
RunningKeepsFlag(b, p) ==
  LET c == ToldRunning(Set(b, p, "state", "RUNNING"), p)
  IN IF audio_path_starting_check(c) \/ c.stops # <<>> THEN c ELSE StopsPosted(c)

\* audio_path_state_set to RUNNING.
Running(b, p) ==
  LET c == ToldRunning(Set(b, p, "state", "RUNNING"), p)
  IN IF audio_path_starting_check(c) THEN c ELSE StopsPosted(c)

audio_path_wait_running_handler(b, p) ==
  IF IsAnc(Cat(b, p))
  THEN IF b.ancEnabling = NoPath THEN [b EXCEPT !.ancEnabling = p] ELSE b
  ELSE audio_path_schedule(Running(b, p))

\* sys_event_flag_post that sets a flag of the path's group.
FlagPosted(b, p) ==
  IF MayRun(b.path[p])
  THEN audio_path_wait_running_handler(Set(b, p, "waitRunning", FALSE), p) ELSE b

-----------------------------------------------------------------------------
(* Users                                                                   *)

Create(p) ==
  \E c \in Categories :
    /\ Cat(a, p) = "none"
    /\ \A q \in Paths : Cat(a, q) \notin Class(c)
    /\ a' = [a EXCEPT !.list = Append(@, p),
                      !.path[p] = [Absent EXCEPT !.cat = c, !.user = "stopped"]]

\* A start while the session is stopping is kept for later; while it is
\* starting it takes back a stop that was kept.  One of a paused track
\* leaves its path as it is, to run again when there is room.
Start(p) ==
  LET x == a.path[p]
  IN \/ /\ x.user \in {"stopped", "paused"}
        /\ a' = audio_path_start(Set(a, p, "user", "starting"), p)
     \/ /\ x.user = "stopping" /\ x.action = "none"
        /\ ~IsNotification(x.cat)
        /\ a' = Set(a, p, "action", "start")
     \/ /\ x.user = "starting" /\ x.action = "stop"
        /\ a' = Set(a, p, "action", "none")

\* A stop while the session is starting is kept for later, by all users but
\* the notifications, which stop their path whatever its state.
Stop(p) ==
  LET x == a.path[p]
  IN \/ /\ \/ x.user \in {"started", "paused"}
           \/ x.user = "starting" /\ IsNotification(x.cat)
        /\ a' = UserStops(a, p)
     \/ /\ x.user = "starting" /\ x.action = "none"
        /\ ~IsNotification(x.cat)
        /\ a' = Set(a, p, "action", "stop")
     \/ /\ x.user = "stopping" /\ x.action = "start"
        /\ a' = Set(a, p, "action", "none")

\* A session is released when it has stopped.
Release(p) ==
  LET x == a.path[p]
  IN /\ x.cat # "none" /\ ~IsNotification(x.cat)
     /\ x.action # "release"
     /\ \/ /\ x.user = "stopped"
           /\ a' = audio_path_destroy(a, p)
        \/ /\ x.user \in {"started", "paused"}
           /\ a' = UserStops(Set(a, p, "action", "release"), p)
        \/ /\ x.user \in {"starting", "stopping"}
           /\ a' = Set(a, p, "action", "release")

-----------------------------------------------------------------------------
(* The DSP manager                                                         *)

\* DSP_MGR_EVT_PREPARE_READY: the bridge between codec and DSP is opened
\* when both are there; a pipe has no codec to wait for.
PrepareReady(p) ==
  /\ a.path[p].dsp = "loading"
  /\ LET b == Set(a, p, "dsp", "prepared")
     IN a' = IF "codec" \in Domains(Cat(a, p)) /\ "codec" \notin Up(a.path[p])
             THEN Set(b, p, "waitCodec", TRUE) ELSE Occasion(b, p, "ANALOG_ON")

\* DSP_MGR_EVT_SESSION_STARTED.
SessionStarted(p) ==
  /\ a.path[p].dsp = "creating"
  /\ a' = Occasion(FlagPosted(Set(a, p, "dsp", "on"), p), p, "DIGITAL_ON")

\* DSP_MGR_EVT_SESSION_STOPPED.
SessionStopped(p) ==
  /\ a.path[p].dsp = "disabling"
  /\ a' = Occasion(Set(a, p, "dsp", "off"), p, "DIGITAL_OFF")

DspPoweredOn ==
  /\ a.power = "booting"
  /\ a' = audio_path_schedule([a EXCEPT !.power = "on"])

\* The DSP is powered down only when all its sessions are disabled.
DspPowersDown ==
  /\ a.power = "on"
  /\ \A p \in Paths : a.path[p].dsp = "off"
  /\ a' = [a EXCEPT !.power = "closing"]

DspPoweredOff ==
  /\ a.power = "closing"
  /\ a' = audio_path_schedule([a EXCEPT !.power = "off"])

-----------------------------------------------------------------------------
(* The codec manager and the ANC engine                                    *)

CodecEnabled(p) ==
  /\ a.path[p].codec = "enabling"
  /\ LET b == Set(a, p, "codec", "on")
     IN a' = IF a.path[p].waitCodec
             THEN Occasion(Set(b, p, "waitCodec", FALSE), p, "ANALOG_ON")
             ELSE IF "dsp" \notin Domains(Cat(a, p)) THEN Occasion(b, p, "ANALOG_ON")
             ELSE b

CodecDisabled(p) ==
  /\ a.path[p].codec = "disabling"
  /\ a' = Occasion(Set(a, p, "codec", "off"), p, "ANALOG_OFF")

AncEnabled(p) ==
  /\ a.ancEnabling = p
  /\ a' = audio_path_schedule(Running([a EXCEPT !.ancEnabling = NoPath], p))

AncDisabled(p) ==
  /\ a.ancDisabling = p
  /\ a' = Occasion([a EXCEPT !.ancDisabling = NoPath], p, "DIGITAL_OFF")

-----------------------------------------------------------------------------
(* audio_path_plugin_msg_handle                                            *)

Received == [a EXCEPT !.msgs = Tail(@)]

IsMsg(p, occasion) == a.msgs # <<>> /\ Head(a.msgs) = [path |-> p, occasion |-> occasion]

AnalogOn(p) ==
  /\ IsMsg(p, "ANALOG_ON")
  /\ a' = IF "dsp" \in Domains(Cat(a, p))
          THEN Set(Received, p, "dsp", IF a.path[p].dsp = "prepared" THEN "creating" ELSE "stuck")
          ELSE Occasion(Received, p, "DIGITAL_ON")

DigitalOn(p) ==
  /\ IsMsg(p, "DIGITAL_ON")
  /\ a' = FlagPosted(Set(Received, p, "plugin", TRUE), p)

\* Mutant: the path goes on without waiting for its codec to be off.
DigitalOffAtOnce(p) ==
  /\ IsMsg(p, "DIGITAL_OFF")
  /\ LET b == Set(Received, p, "plugin", FALSE)
         c == IF "codec" \in Domains(Cat(a, p)) THEN Set(b, p, "codec", "disabling") ELSE b
     IN a' = IF a.path[p].state \notin {"SUSPENDING", "STOPPING"} THEN b
             ELSE Occasion(c, p, "ANALOG_OFF")

DigitalOff(p) ==
  /\ IsMsg(p, "DIGITAL_OFF")
  /\ LET b == Set(Received, p, "plugin", FALSE)
     IN a' = IF a.path[p].state \notin {"SUSPENDING", "STOPPING"} THEN b
             ELSE IF "codec" \in Domains(Cat(a, p)) THEN Set(b, p, "codec", "disabling")
             ELSE Occasion(b, p, "ANALOG_OFF")

\* Mutant: no path is scheduled in the place of one that has stopped.
AnalogOffNoSchedule(p) ==
  /\ IsMsg(p, "ANALOG_OFF")
  /\ a' = CASE a.path[p].state = "STOPPING" -> ToldIdle(Set(Received, p, "state", "IDLE"), p)
            [] a.path[p].state = "SUSPENDING" -> Set(Received, p, "state", "PENDING")
            [] OTHER -> Received

AnalogOff(p) ==
  /\ IsMsg(p, "ANALOG_OFF")
  /\ a' = audio_path_schedule(
            CASE a.path[p].state = "STOPPING" -> ToldIdle(Set(Received, p, "state", "IDLE"), p)
              [] a.path[p].state = "SUSPENDING" -> Set(Received, p, "state", "PENDING")
              [] OTHER -> Received)

-----------------------------------------------------------------------------
Driver(p) == \/ PrepareReady(p) \/ SessionStarted(p) \/ SessionStopped(p)
             \/ CodecEnabled(p) \/ CodecDisabled(p)
             \/ AncEnabled(p) \/ AncDisabled(p)

audio_path_msg_handler ==
  \E p \in Paths : AnalogOn(p) \/ DigitalOn(p) \/ DigitalOff(p) \/ AnalogOff(p)

Next == \/ \E p \in Paths : Create(p) \/ Start(p) \/ Stop(p) \/ Release(p) \/ Driver(p)
        \/ audio_path_msg_handler
        \/ DspPoweredOn \/ DspPowersDown \/ DspPoweredOff

\* The drivers answer and the task handles its messages; users do as they
\* please.
Fairness == /\ \A p \in Paths : WF_vars(Driver(p))
            /\ WF_vars(audio_path_msg_handler)
            /\ WF_vars(DspPoweredOn) /\ WF_vars(DspPoweredOff)

Spec == Init /\ [][Next]_vars
FairSpec == Spec /\ Fairness

-----------------------------------------------------------------------------
(* Properties                                                              *)

PathRecord ==
  [cat : Categories \cup {"none"},
   state : {"IDLE", "PENDING", "READY", "RUNNING", "SUSPENDING", "STOPPING"},
   codec : {"off", "enabling", "on", "disabling"},
   dsp : {"off", "loading", "prepared", "creating", "on", "disabling", "stuck"},
   plugin : BOOLEAN, waitCodec : BOOLEAN, waitRunning : BOOLEAN,
   user : {"none", "stopped", "starting", "started", "paused", "stopping"},
   action : {"none", "start", "stop", "release"}]

\* The state is well formed; the list holds the paths that exist, once each.
TypeOK ==
  /\ a.path \in [Paths -> PathRecord]
  /\ a.starting \in BOOLEAN /\ a.missed \in BOOLEAN
  /\ {a.ancEnabling, a.ancDisabling} \subseteq Paths \cup {NoPath}
  /\ a.power \in {"off", "booting", "on", "closing"}
  /\ a.list \in Seq(Paths) /\ IsInjective(a.list)
  /\ ToSet(a.list) = {p \in Paths : a.path[p].cat # "none"}
  /\ a.stops \in Seq(Paths)
  /\ a.msgs \in Seq([path : Paths, occasion : {"ANALOG_ON", "ANALOG_OFF",
                                                "DIGITAL_ON", "DIGITAL_OFF"}])

\* Two paths that hold drivers at the same time mix, at least in the order
\* in which one of them was started: an excluded pair never sounds at once.
Active == {p \in Paths : a.path[p].state \in {"READY", "RUNNING", "SUSPENDING", "STOPPING"}}
NoClash ==
  \A p, q \in Active :
    p # q => \/ Cat(a, p) \notin Excludes(Cat(a, q))
             \/ Cat(a, q) \notin Excludes(Cat(a, p))

\* One path is brought up at a time, and none while another is taken down:
\* the codec and the DSP never work on two requests that cross.
OneTransition ==
  /\ Cardinality(InState(a, "READY")) <= 1
  /\ audio_path_starting_check(a) =>
       InState(a, "STOPPING") \cup InState(a, "SUSPENDING") = {}

\* PATH_STARTING is set exactly while a path is brought up, and a stop waits
\* for it only then, for a path that still exists: no stop is lost, and none
\* reaches a path that has been destroyed.
StopsWaitForStart ==
  /\ a.starting <=> audio_path_starting_check(a)
  /\ a.stops # <<>> => a.starting
  /\ \A i \in DOMAIN a.stops : a.path[a.stops[i]].user = "stopping"

\* An idle or pending path holds no driver and no flag, nothing waits for
\* it and no message of it is under way: it can be started or destroyed.
AtRestHoldsNothing ==
  \A p \in Paths :
    a.path[p].state \in {"IDLE", "PENDING"} =>
      /\ a.path[p].codec = "off" /\ a.path[p].dsp = "off"
      /\ ~a.path[p].plugin /\ ~a.path[p].waitCodec /\ ~a.path[p].waitRunning
      /\ p \notin {a.ancEnabling, a.ancDisabling}
      /\ \A i \in DOMAIN a.msgs : a.msgs[i].path # p

\* Every request to the DSP finds its session in the state it is made for;
\* one that does not blocks the queue of activities for every path.
DspNeverStuck == \A p \in Paths : a.path[p].dsp # "stuck"

\* A pending path waits for something that will call the scheduler: a path
\* in transition, the power of the DSP, or a running path that excludes the
\* first in turn and does not yield to it.  The exception is the stop of a
\* pending path, after which the scheduler is not called.
NoStall ==
  InState(a, "PENDING") # {} /\ Active = InState(a, "RUNNING") =>
    LET p == audio_path_schedule_switch(a)
    IN \/ a.missed
       \/ "dsp" \in Domains(Cat(a, p)) /\ a.power \in {"booting", "closing"}
       \/ ~audio_path_is_mixable(a, p) /\ Yielding(a, p) = {}

\* Once its user stops it a path becomes idle, is destroyed or starts again.
StopEnds == \A p \in Paths : a.path[p].user = "stopping" ~> a.path[p].user # "stopping"

\* Handles are interchangeable.
Handles == Permutations(Paths)
=============================================================================
