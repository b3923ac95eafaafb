----------------------------- MODULE PanelPower -----------------------------
(***************************************************************************)
(* A refresh and the power-off beside it: the display worker paints        *)
(* through El133 what the threads queue (the slot of eink_display.c, as    *)
(* PanelService promises it), while main, more urgent, ends its wake with  *)
(* eink_power_enter_snvs (eink_power.c), at any point of the refresh in a  *)
(* fire-and-forget build.  A board whose rails stay up comes back from     *)
(* there and goes on; else the next alarm boots it.                        *)
(***************************************************************************)
EXTENDS El133

CONSTANTS Builds  \* the builds and boards to consider, see Build

\* fire: CONFIG_APP_EINK_DISPLAY_FIRE_AND_FORGET; gpio: the panel's supply is behind
\* panel-enable-gpios, else it follows the board's; drops: the main rail really goes;
\* fitted: a panel is connected.
Build == [fire : BOOLEAN, gpio : BOOLEAN, drops : BOOLEAN, fitted : BOOLEAN]

ASSUME PowerOK == Builds \subseteq Build

VARIABLES
    build,       \* the build; never changes
    pending,     \* the frame of the pending command, or None
    state,       \* status.state
    mcu,         \* on, off, or stayed: back from enter_snvs with the rails up
    panel_rail,  \* g_status.panel_powered: FALSE once the rail has been cut
    shown        \* history: the frame of the last command that succeeded in this boot

vars == <<build, El133Vars, pending, state, mcu, panel_rail, shown>>

TypeOK ==
    /\ El133TypeOK
    /\ build \in Builds
    /\ pending \in Frames \union {None} /\ shown \in Frames \union {None}
    /\ state \in {"IDLE", "REFRESHING", "ERROR"}
    /\ mcu \in {"on", "off", "stayed"}
    /\ panel_rail \in BOOLEAN

\* The GPIO is configured inactive and nothing in the tree raises it.
Supplied == build.fitted /\ ~build.gpio

Init ==
    /\ build \in Builds
    /\ power = FALSE /\ ram = [h \in Halves |-> None] /\ hv = {}
    /\ wave = None /\ glass = None
    /\ driver = "no_glass" /\ dirty = FALSE /\ blanking = FALSE
    /\ pc = "idle" /\ k = 1 /\ frame = None /\ ret = "ok"
    /\ pending = None /\ state = "IDLE" /\ mcu = "off" /\ panel_rail = TRUE /\ shown = None
-----------------------------------------------------------------------------
\* eink_display_is_busy.
Busy == pending # None \/ state = "REFRESHING"

\* The scheduler on main or the HTTP queue, or the shell, queues a frame.
Queue(f) ==
    /\ mcu # "off" /\ ~Busy
    /\ pending' = f
    /\ UNCHANGED <<El133Vars, build, state, mcu, panel_rail, shown>>

\* eink_work_handler takes the command ...
Take ==
    /\ mcu # "off" /\ pc = "idle" /\ pending # None
    /\ frame' = pending /\ pending' = None
    /\ state' = "REFRESHING"
    /\ pc' = "open"
    /\ UNCHANGED <<panel, driver, dirty, blanking, k, ret, build, mcu, panel_rail, shown>>

\* ... finds and checks its file ...
Open ==
    /\ pc = "open"
    /\ \/ Goto("blank", k) /\ UNCHANGED ret
       \/ Goto("publish", k) /\ ret' = "error"
    /\ UNCHANGED <<panel, driver, dirty, blanking, build, pending, state, mcu, panel_rail, shown>>

Paint == WriteStream /\ UNCHANGED <<build, pending, state, mcu, panel_rail, shown>>

\* ... and announces the result: set_idle.
Publish ==
    /\ pc = "publish"
    /\ state' = IF ret = "ok" THEN "IDLE" ELSE "ERROR"
    /\ shown' = IF ret = "ok" THEN frame ELSE shown
    /\ Goto("idle", k)
    /\ UNCHANGED <<panel, driver, dirty, blanking, ret, build, pending, mcu, panel_rail>>

Worker == Take \/ Open \/ Paint \/ Publish

Waveform == WaveEnds /\ UNCHANGED <<build, pending, state, mcu, panel_rail, shown>>
-----------------------------------------------------------------------------
\* Without the processor its memory is gone; whether the panel's supply, left up, goes
\* with the main rail is the board's.
Stops ==
    /\ pc' = "idle" /\ k' = 1 /\ frame' = None /\ ret' = "ok"
    /\ pending' = None /\ state' = "IDLE" /\ shown' = None
    /\ driver' = "no_glass" /\ dirty' = FALSE /\ blanking' = FALSE
    /\ mcu' = "off"

GoesOn ==
    /\ mcu' = "stayed"
    /\ UNCHANGED <<worker, pending, state, shown, driver, dirty, blanking>>

\* eink_power_enter_snvs, on main: is_busy is sampled once; nothing below blocks.
EnterSnvs ==
    /\ mcu = "on"
    /\ panel_rail' = (build.fire /\ Busy)
    /\ power' \in {power /\ (build.gpio => panel_rail')}
                  \union (IF build.drops THEN {FALSE} ELSE {})
    /\ IF power' THEN UNCHANGED <<ram, hv, wave, glass>> ELSE PanelResets
    /\ IF build.drops THEN Stops ELSE GoesOn
    /\ UNCHANGED build

\* The wake alarm.  el133_init resets the panel; without BUSY in 10 s it leaves the
\* registers alone (what such a panel draws is not modelled), and a failed register
\* write leaves the device not ready.
Boot ==
    /\ mcu = "off"
    /\ mcu' = "on" /\ panel_rail' = TRUE
    /\ power' = Supplied
    /\ PanelResets
    /\ driver' \in IF Supplied THEN {"ready", "no_glass", "failed"} ELSE {"no_glass"}
    /\ UNCHANGED <<dirty, blanking, worker, build, pending, state, shown>>

Next == (\E f \in Frames : Queue(f)) \/ Worker \/ Waveform \/ EnterSnvs \/ Boot

\* The worker is dispatched, and each of its waits ends.
Spec == Init /\ [][Next]_vars /\ WF_vars(Worker)
-----------------------------------------------------------------------------
(* Properties.                                                             *)

\* A waveform that starts draws the frame of the command in progress, whole: never
\* halves of two frames, though a failed stream leaves one half loaded and a failed
\* refresh leaves the driver dirty.
DrawsItsFrame == [][wave' # wave /\ wave' # None => wave' = frame]_vars

\* When the service reports success, that frame is on the glass, and stays there while
\* nothing else is taken.
OkIsOnGlass == state = "IDLE" /\ shown # None => glass = shown

\* Between commands the panel's high voltage is off, unless the last refresh failed.
HighVoltageOff == mcu # "off" /\ pc = "idle" /\ hv # {} => state = "ERROR"

\* Every accepted command ends, well or badly, unless the power goes first.
Settles == pending # None ~> (pending = None /\ state # "REFRESHING") \/ mcu = "off"

\* A refresh in flight goes on while the processor is off.
RefreshOutlivesSleep == [][mcu = "on" /\ mcu' = "off" /\ Busy => wave' # None]_vars
=============================================================================
