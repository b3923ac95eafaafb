------------------------------- MODULE El133 --------------------------------
(***************************************************************************)
(* The EL133UF1 panel and its driver (display_el133uf1.c), as the display  *)
(* worker calls it (write_stream_to_display in eink_display.c): blank,     *)
(* stream one half into each of the two controllers, unblank, which        *)
(* refreshes: PON to each, DRF to both, POF to each, with a wait for BUSY  *)
(* after every command.  Each wait has a timeout and every transfer may    *)
(* fail; the first error ends the call.                                    *)
(*                                                                         *)
(* The glass is bistable: it keeps its image without power.                *)
(***************************************************************************)
EXTENDS Naturals, Sequences

CONSTANTS Frames,  \* the frames that may be shown
          None,    \* no frame
          Torn     \* parts of different frames

ASSUME FramesOK == None \notin Frames /\ Torn \notin Frames /\ None # Torn

VARIABLES
    power,     \* the panel's supply is up
    ram,       \* ram[h]: what DTM has loaded into controller h
    hv,        \* the controllers PON has powered on
    wave,      \* what a running waveform draws, or None
    glass,     \* what the panel shows
    driver,    \* el133_init: ready, no_glass (BUSY timed out) or failed
    dirty,     \* data->dirty
    blanking,  \* data->blanking_on
    pc,        \* where the display worker is
    k,         \* the half it streams, or the command of the refresh it sends
    frame,     \* the frame it streams
    ret        \* its result

panel == <<power, ram, hv, wave, glass>>
worker == <<pc, k, frame, ret>>
El133Vars == <<panel, driver, dirty, blanking, worker>>

Halves == {1, 2}

El133TypeOK ==
    /\ power \in BOOLEAN
    /\ ram \in [Halves -> Frames \union {None, Torn}]
    /\ hv \subseteq Halves
    /\ wave \in Frames \union {None, Torn} /\ glass \in Frames \union {None, Torn}
    /\ driver \in {"ready", "no_glass", "failed"}
    /\ dirty \in BOOLEAN /\ blanking \in BOOLEAN
    /\ pc \in {"idle", "open", "blank", "half", "unblank", "send", "busy", "publish"}
    /\ k \in 1..5
    /\ frame \in Frames \union {None}
    /\ ret \in {"ok", "error"}

\* refresh().
Refresh == <<[cmd |-> "PON", cs |-> {1}], [cmd |-> "PON", cs |-> {2}],
             [cmd |-> "DRF", cs |-> {1, 2}],
             [cmd |-> "POF", cs |-> {1}], [cmd |-> "POF", cs |-> {2}]>>

Loaded == IF ram[1] = ram[2] THEN ram[1] ELSE Torn

Goto(label, index) == pc' = label /\ k' = index /\ UNCHANGED frame
-----------------------------------------------------------------------------
BlankingOn ==
    /\ pc = "blank" /\ driver # "failed"
    /\ blanking' = TRUE
    /\ Goto("half", 1)
    /\ UNCHANGED <<panel, driver, dirty, ret>>

\* write_stream_to_display: display not ready.
NotReady ==
    /\ pc = "blank" /\ driver = "failed"
    /\ ret' = "error"
    /\ Goto("publish", k)
    /\ UNCHANGED <<panel, driver, dirty, blanking>>

\* stream_half and the tail of el133uf1_stream_write, which refreshes by itself only
\* when it was called without blanking.  An unpowered controller takes nothing.
StreamHalf ==
    /\ pc = "half"
    /\ ram' = [ram EXCEPT ![k] = IF power THEN frame ELSE @]
    /\ IF k = 1 THEN Goto("half", 2) ELSE Goto(IF blanking THEN "unblank" ELSE "send", 1)
    /\ dirty' = (dirty \/ k = 2)
    /\ UNCHANGED <<power, hv, wave, glass, driver, blanking, ret>>

\* Mutant: a failed stream unblanks too.
StreamFailsUnblanking ==
    /\ pc = "half"
    /\ ram' \in {ram, [ram EXCEPT ![k] = IF power THEN Torn ELSE @]}
    /\ Goto("unblank", 1)
    /\ UNCHANGED <<power, hv, wave, glass, driver, dirty, blanking, ret>>

\* The file or the SPI transfer fails: the worker returns without unblanking.
StreamFails ==
    /\ pc = "half"
    /\ ram' \in {ram, [ram EXCEPT ![k] = IF power THEN Torn ELSE @]}
    /\ ret' = "error"
    /\ Goto("publish", k)
    /\ UNCHANGED <<power, hv, wave, glass, driver, dirty, blanking>>

\* display_blanking_off.
Unblank ==
    /\ pc = "unblank"
    /\ IF dirty THEN Goto("send", 1) /\ UNCHANGED <<blanking, ret>>
                ELSE Goto("publish", 1) /\ blanking' = FALSE /\ ret' = "ok"
    /\ UNCHANGED <<panel, driver, dirty>>

RefreshReturns(result) ==
    /\ ret' = result
    /\ dirty' = (dirty /\ result # "ok")
    /\ blanking' = FALSE
    /\ Goto("publish", k)
    /\ UNCHANGED driver

\* Mutant: off by one.
NextCommandPastEnd == IF k > Len(Refresh) THEN 0 ELSE k + 1

\* Mutant: the refresh ends without POF.
NextCommandNoPof == IF k >= 3 THEN 0 ELSE k + 1

\* The command after the one that BUSY has just acknowledged; 0 after the last.
NextCommand == IF k = Len(Refresh) THEN 0 ELSE k + 1

\* xfer_cmd; what the command starts in a powered controller.
Send ==
    /\ pc = "send"
    /\ LET c == Refresh[k]
       IN  /\ hv' = IF ~power THEN hv
                    ELSE IF c.cmd = "PON" THEN hv \union c.cs
                    ELSE IF c.cmd = "POF" THEN hv \ c.cs ELSE hv
           /\ wave' = IF power /\ c.cmd = "DRF" THEN Loaded ELSE wave
    /\ Goto("busy", k)
    /\ UNCHANGED <<power, ram, glass, driver, dirty, blanking, ret>>

SendFails == pc = "send" /\ RefreshReturns("error") /\ UNCHANGED panel

\* wait_ready: BUSY goes high when the controllers are done, with the waveform too.
BusyHigh ==
    /\ pc = "busy" /\ power
    /\ wave' = None /\ glass' = IF wave = None THEN glass ELSE wave
    /\ IF NextCommand = 0 THEN RefreshReturns("ok")
       ELSE Goto("send", NextCommand) /\ UNCHANGED <<driver, dirty, blanking, ret>>
    /\ UNCHANGED <<power, ram, hv>>

\* Mutant: a timeout counts as ready.
BusyIgnored ==
    /\ pc = "busy"
    /\ IF NextCommand = 0 THEN RefreshReturns("ok")
       ELSE Goto("send", NextCommand) /\ UNCHANGED <<driver, dirty, blanking, ret>>
    /\ UNCHANGED panel

\* Mutant: the wait starts again instead of giving up.
BusyForever == pc = "busy" /\ UNCHANGED El133Vars

\* 30 s, or 60 s for DRF, have passed.
BusyTimesOut == pc = "busy" /\ RefreshReturns("error") /\ UNCHANGED panel

WriteStream == \/ BlankingOn \/ NotReady \/ StreamHalf \/ StreamFails \/ Unblank
               \/ Send \/ SendFails \/ BusyHigh \/ BusyTimesOut
-----------------------------------------------------------------------------
\* A waveform that the controllers have started goes on without the processor.
WaveEnds ==
    /\ wave # None
    /\ wave' = None /\ glass' = wave
    /\ UNCHANGED <<power, ram, hv, driver, dirty, blanking, worker>>

\* A panel that is reset or loses its supply forgets all but what the glass shows; an
\* interrupted waveform leaves parts of two frames.
PanelResets ==
    /\ ram' = [h \in Halves |-> None] /\ hv' = {}
    /\ wave' = None /\ glass' = IF wave = None THEN glass ELSE Torn
=============================================================================
