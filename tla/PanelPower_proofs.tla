------------------------- MODULE PanelPower_proofs --------------------------
(***************************************************************************)
(* Proofs about PanelPower, and El133 in it, for any frames, builds and    *)
(* boards.                                                                 *)
(***************************************************************************)
EXTENDS PanelPower, TLAPS

\* The service is refreshing exactly while the worker has a command, and nothing runs
\* without the processor.
Slot ==
    /\ pc = "idle" <=> state # "REFRESHING"
    /\ pc # "idle" => frame \in Frames
    /\ mcu = "off" => pc = "idle" /\ pending = None /\ shown = None
    /\ build.gpio => ~power

\* What a powered panel has loaded once streaming is over, until the waveform starts.
Streamed ==
    /\ pc = "half" => k \in Halves
    /\ pc = "unblank" => dirty
    /\ power /\ pc = "half" /\ k = 2 => ram[1] = frame
    /\ power /\ (pc = "unblank" \/ (pc \in {"send", "busy"} /\ k <= 3)) =>
           ram[1] = frame /\ ram[2] = frame

\* How far the refresh has come; a command past DRF needs a BUSY that a panel without
\* power does not give.
Drawn ==
    /\ power /\ pc = "busy" /\ k = 3 => wave = frame \/ (wave = None /\ glass = frame)
    /\ (pc \in {"send", "busy"} /\ k >= 4) \/ (pc = "publish" /\ ret = "ok") =>
           power /\ wave = None /\ glass = frame
    /\ (pc = "send" /\ k = 5) \/ (pc = "busy" /\ k = 4) => 1 \notin hv
    /\ (pc = "busy" /\ k = 5) \/ (pc = "publish" /\ ret = "ok") => hv = {}

\* What success leaves behind.
Rest == state = "IDLE" => /\ mcu # "off" => hv = {}
                          /\ shown # None => glass = shown /\ wave = None

IInv == TypeOK /\ Slot /\ Streamed /\ Drawn /\ Rest

USE DEF El133TypeOK, Halves

\* The order of refresh().
LEMMA Commands ==
    /\ Len(Refresh) = 5
    /\ \A i \in 1..5 :
        /\ Refresh[i].cmd = "DRF" <=> i = 3
        /\ Refresh[i].cmd = "POF" <=> i \in {4, 5}
        /\ Refresh[i].cmd = "PON" <=> i \in {1, 2}
        /\ Refresh[i].cs \subseteq Halves
    /\ Refresh[4].cs = {1} /\ Refresh[5].cs = {2}
  BY DEF Refresh

\* A board starts dark and idle.
LEMMA InitIInv == Init => IInv
<1> SUFFICES ASSUME Init PROVE IInv
    OBVIOUS
<1>1. ram \in [Halves -> Frames \union {None, Torn}] /\ k \in 1..5 /\ hv \subseteq Halves
  BY DEF Init
<1>2. TypeOK
  BY <1>1 DEF Init, TypeOK
<1>3. Slot /\ Streamed /\ Drawn /\ Rest
  BY DEF Init, Slot, Streamed, Drawn, Rest
<1> QED BY <1>2, <1>3 DEF IInv

\* Every step keeps the invariant.
LEMMA StepIInv == IInv /\ [Next]_vars => IInv'
<1> SUFFICES ASSUME IInv, [Next]_vars PROVE IInv'
    OBVIOUS
<1>0. build' = build
  BY DEF Next, Worker, Queue, Take, Open, Paint, Publish, Waveform, EnterSnvs, Boot, vars
<1> USE FramesOK, PowerOK, <1>0
<1>1. ASSUME NEW f \in Frames, Queue(f) PROVE IInv'
  BY <1>1 DEF Queue, Busy, IInv, TypeOK, Slot, Streamed, Drawn, Rest, El133Vars, panel, worker
<1>2. CASE Take
  BY <1>2 DEF Take, IInv, TypeOK, Slot, Streamed, Drawn, Rest, panel
<1>3. CASE Open
  BY <1>3 DEF Open, Goto, IInv, TypeOK, Slot, Streamed, Drawn, Rest, panel
<1>4. CASE Paint
  <2> USE DEF Paint, panel
  <2>0. ASSUME RefreshReturns("error"), UNCHANGED panel, pc \in {"send", "busy"} PROVE IInv'
    <3>0. dirty \in BOOLEAN
      BY DEF IInv, TypeOK
    <3>1. /\ pc' = "publish" /\ k' = k /\ ret' = "error" /\ dirty' = dirty
          /\ blanking' = FALSE
          /\ UNCHANGED <<frame, driver>>
          /\ UNCHANGED <<build, pending, state, mcu, panel_rail, shown>>
      BY <1>4, <2>0, <3>0 DEF RefreshReturns, Goto
    <3>2. TypeOK'
      <4>1. UNCHANGED <<power, ram, hv, wave, glass>>
        BY <2>0
      <4>2. dirty' \in BOOLEAN /\ blanking' \in BOOLEAN /\ power' \in BOOLEAN
        BY <3>0, <3>1, <4>1, Zenon DEF IInv, TypeOK
      <4>3. k' \in 1..5 /\ pc' = "publish" /\ ret' = "error"
        BY <3>1 DEF IInv, TypeOK
      <4> QED BY <3>1, <4>1, <4>2, <4>3, Zenon DEF IInv, TypeOK
    <3> QED BY <2>0, <3>1, <3>2 DEF IInv, Slot, Streamed, Drawn, Rest
  <2>1. CASE BlankingOn
    BY <1>4, <2>1 DEF BlankingOn, Goto, IInv, TypeOK, Slot, Streamed, Drawn, Rest
  <2>2. CASE NotReady
    BY <1>4, <2>2 DEF NotReady, Goto, IInv, TypeOK, Slot, Streamed, Drawn, Rest
  <2>3. CASE StreamHalf
    <3>1. k \in {1, 2} /\ pc = "half" /\ frame \in Frames \union {None}
      BY <2>3 DEF StreamHalf, IInv, TypeOK, Streamed
    <3>2. TypeOK'
      BY <1>4, <2>3, <3>1 DEF StreamHalf, Goto, IInv, TypeOK
    <3>3. Slot' /\ Streamed'
      BY <1>4, <2>3, <3>1 DEF StreamHalf, Goto, IInv, TypeOK, Slot, Streamed
    <3>4. Drawn' /\ Rest'
      BY <1>4, <2>3, <3>1 DEF StreamHalf, Goto, IInv, Drawn, Rest, Slot
    <3> QED BY <3>2, <3>3, <3>4 DEF IInv
  <2>4. CASE StreamFails
    BY <1>4, <2>4 DEF StreamFails, Goto, IInv, TypeOK, Slot, Streamed, Drawn, Rest
  <2>5. CASE Unblank
    BY <1>4, <2>5 DEF Unblank, Goto, IInv, TypeOK, Slot, Streamed, Drawn, Rest
  <2>6. CASE Send
    <3> DEFINE c == Refresh[k]
    <3>1. pc = "send" /\ k \in 1..5 /\ state = "REFRESHING"
      BY <2>6 DEF Send, IInv, TypeOK, Slot
    <3>2. /\ c.cs \subseteq Halves
          /\ c.cmd = "DRF" <=> k = 3
          /\ c.cmd = "POF" <=> k \in {4, 5}
          /\ k = 4 => c.cs = {1}
          /\ k = 5 => c.cs = {2}
      BY <3>1, Commands
    <3>3. /\ hv' = IF ~power THEN hv
                   ELSE IF c.cmd = "PON" THEN hv \union c.cs
                   ELSE IF c.cmd = "POF" THEN hv \ c.cs ELSE hv
          /\ wave' = IF power /\ c.cmd = "DRF" THEN Loaded ELSE wave
          /\ pc' = "busy" /\ k' = k
          /\ UNCHANGED <<frame, power, ram, glass, driver, dirty, blanking, ret>>
          /\ UNCHANGED <<build, pending, state, mcu, panel_rail, shown>>
      BY <1>4, <2>6 DEF Send, Goto
    <3> HIDE DEF c
    <3>4. power /\ k = 3 => Loaded = frame
      BY <3>1 DEF Loaded, IInv, Streamed
    <3>5. Loaded \in Frames \union {None, Torn}
      BY DEF Loaded, IInv, TypeOK
    <3>6. TypeOK'
      <4>1. hv' \subseteq Halves /\ wave' \in Frames \union {None, Torn}
        BY <3>2, <3>3, <3>5 DEF IInv, TypeOK
      <4> QED BY <3>3, <4>1 DEF IInv, TypeOK
    <3>7. Slot' /\ Streamed' /\ Rest'
      BY <3>1, <3>3 DEF IInv, Slot, Streamed, Rest
    <3>8. Drawn'
      <4>1. k = 3 => wave' = frame \/ ~power
        BY <3>1, <3>2, <3>3, <3>4
      <4>2. k >= 4 => power /\ wave' = None /\ glass' = frame
        BY <3>1, <3>2, <3>3 DEF IInv, Drawn
      <4>3. k = 4 => 1 \notin hv'
        <5>1. k = 4 => c.cmd = "POF" /\ c.cs = {1}
          BY <3>2
        <5>2. k = 4 => power
          BY <3>1 DEF IInv, Drawn
        <5>3. k = 4 => hv' = hv \ c.cs
          BY <3>3, <5>1, <5>2
        <5> QED BY <5>1, <5>3
      <4>4. k = 5 => hv' = {}
        <5>1. k = 5 => c.cmd = "POF" /\ c.cs = {2}
          BY <3>2
        <5>2. k = 5 => power /\ 1 \notin hv
          BY <3>1 DEF IInv, Drawn
        <5>3. k = 5 => hv' = hv \ c.cs
          BY <3>3, <5>1, <5>2
        <5> QED BY <5>1, <5>2, <5>3 DEF IInv, TypeOK
      <4> QED BY <3>1, <3>3, <4>1, <4>2, <4>3, <4>4 DEF Drawn
    <3> QED BY <3>6, <3>7, <3>8 DEF IInv
  <2>7. CASE SendFails
    BY <2>0, <2>7 DEF SendFails
  <2>8. CASE BusyHigh
    <3>1. pc = "busy" /\ power /\ k \in 1..5 /\ state = "REFRESHING"
      BY <2>8 DEF BusyHigh, IInv, TypeOK, Slot
    <3>2. /\ wave' = None /\ glass' = IF wave = None THEN glass ELSE wave
          /\ UNCHANGED <<frame, power, ram, hv, driver>>
          /\ UNCHANGED <<build, pending, state, mcu, panel_rail, shown>>
      BY <1>4, <2>8 DEF BusyHigh, RefreshReturns, Goto
    <3>3. k >= 3 => glass' = frame
      <4>1. k = 3 => wave = frame \/ (wave = None /\ glass = frame)
        BY <3>1 DEF IInv, Drawn
      <4>2. k > 3 => wave = None /\ glass = frame
        BY <3>1 DEF IInv, Drawn
      <4>3. frame # None
        BY <3>1 DEF IInv, Slot
      <4> QED BY <3>1, <3>2, <4>1, <4>2, <4>3
    <3>4. CASE k = 5
      <4>1. pc' = "publish" /\ k' = k /\ ret' = "ok" /\ dirty' = FALSE /\ blanking' = FALSE
        BY <1>4, <2>8, <3>4, Commands DEF BusyHigh, NextCommand, RefreshReturns, Goto
      <4>2. TypeOK'
        BY <3>1, <3>2, <4>1 DEF IInv, TypeOK
      <4> QED
        BY <3>1, <3>2, <3>3, <3>4, <4>1, <4>2 DEF IInv, Slot, Streamed, Drawn, Rest
    <3>5. CASE k # 5
      <4>1. pc' = "send" /\ k' = k + 1 /\ UNCHANGED <<ret, dirty, blanking>>
        BY <1>4, <2>8, <3>1, <3>5, Commands DEF BusyHigh, NextCommand, Goto
      <4>2. TypeOK'
        BY <3>1, <3>2, <3>5, <4>1 DEF IInv, TypeOK
      <4> QED
        BY <3>1, <3>2, <3>3, <3>5, <4>1, <4>2 DEF IInv, Slot, Streamed, Drawn, Rest
    <3> QED BY <3>4, <3>5
  <2>9. CASE BusyTimesOut
    BY <2>0, <2>9 DEF BusyTimesOut
  <2> QED
    BY <1>4, <2>1, <2>2, <2>3, <2>4, <2>5, <2>6, <2>7, <2>8, <2>9 DEF WriteStream
<1>5. CASE Publish
  BY <1>5 DEF Publish, Goto, IInv, TypeOK, Slot, Streamed, Drawn, Rest, panel
<1>6. CASE Waveform
  BY <1>6 DEF Waveform, WaveEnds, IInv, TypeOK, Slot, Streamed, Drawn, Rest, worker
<1>7. CASE EnterSnvs
  <2>1. panel_rail' \in BOOLEAN /\ (power' => power) /\ power' \in BOOLEAN
    BY <1>7 DEF EnterSnvs, IInv, TypeOK, Build
  <2>2. CASE build.drops
    <3>1. Stops /\ (power' => UNCHANGED <<ram, hv, wave, glass>>) /\ (~power' => PanelResets)
      BY <1>7, <2>1, <2>2 DEF EnterSnvs
    <3>2. TypeOK'
      <4>1. /\ ram' \in [Halves -> Frames \union {None, Torn}] /\ hv' \subseteq Halves
            /\ wave' \in Frames \union {None, Torn} /\ glass' \in Frames \union {None, Torn}
        BY <2>1, <3>1 DEF PanelResets, IInv, TypeOK
      <4>2. /\ pc' = "idle" /\ k' = 1 /\ frame' = None /\ ret' = "ok" /\ pending' = None
            /\ state' = "IDLE" /\ shown' = None /\ driver' = "no_glass" /\ mcu' = "off"
            /\ dirty' \in BOOLEAN /\ blanking' \in BOOLEAN
        BY <3>1 DEF Stops
      <4> QED BY <2>1, <4>1, <4>2 DEF IInv, TypeOK
    <3> QED
      BY <2>1, <3>1, <3>2 DEF Stops, IInv, Slot, Streamed, Drawn, Rest
  <2>3. CASE ~build.drops
    <3>1. GoesOn /\ (power' => UNCHANGED <<ram, hv, wave, glass>>) /\ (~power' => PanelResets)
      BY <1>7, <2>1, <2>3 DEF EnterSnvs
    <3>2. power' = power
      BY <1>7, <2>1, <2>3 DEF EnterSnvs, IInv, TypeOK, Slot
    <3>3. TypeOK'
      <4>1. /\ ram' \in [Halves -> Frames \union {None, Torn}] /\ hv' \subseteq Halves
            /\ wave' \in Frames \union {None, Torn} /\ glass' \in Frames \union {None, Torn}
        BY <2>1, <3>1 DEF PanelResets, IInv, TypeOK
      <4> QED BY <2>1, <3>1, <4>1 DEF GoesOn, worker, IInv, TypeOK
    <3> QED
      BY <1>7, <2>1, <3>1, <3>2, <3>3
         DEF EnterSnvs, GoesOn, worker, PanelResets, IInv, TypeOK, Slot, Streamed, Drawn, Rest
  <2> QED BY <2>2, <2>3
<1>8. CASE Boot
  <2>1. build \in Build
    BY DEF IInv, TypeOK
  <2>2. TypeOK'
    BY <1>8, <2>1 DEF Boot, Supplied, PanelResets, worker, IInv, TypeOK, Build
  <2> QED
    BY <1>8, <2>1, <2>2
       DEF Boot, Supplied, PanelResets, worker, Build, IInv, Slot, Streamed, Drawn, Rest
<1>9. CASE UNCHANGED vars
  BY <1>9 DEF vars, El133Vars, panel, worker, IInv, TypeOK, Slot, Streamed, Drawn, Rest
<1> QED BY <1>1, <1>2, <1>3, <1>4, <1>5, <1>6, <1>7, <1>8, <1>9 DEF Next, Worker

\* The invariant holds throughout.
THEOREM Invariance == Spec => []IInv
  BY InitIInv, StepIInv, PTL DEF Spec

\* The state keeps its types (display_el133uf1.c and eink_power.c), for any frames,
\* builds and boards.
THEOREM TypeCorrect == Spec => []TypeOK
<1>1. IInv => TypeOK
  BY DEF IInv
<1> QED BY <1>1, Invariance, PTL

\* A refresh that is reported as done is on the glass (el133_blanking_off, set_idle).
THEOREM SuccessIsOnGlass == Spec => []OkIsOnGlass
<1>1. IInv => OkIsOnGlass
  BY DEF IInv, Rest, OkIsOnGlass
<1> QED BY <1>1, Invariance, PTL

\* Between commands the panel's high voltage is off, unless the last refresh failed
\* (refresh).
THEOREM HighVoltageIsOff == Spec => []HighVoltageOff
<1>1. IInv => HighVoltageOff
  BY DEF IInv, TypeOK, Slot, Rest, HighVoltageOff
<1> QED BY <1>1, Invariance, PTL

\* A waveform draws the frame of its own command, whole (el133uf1_stream_write, refresh).
THEOREM DrawsOwnFrame == Spec => DrawsItsFrame
<1>1. IInv /\ [Next]_vars => [wave' # wave /\ wave' # None => wave' = frame]_vars
  <2> SUFFICES ASSUME IInv, Next, wave' # wave, wave' # None PROVE wave' = frame
    BY DEF vars, El133Vars, panel
  <2>1. CASE Paint /\ Send
    <3>1. k \in 1..5 /\ pc = "send"
      BY <2>1 DEF Send, IInv, TypeOK
    <3>2. power /\ Refresh[k].cmd = "DRF" /\ wave' = Loaded
      BY <2>1 DEF Send
    <3>3. k = 3
      BY <3>1, <3>2, Commands
    <3> QED BY <3>1, <3>2, <3>3 DEF Loaded, IInv, Streamed
  <2>2. ~(Paint /\ Send)
        => wave' = wave \/ wave' = None
    BY DEF Next, Worker, Queue, Take, Open, Paint, WriteStream, Publish, Waveform, WaveEnds,
           EnterSnvs, Boot, PanelResets, BlankingOn, NotReady, StreamHalf, StreamFails, Unblank,
           SendFails, BusyHigh, BusyTimesOut, El133Vars, panel
  <2> QED BY <2>1, <2>2
<1> QED BY <1>1, Invariance, PTL DEF Spec, DrawsItsFrame
=============================================================================
