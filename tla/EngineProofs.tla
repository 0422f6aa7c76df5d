---------------------------- MODULE EngineProofs ----------------------------
(***************************************************************************)
(* Proofs about Engine for any callers, of which one takes the mutex, any  *)
(* configurations, settings and files: as long as no two calls overlap,    *)
(* every start and stop leaves the engine whole or gone.                   *)
(***************************************************************************)
EXTENDS Engine, TLAPS

\* Init establishes the invariant.
LEMMA EngineInit == Init => EngineInv
<1> SUFFICES ASSUME Init
             PROVE  EngineInv
  OBVIOUS
<1>1. TypeOK
  <2>1. Default.set \in [Kinds -> Values] /\ Default \in Config
    BY ConfigAssumption DEF Config
  <2> QED
    BY <2>1 DEF Init, TypeOK, Labels
<1>2. GoalInv
  BY DEF Init, GoalInv, Starting
<1>3. CallInv
  BY DEF Init, CallInv, InCall
<1>4. DeviceInv
  BY EngineAssumption DEF Init, DeviceInv, Gone, Starting
<1>5. SettingsInv
  BY DEF Init, SettingsInv
<1> QED
  BY <1>1, <1>2, <1>3, <1>4, <1>5 DEF EngineInv

\* A step of a call leaves a place in the code, a goal and an owner of the mutex.
LEMMA CallTypes ==
  ASSUME TypeOK, NEW c \in Callers,
         Fail(c) \/ Return(c) \/ (\E label \in Labels : Continue(c, label))
  PROVE  /\ mutex' \in Callers \cup {None} /\ pc' \in [Callers -> Labels]
         /\ goal' \in [Callers -> Configs \cup {None}]
<1>1. CASE Fail(c)
  BY <1>1 DEF Fail, Goto, TypeOK, Labels
<1>2. CASE Return(c)
  <2>1. \E label \in Labels : pc' = [pc EXCEPT ![c] = label]
    BY <1>2 DEF Return, Goto, Labels
  <2> QED
    BY <1>2, <2>1 DEF Return, TypeOK
<1>3. CASE \E label \in Labels : Continue(c, label)
  BY <1>3 DEF Continue, Goto, TypeOK
<1> QED
  BY <1>1, <1>2, <1>3

-----------------------------------------------------------------------------
(* Calls.                                                                  *)

\* A call begins when there is no other, or it overlaps.
LEMMA CallStep ==
  ASSUME EngineInv, NEW c \in Callers, NEW cfg \in Configs \cup {None}, Call(c, cfg)
  PROVE  EngineInv'
<1> USE DEF EngineInv
<1>1. TypeOK'
  BY EngineAssumption, ConfigAssumption
     DEF Call, Enter, Goto, TypeOK, Labels, GoalInv, Starting, Config, audio,
         settings
<1>2. GoalInv'
  BY EngineAssumption, ConfigAssumption
     DEF Call, Enter, Goto, TypeOK, Labels, GoalInv, Starting, InCall, audio
<1>3. ASSUME ~overlapped'
      PROVE  CallInv' /\ DeviceInv' /\ SettingsInv'
  <2>0. ~overlapped /\ CallInv /\ DeviceInv /\ SettingsInv
    BY <1>3 DEF Call, Enter, Goto, TypeOK
  <2>1. CallInv'
    <3>1. pc[c] = "idle" /\ \A o \in Callers \ {c} : ~InCall(o)
      BY <1>3 DEF Call, Enter
    <3>2. \A o \in Callers : pc[o] # "over"
      BY <2>0, <3>1 DEF CallInv, Releasing
    <3>3. pc'[c] = "uninit_capture" /\ \A o \in Callers \ {c} : pc'[o] = pc[o]
      BY DEF Call, Goto, TypeOK
    <3> QED
      BY <2>0, <3>1, <3>2, <3>3 DEF CallInv, InCall
  <2>2. DeviceInv'
    BY <1>3, <2>0, EngineAssumption
       DEF Call, Enter, Goto, TypeOK, CallInv, DeviceInv, There, Gone, Devices,
           Releasing, Starting, InCall, audio
  <2>3. SettingsInv'
    BY <1>3, <2>0, EngineAssumption
       DEF Call, Enter, Goto, TypeOK, CallInv, DeviceInv, SettingsInv, Gone, Kinds,
           Releasing, Starting, InCall, audio, settings
  <2> QED
    BY <2>1, <2>2, <2>3
<1> QED
  BY <1>1, <1>2, <1>3

\* main() gets past the end of the server thread.
LEMMA ShutdownStep ==
  ASSUME EngineInv, NEW c \in Callers, c \in Unlocked, Shutdown(c)
  PROVE  EngineInv'
<1> USE DEF EngineInv
<1>1. TypeOK'
  BY EngineAssumption, ConfigAssumption
     DEF Shutdown, TypeOK, Labels, GoalInv, Starting, Config, audio, settings
<1>2. GoalInv'
  BY EngineAssumption, ConfigAssumption
     DEF Shutdown, TypeOK, Labels, GoalInv, Starting, InCall, audio
<1>3. ASSUME ~overlapped'
      PROVE  CallInv' /\ DeviceInv' /\ SettingsInv'
  <2>0. ~overlapped /\ CallInv /\ DeviceInv /\ SettingsInv
    BY <1>3 DEF Shutdown, TypeOK
  <2>1. CallInv'
    BY <1>3, <2>0, EngineAssumption
       DEF Shutdown, TypeOK, GoalInv, CallInv, Releasing, Starting, InCall
  <2>2. DeviceInv'
    BY <1>3, <2>0, EngineAssumption
       DEF Shutdown, TypeOK, CallInv, DeviceInv, There, Gone, Devices, Releasing,
           Starting, InCall, audio
  <2>3. SettingsInv'
    BY <1>3, <2>0, EngineAssumption
       DEF Shutdown, TypeOK, CallInv, DeviceInv, SettingsInv, Gone, Kinds,
           Releasing, Starting, InCall, audio, settings
  <2> QED
    BY <2>1, <2>2, <2>3
<1> QED
  BY <1>1, <1>2, <1>3

\* A setting is recorded, and passed on to the unit when there is one.
LEMMA SetStep ==
  ASSUME EngineInv, NEW c \in Callers, NEW k \in Kinds, NEW v \in Values, Set(c, k, v)
  PROVE  EngineInv'
<1> USE DEF EngineInv
<1>1. TypeOK'
  BY EngineAssumption, ConfigAssumption
     DEF Set, Enter, TypeOK, Labels, GoalInv, Starting, Config, control, audio
<1>2. GoalInv'
  BY EngineAssumption, ConfigAssumption
     DEF Set, Enter, TypeOK, Labels, GoalInv, Starting, InCall, control, audio
<1>3. ASSUME ~overlapped'
      PROVE  CallInv' /\ DeviceInv' /\ SettingsInv'
  <2>0. ~overlapped /\ CallInv /\ DeviceInv /\ SettingsInv
    BY <1>3 DEF Set, Enter, TypeOK
  <2>1. CallInv'
    BY <1>3, <2>0, EngineAssumption
       DEF Set, Enter, TypeOK, GoalInv, CallInv, Releasing, Starting, InCall,
           control
  <2>2. DeviceInv'
    BY <1>3, <2>0, EngineAssumption
       DEF Set, Enter, TypeOK, CallInv, DeviceInv, There, Gone, Devices, Releasing,
           Starting, InCall, control, audio
  <2>3. SettingsInv'
    BY <1>3, <2>0, EngineAssumption
       DEF Set, Enter, TypeOK, CallInv, DeviceInv, SettingsInv, Gone, Kinds,
           Releasing, Starting, InCall, control, audio
  <2> QED
    BY <2>1, <2>2, <2>3
<1> QED
  BY <1>1, <1>2, <1>3

\* A model or cab is replaced.
LEMMA ReplaceStep ==
  ASSUME EngineInv, NEW c \in Callers, NEW s \in Stages,
         NEW p \in Paths \cup {None}, Replace(c, s, p)
  PROVE  EngineInv'
<1> USE DEF EngineInv
<1>1. TypeOK'
  BY EngineAssumption, ConfigAssumption
     DEF Replace, Enter, TypeOK, Labels, GoalInv, Starting, Config, control, audio
<1>2. GoalInv'
  BY EngineAssumption, ConfigAssumption
     DEF Replace, Enter, TypeOK, Labels, GoalInv, Starting, InCall, control, audio
<1>3. ASSUME ~overlapped'
      PROVE  CallInv' /\ DeviceInv' /\ SettingsInv'
  <2>0. ~overlapped /\ CallInv /\ DeviceInv /\ SettingsInv
    BY <1>3 DEF Replace, Enter, TypeOK
  <2>1. CallInv'
    BY <1>3, <2>0, EngineAssumption
       DEF Replace, Enter, TypeOK, GoalInv, CallInv, Releasing, Starting, InCall,
           control
  <2>2. DeviceInv'
    BY <1>3, <2>0, EngineAssumption
       DEF Replace, Enter, TypeOK, CallInv, DeviceInv, There, Gone, Devices,
           Releasing, Starting, InCall, control, audio
  <2>3. SettingsInv'
    BY <1>3, <2>0, EngineAssumption
       DEF Replace, Enter, TypeOK, CallInv, DeviceInv, SettingsInv, Gone, Kinds,
           Releasing, Starting, InCall, control, audio
  <2> QED
    BY <2>1, <2>2, <2>3
<1> QED
  BY <1>1, <1>2, <1>3

\* A recording begins or ends.
LEMMA RecordStep ==
  ASSUME EngineInv, NEW c \in Callers, Record(c)
  PROVE  EngineInv'
<1> USE DEF EngineInv
<1>1. TypeOK'
  BY EngineAssumption, ConfigAssumption
     DEF Record, Enter, TypeOK, Labels, GoalInv, Starting, Config, control, audio,
         settings
<1>2. GoalInv'
  BY EngineAssumption, ConfigAssumption
     DEF Record, Enter, TypeOK, Labels, GoalInv, Starting, InCall, control, audio
<1>3. ASSUME ~overlapped'
      PROVE  CallInv' /\ DeviceInv' /\ SettingsInv'
  <2>0. ~overlapped /\ CallInv /\ DeviceInv /\ SettingsInv
    BY <1>3 DEF Record, Enter, TypeOK
  <2>1. CallInv'
    BY <1>3, <2>0, EngineAssumption
       DEF Record, Enter, TypeOK, GoalInv, CallInv, Releasing, Starting, InCall,
           control
  <2>2. DeviceInv'
    BY <1>3, <2>0, EngineAssumption
       DEF Record, Enter, TypeOK, CallInv, DeviceInv, There, Gone, Devices,
           Releasing, Starting, InCall, control, audio
  <2>3. SettingsInv'
    BY <1>3, <2>0, EngineAssumption
       DEF Record, Enter, TypeOK, CallInv, DeviceInv, SettingsInv, Gone, Kinds,
           Releasing, Starting, InCall, control, audio, settings
  <2> QED
    BY <2>1, <2>2, <2>3
<1> QED
  BY <1>1, <1>2, <1>3

-----------------------------------------------------------------------------
(* release().                                                              *)

\* The capture device goes ...
LEMMA UninitCaptureStep ==
  ASSUME EngineInv, NEW c \in Callers, UninitCapture(c)
  PROVE  EngineInv'
<1> USE DEF EngineInv
<1>1. TypeOK'
  BY EngineAssumption, ConfigAssumption
     DEF UninitCapture, Uninit, Continue, Goto, TypeOK, Labels, GoalInv, Starting,
         Config, settings
<1>2. GoalInv'
  BY EngineAssumption, ConfigAssumption
     DEF UninitCapture, Uninit, Continue, Goto, TypeOK, Labels, GoalInv, Starting,
         InCall
<1>3. ASSUME ~overlapped'
      PROVE  CallInv' /\ DeviceInv' /\ SettingsInv'
  <2>0. ~overlapped /\ CallInv /\ DeviceInv /\ SettingsInv
    BY <1>3 DEF UninitCapture, Uninit, Continue, Goto, TypeOK
  <2>1. CallInv'
    BY <1>3, <2>0, EngineAssumption
       DEF UninitCapture, Uninit, Continue, Goto, TypeOK, GoalInv, CallInv,
           Releasing, Starting, InCall
  <2>2. DeviceInv'
    BY <1>3, <2>0, EngineAssumption
       DEF UninitCapture, Uninit, Continue, Goto, TypeOK, CallInv, DeviceInv,
           There, Gone, Devices, Releasing, Starting, InCall
  <2>3. SettingsInv'
    BY <1>3, <2>0, EngineAssumption
       DEF UninitCapture, Uninit, Continue, Goto, TypeOK, CallInv, DeviceInv,
           SettingsInv, Gone, Kinds, Releasing, Starting, InCall, settings
  <2> QED
    BY <2>1, <2>2, <2>3
<1> QED
  BY <1>1, <1>2, <1>3

\* ... then the playback device ...
LEMMA UninitPlaybackStep ==
  ASSUME EngineInv, NEW c \in Callers, UninitPlayback(c)
  PROVE  EngineInv'
<1> USE DEF EngineInv
<1>1. TypeOK'
  BY EngineAssumption, ConfigAssumption
     DEF UninitPlayback, Uninit, Continue, Goto, TypeOK, Labels, GoalInv, Starting,
         Config, settings
<1>2. GoalInv'
  BY EngineAssumption, ConfigAssumption
     DEF UninitPlayback, Uninit, Continue, Goto, TypeOK, Labels, GoalInv, Starting,
         InCall
<1>3. ASSUME ~overlapped'
      PROVE  CallInv' /\ DeviceInv' /\ SettingsInv'
  <2>0. ~overlapped /\ CallInv /\ DeviceInv /\ SettingsInv
    BY <1>3 DEF UninitPlayback, Uninit, Continue, Goto, TypeOK
  <2>1. CallInv'
    BY <1>3, <2>0, EngineAssumption
       DEF UninitPlayback, Uninit, Continue, Goto, TypeOK, GoalInv, CallInv,
           Releasing, Starting, InCall
  <2>2. DeviceInv'
    BY <1>3, <2>0, EngineAssumption
       DEF UninitPlayback, Uninit, Continue, Goto, TypeOK, CallInv, DeviceInv,
           There, Gone, Devices, Releasing, Starting, InCall
  <2>3. SettingsInv'
    BY <1>3, <2>0, EngineAssumption
       DEF UninitPlayback, Uninit, Continue, Goto, TypeOK, CallInv, DeviceInv,
           SettingsInv, Gone, Kinds, Releasing, Starting, InCall, settings
  <2> QED
    BY <2>1, <2>2, <2>3
<1> QED
  BY <1>1, <1>2, <1>3

\* ... then everything else.
LEMMA ResetStep ==
  ASSUME EngineInv, NEW c \in Callers, Reset(c)
  PROVE  EngineInv'
<1> USE DEF EngineInv
<1>1. TypeOK'
  <2>1. /\ mutex' \in Callers \cup {None} /\ pc' \in [Callers -> Labels]
        /\ goal' \in [Callers -> Configs \cup {None}]
    BY CallTypes DEF Reset, Labels
  <2> QED
    BY <2>1 DEF Reset, TypeOK, settings
<1>2. GoalInv'
  BY EngineAssumption, ConfigAssumption
     DEF Reset, Continue, Return, Goto, Ending, TypeOK, Labels, GoalInv, Starting,
         InCall
<1>3. ASSUME ~overlapped'
      PROVE  CallInv' /\ DeviceInv' /\ SettingsInv'
  <2>0. ~overlapped /\ CallInv /\ DeviceInv /\ SettingsInv
    BY <1>3 DEF Reset, Continue, Return, Goto, Ending, TypeOK
  <2>1. CallInv'
    BY <1>3, <2>0, EngineAssumption
       DEF Reset, Continue, Return, Goto, Ending, TypeOK, GoalInv, CallInv,
           Releasing, Starting, InCall
  <2>2. DeviceInv'
    BY <1>3, <2>0, EngineAssumption
       DEF Reset, Continue, Return, Goto, Ending, TypeOK, CallInv, DeviceInv,
           There, Gone, Devices, Releasing, Starting, InCall
  <2>3. SettingsInv'
    BY <1>3, <2>0, EngineAssumption
       DEF Reset, Continue, Return, Goto, Ending, TypeOK, CallInv, DeviceInv,
           SettingsInv, Gone, Kinds, Releasing, Starting, InCall, settings
  <2> QED
    BY <2>1, <2>2, <2>3
<1> QED
  BY <1>1, <1>2, <1>3

-----------------------------------------------------------------------------
(* start().                                                                *)

\* The configuration is taken, the model loaded, ...
LEMMA LoadModelStep ==
  ASSUME EngineInv, NEW c \in Callers, LoadModel(c)
  PROVE  EngineInv'
<1> USE DEF EngineInv
<1>1. TypeOK'
  <2>1. /\ mutex' \in Callers \cup {None} /\ pc' \in [Callers -> Labels]
        /\ goal' \in [Callers -> Configs \cup {None}]
    BY CallTypes DEF LoadModel, Labels
  <2>2. goal[c] \in Config
    BY ConfigAssumption DEF LoadModel, TypeOK, GoalInv, Starting
  <2>3. config' \in Config
    BY <2>2 DEF LoadModel, TypeOK
  <2>4. /\ stage' \in [Stages -> Paths \cup {None}]
        /\ path' \in [Stages -> Paths \cup {None}]
    <3>1. goal[c].load["model"] \in Paths \cup {None}
      BY <2>2 DEF Config, Stages
    <3> QED
      BY <3>1 DEF LoadModel, Load, TypeOK
  <2>5. unit' = unit /\ requested' = requested
    BY DEF LoadModel, Load
  <2> QED
    BY <2>1, <2>3, <2>4, <2>5 DEF LoadModel, TypeOK, audio
<1>2. GoalInv'
  BY EngineAssumption, ConfigAssumption
     DEF LoadModel, Load, Continue, Fail, Goto, TypeOK, Labels, GoalInv, Starting,
         InCall, audio
<1>3. ASSUME ~overlapped'
      PROVE  CallInv' /\ DeviceInv' /\ SettingsInv'
  <2>0. ~overlapped /\ CallInv /\ DeviceInv /\ SettingsInv
    BY <1>3 DEF LoadModel, Load, Continue, Fail, Goto, TypeOK
  <2>1. CallInv'
    BY <1>3, <2>0, EngineAssumption
       DEF LoadModel, Load, Continue, Fail, Goto, TypeOK, GoalInv, CallInv,
           Releasing, Starting, InCall
  <2>2. DeviceInv'
    BY <1>3, <2>0, EngineAssumption
       DEF LoadModel, Load, Continue, Fail, Goto, TypeOK, CallInv, DeviceInv,
           There, Gone, Devices, Releasing, Starting, InCall, audio
  <2>3. SettingsInv'
    BY <1>3, <2>0, EngineAssumption
       DEF LoadModel, Load, Continue, Fail, Goto, TypeOK, CallInv, DeviceInv,
           SettingsInv, Gone, Kinds, Releasing, Starting, InCall, audio
  <2> QED
    BY <2>1, <2>2, <2>3
<1> QED
  BY <1>1, <1>2, <1>3

\* ... the cab loaded, ...
LEMMA LoadCabStep ==
  ASSUME EngineInv, NEW c \in Callers, LoadCab(c)
  PROVE  EngineInv'
<1> USE DEF EngineInv
<1>1. TypeOK'
  BY EngineAssumption, ConfigAssumption
     DEF LoadCab, Load, Continue, Fail, Goto, TypeOK, Labels, GoalInv, Starting,
         Config, audio
<1>2. GoalInv'
  BY EngineAssumption, ConfigAssumption
     DEF LoadCab, Load, Continue, Fail, Goto, TypeOK, Labels, GoalInv, Starting,
         InCall, audio
<1>3. ASSUME ~overlapped'
      PROVE  CallInv' /\ DeviceInv' /\ SettingsInv'
  <2>0. ~overlapped /\ CallInv /\ DeviceInv /\ SettingsInv
    BY <1>3 DEF LoadCab, Load, Continue, Fail, Goto, TypeOK
  <2>1. CallInv'
    BY <1>3, <2>0, EngineAssumption
       DEF LoadCab, Load, Continue, Fail, Goto, TypeOK, GoalInv, CallInv,
           Releasing, Starting, InCall
  <2>2. DeviceInv'
    BY <1>3, <2>0, EngineAssumption
       DEF LoadCab, Load, Continue, Fail, Goto, TypeOK, CallInv, DeviceInv, There,
           Gone, Devices, Releasing, Starting, InCall, audio
  <2>3. SettingsInv'
    BY <1>3, <2>0, EngineAssumption
       DEF LoadCab, Load, Continue, Fail, Goto, TypeOK, CallInv, DeviceInv,
           SettingsInv, Gone, Kinds, Releasing, Starting, InCall, audio
  <2> QED
    BY <2>1, <2>2, <2>3
<1> QED
  BY <1>1, <1>2, <1>3

\* ... the units made, ...
LEMMA CreateUnitsStep ==
  ASSUME EngineInv, NEW c \in Callers, CreateUnits(c)
  PROVE  EngineInv'
<1> USE DEF EngineInv
<1>1. TypeOK'
  <2>1. /\ mutex' \in Callers \cup {None} /\ pc' \in [Callers -> Labels]
        /\ goal' \in [Callers -> Configs \cup {None}]
    BY CallTypes DEF CreateUnits, Labels
  <2>2. unit' \in [Kinds -> Values] /\ requested' \in [Kinds -> Values]
    <3>1. CASE UNCHANGED <<unit, requested>>
      BY <3>1 DEF TypeOK
    <3>2. CASE /\ unit' = goal[c].set
               /\ requested' = [goal[c].set EXCEPT !["gain"] = requested["gain"]]
      <4>1. goal[c] \in Config
        BY ConfigAssumption DEF CreateUnits, TypeOK, GoalInv, Starting
      <4>2. goal[c].set \in [Kinds -> Values] /\ requested["gain"] \in Values
        BY <4>1 DEF Config, TypeOK, Kinds
      <4> QED
        BY <3>2, <4>2
    <3> QED
      BY <3>1, <3>2 DEF CreateUnits
  <2> QED
    BY <2>1, <2>2 DEF CreateUnits, TypeOK
<1>2. GoalInv'
  BY EngineAssumption, ConfigAssumption
     DEF CreateUnits, Continue, Fail, Goto, TypeOK, Labels, GoalInv, Starting,
         InCall
<1>3. ASSUME ~overlapped'
      PROVE  CallInv' /\ DeviceInv' /\ SettingsInv'
  <2>0. ~overlapped /\ CallInv /\ DeviceInv /\ SettingsInv
    BY <1>3 DEF CreateUnits, Continue, Fail, Goto, TypeOK
  <2>1. CallInv'
    BY <1>3, <2>0, EngineAssumption
       DEF CreateUnits, Continue, Fail, Goto, TypeOK, GoalInv, CallInv, Releasing,
           Starting, InCall
  <2>2. DeviceInv'
    BY <1>3, <2>0, EngineAssumption
       DEF CreateUnits, Continue, Fail, Goto, TypeOK, CallInv, DeviceInv, There,
           Gone, Devices, Releasing, Starting, InCall
  <2>3. SettingsInv'
    BY <1>3, <2>0, EngineAssumption
       DEF CreateUnits, Continue, Fail, Goto, TypeOK, CallInv, DeviceInv,
           SettingsInv, Gone, Kinds, Releasing, Starting, InCall
  <2> QED
    BY <2>1, <2>2, <2>3
<1> QED
  BY <1>1, <1>2, <1>3

\* ... the devices initialised ...
LEMMA InitCaptureStep ==
  ASSUME EngineInv, NEW c \in Callers, InitCapture(c)
  PROVE  EngineInv'
<1> USE DEF EngineInv
<1>1. TypeOK'
  <2>1. /\ mutex' \in Callers \cup {None} /\ pc' \in [Callers -> Labels]
        /\ goal' \in [Callers -> Configs \cup {None}]
    BY CallTypes DEF InitCapture, InitDevice, Labels
  <2>2. device' \in [Devices -> {"none", "ready", "started"}] /\ leaked' \in BOOLEAN
    <3>1. device' \in [Devices -> {"none", "ready", "started"}]
      BY DEF InitCapture, InitDevice, TypeOK, Devices
    <3>2. leaked' \in BOOLEAN
      BY DEF InitCapture, InitDevice, TypeOK
    <3> QED
      BY <3>1, <3>2
  <2> QED
    BY <2>1, <2>2 DEF InitCapture, TypeOK, settings
<1>2. GoalInv'
  BY EngineAssumption, ConfigAssumption
     DEF InitCapture, InitDevice, Continue, Fail, Goto, TypeOK, Labels, GoalInv,
         Starting, InCall
<1>3. ASSUME ~overlapped'
      PROVE  CallInv' /\ DeviceInv' /\ SettingsInv'
  <2>0. ~overlapped /\ CallInv /\ DeviceInv /\ SettingsInv
    BY <1>3 DEF InitCapture, InitDevice, Continue, Fail, Goto, TypeOK
  <2>1. CallInv'
    BY <1>3, <2>0, EngineAssumption
       DEF InitCapture, InitDevice, Continue, Fail, Goto, TypeOK, GoalInv, CallInv,
           Releasing, Starting, InCall
  <2>2. DeviceInv'
    BY <1>3, <2>0, EngineAssumption
       DEF InitCapture, InitDevice, Continue, Fail, Goto, TypeOK, CallInv,
           DeviceInv, There, Gone, Devices, Releasing, Starting, InCall
  <2>3. SettingsInv'
    BY <1>3, <2>0, EngineAssumption
       DEF InitCapture, InitDevice, Continue, Fail, Goto, TypeOK, CallInv,
           DeviceInv, SettingsInv, Gone, Kinds, Releasing, Starting, InCall,
           settings
  <2> QED
    BY <2>1, <2>2, <2>3
<1> QED
  BY <1>1, <1>2, <1>3

\* ... one after the other, ...
LEMMA InitPlaybackStep ==
  ASSUME EngineInv, NEW c \in Callers, InitPlayback(c)
  PROVE  EngineInv'
<1> USE DEF EngineInv
<1>1. TypeOK'
  <2>1. /\ mutex' \in Callers \cup {None} /\ pc' \in [Callers -> Labels]
        /\ goal' \in [Callers -> Configs \cup {None}]
    BY CallTypes DEF InitPlayback, InitDevice, Labels
  <2>2. device' \in [Devices -> {"none", "ready", "started"}] /\ leaked' \in BOOLEAN
    BY DEF InitPlayback, InitDevice, TypeOK, Devices
  <2> QED
    BY <2>1, <2>2 DEF InitPlayback, TypeOK, settings
<1>2. GoalInv'
  BY EngineAssumption, ConfigAssumption
     DEF InitPlayback, InitDevice, Continue, Fail, Goto, TypeOK, Labels, GoalInv,
         Starting, InCall
<1>3. ASSUME ~overlapped'
      PROVE  CallInv' /\ DeviceInv' /\ SettingsInv'
  <2>0. ~overlapped /\ CallInv /\ DeviceInv /\ SettingsInv
    BY <1>3 DEF InitPlayback, InitDevice, Continue, Fail, Goto, TypeOK
  <2>1. CallInv'
    BY <1>3, <2>0, EngineAssumption
       DEF InitPlayback, InitDevice, Continue, Fail, Goto, TypeOK, GoalInv,
           CallInv, Releasing, Starting, InCall
  <2>2. DeviceInv'
    BY <1>3, <2>0, EngineAssumption
       DEF InitPlayback, InitDevice, Continue, Fail, Goto, TypeOK, CallInv,
           DeviceInv, There, Gone, Devices, Releasing, Starting, InCall
  <2>3. SettingsInv'
    BY <1>3, <2>0, EngineAssumption
       DEF InitPlayback, InitDevice, Continue, Fail, Goto, TypeOK, CallInv,
           DeviceInv, SettingsInv, Gone, Kinds, Releasing, Starting, InCall,
           settings
  <2> QED
    BY <2>1, <2>2, <2>3
<1> QED
  BY <1>1, <1>2, <1>3

\* ... the gain recorded, ...
LEMMA RecordGainStep ==
  ASSUME EngineInv, NEW c \in Callers, RecordGain(c)
  PROVE  EngineInv'
<1> USE DEF EngineInv
<1>1. TypeOK'
  BY EngineAssumption, ConfigAssumption
     DEF RecordGain, Continue, Goto, TypeOK, Labels, GoalInv, Starting, Config,
         audio
<1>2. GoalInv'
  BY EngineAssumption, ConfigAssumption
     DEF RecordGain, Continue, Goto, TypeOK, Labels, GoalInv, Starting, InCall,
         audio
<1>3. ASSUME ~overlapped'
      PROVE  CallInv' /\ DeviceInv' /\ SettingsInv'
  <2>0. ~overlapped /\ CallInv /\ DeviceInv /\ SettingsInv
    BY <1>3 DEF RecordGain, Continue, Goto, TypeOK
  <2>1. CallInv'
    BY <1>3, <2>0, EngineAssumption
       DEF RecordGain, Continue, Goto, TypeOK, GoalInv, CallInv, Releasing,
           Starting, InCall
  <2>2. DeviceInv'
    BY <1>3, <2>0, EngineAssumption
       DEF RecordGain, Continue, Goto, TypeOK, CallInv, DeviceInv, There, Gone,
           Devices, Releasing, Starting, InCall, audio
  <2>3. SettingsInv'
    BY <1>3, <2>0, EngineAssumption
       DEF RecordGain, Continue, Goto, TypeOK, CallInv, DeviceInv, SettingsInv,
           Gone, Kinds, Releasing, Starting, InCall, audio
  <2> QED
    BY <2>1, <2>2, <2>3
<1> QED
  BY <1>1, <1>2, <1>3

\* ... and the devices started ...
LEMMA StartCaptureStep ==
  ASSUME EngineInv, NEW c \in Callers, StartCapture(c)
  PROVE  EngineInv'
<1> USE DEF EngineInv
<1>1. TypeOK'
  BY EngineAssumption, ConfigAssumption
     DEF StartCapture, Continue, Fail, Goto, TypeOK, Labels, GoalInv, Starting,
         Config, settings
<1>2. GoalInv'
  BY EngineAssumption, ConfigAssumption
     DEF StartCapture, Continue, Fail, Goto, TypeOK, Labels, GoalInv, Starting,
         InCall
<1>3. ASSUME ~overlapped'
      PROVE  CallInv' /\ DeviceInv' /\ SettingsInv'
  <2>0. ~overlapped /\ CallInv /\ DeviceInv /\ SettingsInv
    BY <1>3 DEF StartCapture, Continue, Fail, Goto, TypeOK
  <2>1. CallInv'
    BY <1>3, <2>0, EngineAssumption
       DEF StartCapture, Continue, Fail, Goto, TypeOK, GoalInv, CallInv, Releasing,
           Starting, InCall
  <2>2. DeviceInv'
    BY <1>3, <2>0, EngineAssumption
       DEF StartCapture, Continue, Fail, Goto, TypeOK, CallInv, DeviceInv, There,
           Gone, Devices, Releasing, Starting, InCall
  <2>3. SettingsInv'
    BY <1>3, <2>0, EngineAssumption
       DEF StartCapture, Continue, Fail, Goto, TypeOK, CallInv, DeviceInv,
           SettingsInv, Gone, Kinds, Releasing, Starting, InCall, settings
  <2> QED
    BY <2>1, <2>2, <2>3
<1> QED
  BY <1>1, <1>2, <1>3

\* ... one after the other.
LEMMA StartPlaybackStep ==
  ASSUME EngineInv, NEW c \in Callers, StartPlayback(c)
  PROVE  EngineInv'
<1> USE DEF EngineInv
<1>1. TypeOK'
  <2>1. /\ mutex' \in Callers \cup {None} /\ pc' \in [Callers -> Labels]
        /\ goal' \in [Callers -> Configs \cup {None}]
    BY CallTypes DEF StartPlayback, Labels
  <2>2. device' \in [Devices -> {"none", "ready", "started"}]
    BY DEF StartPlayback, TypeOK, Devices
  <2>3. running' \in BOOLEAN
    BY DEF StartPlayback, TypeOK
  <2> QED
    BY <2>1, <2>2, <2>3 DEF StartPlayback, TypeOK, settings
<1>2. GoalInv'
  BY EngineAssumption, ConfigAssumption
     DEF StartPlayback, Fail, Return, Goto, Ending, TypeOK, Labels, GoalInv,
         Starting, InCall
<1>3. ASSUME ~overlapped'
      PROVE  CallInv' /\ DeviceInv' /\ SettingsInv'
  <2>0. ~overlapped /\ CallInv /\ DeviceInv /\ SettingsInv
    BY <1>3 DEF StartPlayback, Fail, Return, Goto, Ending, TypeOK
  <2>1. CallInv'
    BY <1>3, <2>0, EngineAssumption
       DEF StartPlayback, Fail, Return, Goto, Ending, TypeOK, GoalInv, CallInv,
           Releasing, Starting, InCall
  <2>2. DeviceInv'
    <3>0. \A o \in Callers \ {c} : ~InCall(o)
      BY <2>0 DEF StartPlayback, CallInv, InCall
    <3>1. \A o \in Callers : pc[o] # "over"
      BY <2>0 DEF StartPlayback, CallInv, Releasing
    <3>2. CASE Fail(c) /\ UNCHANGED <<device, running>>
      BY <2>0, <3>0, <3>1, <3>2
         DEF StartPlayback, Fail, Goto, TypeOK, DeviceInv, There, Gone, Devices,
             Starting, InCall
    <3>3. CASE /\ device' = [device EXCEPT !["playback"] = "started"]
               /\ running' = TRUE /\ Return(c)
      <4>1. There'
        BY <2>0, <3>3 DEF StartPlayback, TypeOK, DeviceInv, There, Devices
      <4>2. c \in Unlocked => ~Ending(c)
        BY <3>1, EngineAssumption DEF Ending
      <4>3. /\ pc'[c] \in {"idle", "serving"}
            /\ \A o \in Callers \ {c} : pc'[o] = pc[o]
        BY <3>3, <4>2 DEF Return, Goto, TypeOK
      <4>4. ~leaked' /\ units' /\ context' /\ \A d \in inside' : device'[d] = "started"
        BY <2>0, <3>3, <4>1 DEF StartPlayback, TypeOK, DeviceInv, There
      <4> QED
        BY <3>0, <3>1, <4>1, <4>3, <4>4 DEF DeviceInv, InCall, Starting
    <3> QED
      BY <3>2, <3>3 DEF StartPlayback
  <2>3. SettingsInv'
    BY <1>3, <2>0, EngineAssumption
       DEF StartPlayback, Fail, Return, Goto, Ending, TypeOK, CallInv, DeviceInv,
           SettingsInv, Gone, Kinds, Releasing, Starting, InCall, settings
  <2> QED
    BY <2>1, <2>2, <2>3
<1> QED
  BY <1>1, <1>2, <1>3

-----------------------------------------------------------------------------
\* The callbacks come and go.
LEMMA CallbackStep ==
  ASSUME EngineInv, NEW d \in Devices, CallbackEnter(d) \/ CallbackLeave(d)
  PROVE  EngineInv'
<1> USE DEF EngineInv
<1>1. TypeOK'
  BY EngineAssumption, ConfigAssumption
     DEF CallbackEnter, CallbackLeave, TypeOK, Labels, GoalInv, Starting, Config,
         control, audio, settings
<1>2. GoalInv'
  BY EngineAssumption, ConfigAssumption
     DEF CallbackEnter, CallbackLeave, TypeOK, Labels, GoalInv, Starting, InCall,
         control, audio
<1>3. ASSUME ~overlapped'
      PROVE  CallInv' /\ DeviceInv' /\ SettingsInv'
  <2>0. ~overlapped /\ CallInv /\ DeviceInv /\ SettingsInv
    BY <1>3 DEF CallbackEnter, CallbackLeave, TypeOK
  <2>1. CallInv'
    BY <1>3, <2>0, EngineAssumption
       DEF CallbackEnter, CallbackLeave, TypeOK, GoalInv, CallInv, Releasing,
           Starting, InCall, control
  <2>2. DeviceInv'
    <3>1. \A e \in inside' : device[e] = "started"
      BY <2>0 DEF CallbackEnter, CallbackLeave, DeviceInv
    <3>2. Gone => Gone' /\ There' = There
      BY DEF CallbackEnter, CallbackLeave, Gone, There, audio, TypeOK
    <3>3. There => There'
      BY DEF CallbackEnter, CallbackLeave, There, audio
    <3> QED
      BY <2>0, <3>1, <3>2, <3>3
         DEF CallbackEnter, CallbackLeave, DeviceInv, InCall, control, audio
  <2>3. SettingsInv'
    BY <1>3, <2>0, EngineAssumption
       DEF CallbackEnter, CallbackLeave, TypeOK, CallInv, DeviceInv, SettingsInv,
           Gone, Kinds, Releasing, Starting, InCall, control, audio, settings
  <2> QED
    BY <2>1, <2>2, <2>3
<1> QED
  BY <1>1, <1>2, <1>3

-----------------------------------------------------------------------------
\* The invariant: what is there at each step of start() and release() while
\* calls do not overlap.
THEOREM EngineInvariant == Spec => []EngineInv
<1>1. EngineInv /\ UNCHANGED vars => EngineInv'
  BY DEF EngineInv, TypeOK, GoalInv, CallInv, DeviceInv, SettingsInv,
         There, Gone, InCall, vars, control, audio, settings
<1>2. ASSUME EngineInv, NEW c \in Callers, Release(c) \/ Start(c)
      PROVE  EngineInv'
  BY <1>2, UninitCaptureStep, UninitPlaybackStep, ResetStep, LoadModelStep,
     LoadCabStep, CreateUnitsStep, InitCaptureStep, InitPlaybackStep,
     RecordGainStep, StartCaptureStep, StartPlaybackStep
     DEF Release, Start
<1>3. ASSUME EngineInv, NEW c \in Callers, Adjust(c)
      PROVE  EngineInv'
  BY <1>3, SetStep, ReplaceStep, RecordStep DEF Adjust
<1>4. EngineInv /\ [Next]_vars => EngineInv'
  BY <1>1, <1>2, <1>3, CallStep, ShutdownStep, CallbackStep DEF Next, Exited
<1> QED
  BY <1>4, EngineInit, PTL DEF Spec

\* No device is initialised over a live one.
THEOREM EngineOneDevicePair == Spec => []OneDevicePair
<1>1. EngineInv => OneDevicePair
  BY DEF EngineInv, TypeOK, DeviceInv, OneDevicePair
<1> QED
  BY <1>1, EngineInvariant, PTL

\* A callback finds its units.
THEOREM EngineCallbacks == Spec => []CallbackHasUnits
<1>1. EngineInv => CallbackHasUnits
  BY DEF EngineInv, TypeOK, DeviceInv, CallbackHasUnits
<1> QED
  BY <1>1, EngineInvariant, PTL

\* Between calls the engine is there or not, and at the end it is not.
THEOREM EngineAllOrNothing == Spec => []AllOrNothing
<1>1. EngineInv => AllOrNothing
  BY DEF EngineInv, DeviceInv, AllOrNothing
<1> QED
  BY <1>1, EngineInvariant, PTL

\* A stop keeps the settings.
THEOREM EngineSettings == Spec => StopKeepsSettings
<1>1. ASSUME EngineInv, Next, running, ~running', ~overlapped
      PROVE  Reported' = Reported
  <2>1. PICK c \in Callers : Reset(c)
    BY <1>1
       DEF Next, Release, Start, Adjust, Call, Shutdown, Set, Replace, Record,
           UninitCapture, UninitPlayback, Uninit, LoadModel, LoadCab, CreateUnits,
           InitCapture, InitPlayback, RecordGain, StartCapture, StartPlayback,
           CallbackEnter, CallbackLeave, Exited, vars, audio
  <2>2. units /\ requested = unit
    BY <1>1 DEF EngineInv, SettingsInv
  <2> QED
    BY <2>1, <2>2 DEF Reset, Reported, settings
<1>2. EngineInv /\ [Next]_vars =>
        [running /\ ~running' /\ ~overlapped => Reported' = Reported]_vars
  BY <1>1
<1> QED
  BY <1>2, EngineInvariant, PTL DEF Spec, StopKeepsSettings
=============================================================================
