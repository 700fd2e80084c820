--------------------------- MODULE SetupModeProofs ---------------------------
(***************************************************************************)
(* That the bridge boots into the mode its settings call for, and never    *)
(* loses them in a boot, for any settings, values and firmwares.           *)
(***************************************************************************)
EXTENDS SetupMode, TLAPS

(* The history "settings" is what the sector holds, and a sector that is   *)
(* complete without it cannot come to be: defaults are never complete.     *)
Stored ==
    /\ settings # None => flash = settings
    /\ flash # Broken /\ (\A f \in Own : flash.val[f] # Blank) => settings = flash

(* Between eepromStoreLoad() and the choice of the mode.                   *)
Loaded ==
    power = "decide" =>
        /\ IsComplete(config) => settings = config
        /\ settings # None /\ settings.version = firmware =>
             config = settings /\ IsComplete(config)

(* A request is consumed by the boot it was made for.                      *)
RequestIsDue ==
    /\ rtc = "requested" => due
    /\ power \in {"normal", "setup"} => rtc # "requested"

IInv == TypeOK /\ Stored /\ Loaded /\ RequestIsDue /\ ModeFollowsSettings

-----------------------------------------------------------------------------
(* Defaults are well formed and never complete; an accepted form is well   *)
(* formed and complete.                                                    *)
LEMMA DefaultsIncomplete ==
    ASSUME TypeOK
    PROVE  /\ Defaults \in Configs /\ Defaults # Broken /\ Defaults # None
           /\ \E f \in Own : Defaults.val[f] = Blank
<1>1. [f \in Fields |-> IF f \in Own THEN Blank ELSE Default] \in [Fields -> Values \cup {Blank}]
  BY SetupAssumption
<1>2. Defaults \in Configs
  BY <1>1 DEF TypeOK, Defaults, Configs
<1>3. PICK f \in Own : TRUE
  BY SetupAssumption
<1>4. f \in Fields /\ Defaults.val[f] = Blank
  BY <1>3, SetupAssumption DEF Defaults
<1>. QED
  BY <1>2, <1>3, <1>4, SetupAssumption

LEMMA FormsComplete ==
    ASSUME TypeOK, NEW form \in Forms, Accepts(form)
    PROVE  /\ Filled(form) \in [version : Versions, val : [Fields -> Values]]
           /\ Filled(form) \in Configs /\ Filled(form) # Broken /\ Filled(form) # None
           /\ \A f \in Own : Filled(form).val[f] # Blank
<1>1. form \in [Fields -> Values]
  BY DEF Forms, Accepts
<1>2. Filled(form) \in [version : Versions, val : [Fields -> Values]]
  BY <1>1 DEF Filled, TypeOK
<1>3. Filled(form) \in Configs
  BY <1>2 DEF Configs
<1>. QED
  BY <1>1, <1>2, <1>3, SetupAssumption DEF Filled

\* Stored settings are complete.
LEMMA SettingsComplete ==
    ASSUME TypeOK, settings # None
    PROVE  settings \in Configs /\ settings # Broken /\ \A f \in Own : settings.val[f] # Blank
  BY SetupAssumption DEF TypeOK, Configs

LEMMA InitIInv == Init => IInv
<1>. SUFFICES ASSUME Init PROVE IInv
  OBVIOUS
<1>1. TypeOK
  <2>1. config \in Configs
    BY SetupAssumption DEF Init, Defaults, Configs
  <2>. QED
    BY <2>1 DEF Init, TypeOK, Modes
<1>. QED
  BY <1>1 DEF Init, IInv, Stored, Loaded, RequestIsDue, ModeFollowsSettings

-----------------------------------------------------------------------------
LEMMA TypeStep == TypeOK /\ [Next]_vars => TypeOK'
<1>. SUFFICES ASSUME TypeOK, [Next]_vars PROVE TypeOK'
  OBVIOUS
<1>. USE DEF TypeOK, Modes
<1>1. CASE PowerOn
  BY <1>1 DEF PowerOn, Restarted
<1>2. CASE Load
  <2>1. CASE IsValid(flash)
    <3>1. flash \in Configs
      BY <2>1 DEF IsValid
    <3>. QED
      BY <1>2, <2>1, <3>1 DEF Load
  <2>2. CASE ~IsValid(flash)
    BY <1>2, <2>2, DefaultsIncomplete DEF Load, Committed
  <2>. QED
    BY <2>1, <2>2
<1>3. CASE Decide
  BY <1>3 DEF Decide, Consumed
<1>4. CASE RequestSetup
  BY <1>4 DEF RequestSetup, Restarted
<1>5. CASE Reset
  BY <1>5 DEF Reset, Restarted
<1>6. CASE PowerCut
  BY <1>6 DEF PowerCut, Off
<1>7. CASE CutWhileLoading
  BY <1>7 DEF CutWhileLoading, Off
<1>8. ASSUME NEW form \in Forms, Save(form) PROVE TypeOK'
  <2>1. Accepts(form)
    BY <1>8 DEF Save
  <2>. QED
    BY <1>8, <2>1, FormsComplete DEF Save, Restarted, Committed, Kept
<1>9. ASSUME NEW form \in Forms, CutWhileSaving(form) PROVE TypeOK'
  <2>1. Accepts(form)
    BY <1>9 DEF CutWhileSaving
  <2>. QED
    BY <1>9, <2>1, FormsComplete DEF CutWhileSaving, Off, Committed, Kept
<1>10. ASSUME NEW version \in Versions, Update(version) PROVE TypeOK'
  BY <1>10 DEF Update, Restarted
<1>11. CASE UNCHANGED vars
  BY <1>11 DEF vars
<1>. QED
  BY <1>1, <1>2, <1>3, <1>4, <1>5, <1>6, <1>7, <1>8, <1>9, <1>10, <1>11 DEF Next

LEMMA StoredStep == TypeOK /\ Stored /\ [Next]_vars => Stored'
<1>. SUFFICES ASSUME TypeOK, Stored, [Next]_vars PROVE Stored'
  OBVIOUS
<1>1. CASE UNCHANGED <<flash, settings>>
  BY <1>1 DEF Stored
<1>2. CASE Load
  <2>1. CASE IsValid(flash)
    BY <1>1, <1>2, <2>1 DEF Load
  <2>2. CASE ~IsValid(flash) /\ flash' = flash
    BY <1>1, <1>2, <2>2 DEF Load
  <2>3. CASE ~IsValid(flash) /\ flash' # flash
    <3>1. settings' = None /\ flash' \in {Broken, Defaults}
      BY <1>2, <2>3 DEF Load, Committed
    <3>. QED
      BY <3>1, DefaultsIncomplete DEF Stored
  <2>. QED
    BY <2>1, <2>2, <2>3
<1>3. CASE CutWhileLoading
  BY <1>3 DEF CutWhileLoading, Stored
<1>4. ASSUME NEW form \in Forms, Save(form) \/ CutWhileSaving(form) PROVE Stored'
  <2>1. Accepts(form)
    BY <1>4 DEF Save, CutWhileSaving
  <2>2. flash' \in {flash, Broken, Filled(form)} /\ settings' = Kept(Filled(form))
    BY <1>4 DEF Save, CutWhileSaving, Committed
  <2>3. CASE flash' = Filled(form)
    BY <2>1, <2>2, <2>3, FormsComplete DEF Kept, Stored
  <2>4. CASE flash' = flash /\ flash' # Filled(form)
    BY <2>2, <2>4 DEF Kept, Stored
  <2>5. CASE flash' = Broken /\ flash' # flash /\ flash' # Filled(form)
    BY <2>2, <2>5 DEF Kept, Stored
  <2>. QED
    BY <2>2, <2>3, <2>4, <2>5
<1>. QED
  BY <1>1, <1>2, <1>3, <1>4
     DEF Next, PowerOn, Decide, RequestSetup, Reset, PowerCut, Update, vars

LEMMA RequestStep == RequestIsDue /\ [Next]_vars => RequestIsDue'
  BY DEF RequestIsDue, Next, PowerOn, Restarted, Load, Decide, Consumed, RequestSetup, Save,
         Update, Reset, PowerCut, CutWhileLoading, CutWhileSaving, Off, vars

(* Load is the only step that ends before the decision.                    *)
LEMMA LoadedStep == TypeOK /\ Stored /\ Loaded /\ [Next]_vars => Loaded'
<1>. SUFFICES ASSUME TypeOK, Stored, Loaded, [Next]_vars, power' = "decide"
              PROVE  Loaded'
  BY DEF Loaded
<1>1. CASE Load
  <2>1. CASE IsValid(flash)
    <3>1. config' = flash /\ flash # Broken /\ settings' = settings /\ firmware' = firmware
      BY <1>1, <2>1 DEF Load, IsValid
    <3>2. IsComplete(config)' => settings' = config'
      BY <3>1 DEF IsComplete, Stored
    <3>3. ASSUME settings' # None, settings'.version = firmware'
          PROVE  config' = settings' /\ IsComplete(config)'
      BY <3>1, <3>3, SettingsComplete DEF IsComplete, IsValid, Stored
    <3>. QED
      BY <3>2, <3>3 DEF Loaded
  <2>2. CASE ~IsValid(flash)
    <3>1. config' = Defaults /\ firmware' = firmware
      BY <1>1, <2>2 DEF Load
    <3>2. ~IsComplete(config)'
      BY <3>1, DefaultsIncomplete DEF IsComplete
    <3>3. ~(settings' # None /\ settings'.version = firmware')
      BY <1>1, <2>2, <3>1, SettingsComplete DEF Load, Stored, IsValid
    <3>. QED
      BY <3>2, <3>3 DEF Loaded
  <2>. QED
    BY <2>1, <2>2
<1>2. CASE UNCHANGED vars
  BY <1>2 DEF vars, Loaded, IsComplete, IsValid
<1>. QED
  BY <1>1, <1>2
     DEF Next, PowerOn, Restarted, Decide, RequestSetup, Reset, PowerCut, CutWhileLoading,
         Save, CutWhileSaving, Off, Update

(* The mode is chosen in Decide, and nothing it depends on changes until   *)
(* the next boot.                                                          *)
LEMMA ModeStep == IInv /\ [Next]_vars => ModeFollowsSettings'
<1>. SUFFICES ASSUME IInv, [Next]_vars PROVE ModeFollowsSettings'
  OBVIOUS
<1>1. CASE Decide
  <2>1. CASE power' = "normal"
    <3>1. IsComplete(config) /\ UNCHANGED <<settings, config>>
      BY <1>1, <2>1 DEF Decide
    <3>2. settings = config /\ config # None
      BY <1>1, <3>1, SetupAssumption DEF Decide, IInv, Loaded, TypeOK
    <3>. QED
      BY <2>1, <3>1, <3>2 DEF ModeFollowsSettings
  <2>2. CASE power' = "setup"
    <3>1. ~IsComplete(config) \/ rtc = "requested"
      BY <1>1, <2>2 DEF Decide
    <3>2. settings = None \/ settings.version # firmware \/ due
      BY <1>1, <3>1 DEF Decide, IInv, Loaded, RequestIsDue
    <3>. QED
      BY <1>1, <2>2, <3>2 DEF Decide, ModeFollowsSettings
  <2>. QED
    BY <1>1, <2>1, <2>2 DEF Decide, ModeFollowsSettings
<1>2. CASE UNCHANGED vars
  BY <1>2 DEF vars, IInv, ModeFollowsSettings
<1>. QED
  BY <1>1, <1>2
     DEF Next, PowerOn, Restarted, Load, RequestSetup, Reset, PowerCut, CutWhileLoading,
         Save, CutWhileSaving, Off, Update, ModeFollowsSettings

LEMMA InductiveInvariant == Spec => []IInv
<1>1. IInv /\ [Next]_vars => IInv'
  BY TypeStep, StoredStep, LoadedStep, RequestStep, ModeStep DEF IInv
<1>. QED
  BY InitIInv, <1>1, PTL DEF Spec

-----------------------------------------------------------------------------
(* setup(), the form and the two ways into Setup Mode keep the sector, the *)
(* request and the settings in use well formed.                            *)
THEOREM TypeCorrect == Spec => []TypeOK
<1>1. IInv => TypeOK
  BY DEF IInv
<1>. QED
  BY <1>1, InductiveInvariant, PTL

(* Through every power cut, failed write, upload and reset: normal         *)
(* operation only with the settings stored last, Setup Mode only without   *)
(* settings or on request.                                                 *)
THEOREM RightMode == Spec => []ModeFollowsSettings
<1>1. IInv => ModeFollowsSettings
  BY DEF IInv
<1>. QED
  BY <1>1, InductiveInvariant, PTL

(* No step of a boot loses settings the running firmware can read.         *)
THEOREM BootKeepsSettings == Spec => SettingsSurvive
<1>1. ASSUME IInv, [Next]_vars
      PROVE  settings # None /\ settings.version = firmware /\ settings' # settings
                => power = "setup"
  <2>. SUFFICES ASSUME settings # None, settings.version = firmware, settings' # settings
                PROVE  power = "setup"
    OBVIOUS
  <2>1. IsValid(flash)
    BY <1>1, SettingsComplete DEF IInv, Stored, IsValid
  <2>. QED
    BY <1>1, <2>1
       DEF Next, PowerOn, Load, Decide, RequestSetup, Reset, PowerCut, CutWhileLoading,
           Save, CutWhileSaving, Update, vars
<1>2. IInv /\ [Next]_vars
        => [settings # None /\ settings.version = firmware /\ settings' # settings
              => power = "setup"]_vars
  BY <1>1
<1>. QED
  BY <1>2, InductiveInvariant, PTL DEF Spec, SettingsSurvive
=============================================================================
