------------------------------- MODULE SetupMode -------------------------------
(***************************************************************************)
(* What the bridge is configured with and which of its two modes it boots  *)
(* into: the settings in EEPROM (one flash sector, rewritten as a whole),  *)
(* the one-shot request in RTC memory, the web form of Setup Mode, and the *)
(* boot sequence of setup() that reads them.  Power can go at any moment,  *)
(* between the steps of a boot and in the middle of a write; a write can   *)
(* fail; another firmware can be uploaded.  Settings are kept as groups of *)
(* fields that are filled in, checked and lost together.                   *)
(*                                                                         *)
(* A sector that was not written to its end is taken to fail the test of   *)
(* magic, version and checksum (2^-16 of the torn ones would not).         *)
(***************************************************************************)
EXTENDS Naturals

CONSTANTS
    Fields,         \* groups of settings
    Own,            \* those without a default: the bridge's address
    Values,         \* what a valid field holds; Default is one of them
    Default,        \* config.h, wifi_credentials.local.h
    Versions,       \* EEPROM_CONFIG_VERSION of the firmwares there are
    Blank, Missing, Malformed,
    Broken,         \* a sector that is erased or torn
    None

Configs == [version : Versions, val : [Fields -> Values \cup {Blank}]]
Forms == [Fields -> Values \cup {Missing, Malformed}]

ASSUME SetupAssumption ==
    /\ Own \subseteq Fields /\ Own # {} /\ Default \in Values
    /\ {Blank, Missing, Malformed} \cap Values = {}
    /\ Broken \notin Configs /\ None \notin Configs

VARIABLES
    power,      \* "off", or how far setup() is: "boot", "decide", "normal", "setup"
    firmware,   \* EEPROM_CONFIG_VERSION of the program
    flash,      \* the EEPROM sector
    rtc,        \* RtcSetupFlag in RTC user memory
    config,     \* g_config
    settings,   \* history: the form stored last, with its version, if not lost since
    due         \* history: Setup Mode was asked for by the restart before this boot

vars == <<power, firmware, flash, rtc, config, settings, due>>

Modes == {"off", "boot", "decide", "normal", "setup"}

-----------------------------------------------------------------------------
\* eepromConfigLoadDefaults()
Defaults == [version |-> firmware,
             val |-> [f \in Fields |-> IF f \in Own THEN Blank ELSE Default]]
\* eepromConfigIsValid(), eepromConfigIsComplete()
IsValid(c) == c # Broken /\ c.version = firmware
IsComplete(c) == IsValid(c) /\ \A f \in Own : c.val[f] # Blank

(* commit() erases the sector and writes it; a power cut or an error can   *)
(* leave it as it was, broken, or written.                                 *)
Committed(old, c) == {old, Broken, c}

\* consumeSetupModeRequest(), and the slip of a request that stays.
ConsumedStays == rtc
Consumed == IF rtc = "requested" THEN "cleared" ELSE rtc

\* validateAndApplyField() for every required field, and a form without all.
IgnoresMissing(form) == \A f \in Fields : form[f] # Malformed    \* slip
Accepts(form) == \A f \in Fields : form[f] \in Values

-----------------------------------------------------------------------------
Restarted == power' = "boot"

PowerOn ==
    /\ power = "off"
    /\ Restarted
    /\ rtc' = "garbage" /\ due' = FALSE
    /\ UNCHANGED <<firmware, flash, config, settings>>

\* eepromStoreLoad(): defaults replace what is not valid, in flash too.
Load ==
    /\ power = "boot"
    /\ power' = "decide"
    /\ IF IsValid(flash)
       THEN config' = flash /\ UNCHANGED <<flash, settings>>
       ELSE /\ config' = Defaults
            /\ flash' \in Committed(flash, Defaults)
            /\ settings' = IF flash' = flash THEN settings ELSE None
    /\ UNCHANGED <<firmware, rtc, due>>

\* The rest of setup().
Decide ==
    /\ power = "decide"
    /\ rtc' = Consumed
    /\ power' = IF ~IsComplete(config) \/ rtc = "requested" THEN "setup" ELSE "normal"
    /\ UNCHANGED <<firmware, flash, config, settings, due>>

\* checkSetupButton(), checkWifiFallback(): the button is held, or WiFi away
\* for five minutes.
RequestSetup ==
    /\ power = "normal"
    /\ rtc' = "requested" /\ due' = TRUE
    /\ Restarted
    /\ UNCHANGED <<firmware, flash, config, settings>>

\* A field that is missing or not valid leaves the old value in `updated'.
Filled(form) ==
    [version |-> firmware,
     val |-> [f \in Fields |-> IF form[f] \in Values THEN form[f] ELSE config.val[f]]]
Kept(saved) == CASE flash' = saved -> saved [] flash' = flash -> settings [] OTHER -> None

(* handleSave(): all fields or none, then a restart, whatever came of the  *)
(* write.  A form that is not accepted changes nothing.                    *)
Save(form) ==
    LET saved == Filled(form) IN
    /\ power = "setup"
    /\ Accepts(form)
    /\ config' = saved
    /\ flash' \in Committed(flash, saved)
    /\ settings' = Kept(saved)
    /\ Restarted /\ due' = FALSE
    /\ UNCHANGED <<firmware, rtc>>

\* ESP8266HTTPUpdateServer restarts into the program it has received.
Update(version) ==
    /\ power = "setup"
    /\ firmware' = version
    /\ Restarted /\ due' = FALSE
    /\ UNCHANGED <<flash, rtc, config, settings>>

\* A crash, the watchdog or the reset button: RTC memory stays.
Reset ==
    /\ power # "off"
    /\ Restarted
    /\ due' = (rtc = "requested")
    /\ UNCHANGED <<firmware, flash, rtc, config, settings>>

(* Power fails, perhaps during the write of Load or Save.                  *)
Off == power' = "off" /\ rtc' = "garbage" /\ due' = FALSE /\ UNCHANGED <<firmware, config>>
PowerCut ==
    /\ power # "off"
    /\ Off /\ UNCHANGED <<flash, settings>>
CutWhileLoading ==
    /\ power = "boot" /\ ~IsValid(flash)
    /\ Off /\ flash' = Broken /\ settings' = None
CutWhileSaving(form) ==
    /\ power = "setup" /\ Accepts(form)
    /\ Off
    /\ flash' \in Committed(flash, Filled(form))
    /\ settings' = Kept(Filled(form))

-----------------------------------------------------------------------------
Init ==
    /\ power = "off"
    /\ firmware \in Versions
    /\ flash = Broken /\ rtc = "garbage"
    /\ config = Defaults
    /\ settings = None /\ due = FALSE

Next ==
    \/ PowerOn \/ Load \/ Decide \/ RequestSetup \/ Reset \/ PowerCut \/ CutWhileLoading
    \/ \E form \in Forms : Save(form) \/ CutWhileSaving(form)
    \/ \E version \in Versions : Update(version)

Spec == Init /\ [][Next]_vars

-----------------------------------------------------------------------------
TypeOK ==
    /\ power \in Modes /\ firmware \in Versions
    /\ flash \in Configs \cup {Broken} /\ config \in Configs
    /\ rtc \in {"garbage", "requested", "cleared"}
    /\ settings \in [version : Versions, val : [Fields -> Values]] \cup {None} /\ due \in BOOLEAN

(* Whatever power cuts, failed writes, uploads and resets came before: the *)
(* bridge runs with exactly the settings that were stored last, all of     *)
(* them from one form; and it is in Setup Mode only if there are none, or  *)
(* if the restart before this boot asked for it, so that a request never   *)
(* comes up a second time.                                                 *)
ModeFollowsSettings ==
    /\ power = "normal" => settings # None /\ config = settings
    /\ power = "setup" => settings = None \/ settings.version # firmware \/ due

(* No boot loses them: stored settings of the running firmware disappear   *)
(* only while they are being replaced in Setup Mode.                       *)
SettingsSurvive ==
    [][settings # None /\ settings.version = firmware /\ settings' # settings
          => power = "setup"]_vars
=============================================================================
