------------------------------ MODULE AcpOptions ------------------------------
(***************************************************************************)
(* What the user sets for the sessions of the desktop chat, and what a     *)
(* turn makes of it: acp/provider.py (new_session, set_mode,               *)
(* set_config_option, the handler of the gear menu), the arguments of      *)
(* EmbeddedRuntime.run_turn.  The handler runs on the thread of the        *)
(* window, set_mode where the client calls it, a turn on the loop of the   *)
(* provider; all of them reach the same session, and no lock is held: an   *)
(* assignment of one of its fields is a step, and so is a read of one.     *)
(***************************************************************************)
EXTENDS Naturals, Sequences, FiniteSets

CONSTANTS
    Profile,
    Default,  \* default_profile
    Labelled, \* the features of each profile that have a label
    Param,    \* the parameters of the model in the gear menu
    Nested    \* those kept in a dict of their own, extra_body

Feature == {"web", "temperature"}
Offered == {"on", "off", "low"}  \* for a feature that is on or off, or has choices

AcpOptionsAssumption ==
    /\ Default \in Profile /\ Labelled \in [Profile -> SUBSET Feature]
    /\ "none" \notin Profile /\ Nested \subseteq Param

VARIABLES
    session,  \* profile, config_announced, the two dicts; "none" before it exists
    switch,   \* the two who may change the profile, each at which assignment
    tangled,  \* history: the last change of profile began within another one
    seen,     \* history: the options the client was last given, and for which
              \* profile, since they were last to be announced
    geared,   \* history: features the gear menu has changed after that
    menu,     \* the features the gear menu has been given
    turn      \* the prompt, the arguments its turn has read, what it made of them

vars == <<session, switch, tangled, seen, geared, menu, turn>>

Switcher == {"mode", "gear"}    \* set_mode, and the agent of the gear menu
Absent == "absent"
Value == {"true", "false", Absent}
NoOptions == [f \in Feature |-> Absent]
Own(p) == [f \in Feature |-> IF f \in Labelled[p] THEN "false" ELSE Absent]  \* the defaults
Idle == [to |-> "none", at |-> "idle"]
NoTurn == [pc |-> "none", profile |-> "none", options |-> NoOptions, of |-> "none",
           overrides |-> {}, tuned |-> "none", live |-> {}, torn |-> FALSE]
Name == Profile \cup {"none"}
Nothing == [profile |-> "none", options |-> NoOptions]
Exists == session.profile # "none"
Calm == \A w \in Switcher : switch[w] = Idle

Reading       == {"profile", "options"}  \* some of the three are, and some are not
WithOptions   == {"options", "sent", "started", "running"}
WithOverrides == WithOptions \ {"options"}

(* The type of every variable.  `of` is the profile whose dict the options *)
(* are, `tuned` the one under which the first override was set.            *)
TypeOK ==
    /\ session \in [profile : Name, announced : BOOLEAN, options : [Feature -> Value],
                    of : Name, overrides : SUBSET Param, tuned : Name]
    /\ switch \in [Switcher -> [to : Name, at : {"idle", "options", "overrides", "announced"}]]
    /\ tangled \in BOOLEAN
    /\ seen \in [profile : Name, options : [Feature -> Value]]
    /\ geared \in SUBSET Feature /\ menu \in SUBSET Feature
    /\ turn \in [pc : {"none", "announcing", "named", "prompted"} \cup Reading \cup WithOptions,
                 profile : Name, options : [Feature -> Value], of : Name,
                 overrides : SUBSET Param, tuned : Name,
                 live : SUBSET {"options", "overrides", "nested"},  \* dicts shared with the session
                 torn : BOOLEAN]

(* _build_settings_items: the parameters, and the labelled features of one *)
(* profile, all of them as toggles.                                        *)
SettingsItems(p) == Labelled[p]

Init ==
    /\ session = [profile |-> "none", announced |-> FALSE, options |-> NoOptions,
                  of |-> "none", overrides |-> {}, tuned |-> "none"]
    /\ switch = [w \in Switcher |-> Idle] /\ tangled = FALSE
    /\ seen = Nothing
    /\ geared = {} /\ menu = SettingsItems(Default)
    /\ turn = NoTurn

-----------------------------------------------------------------------------
(* new_session, or the first prompt of a thread nobody announced.          *)
NewSession ==
    /\ ~Exists
    /\ session' = [profile |-> Default, announced |-> FALSE, options |-> Own(Default),
                   of |-> Default, overrides |-> {}, tuned |-> "none"]
    /\ UNCHANGED <<switch, tangled, seen, geared, menu, turn>>

(* _config_options_for: the labelled features of the profile, each with    *)
(* what the session has for it, or its default.                            *)
ConfigOptions(p, options) ==
    [f \in Feature |-> IF f \notin Labelled[p] THEN Absent
                       ELSE IF options[f] = Absent THEN "false" ELSE options[f]]

(* A prompt announces them once, until the profile changes: the flag is    *)
(* set first ...                                                           *)
Prompt ==
    /\ Exists /\ turn.pc = "none"
    /\ session' = [session EXCEPT !.announced = TRUE]
    /\ turn' = [turn EXCEPT !.pc = IF session.announced THEN "prompted" ELSE "announcing"]
    /\ UNCHANGED <<switch, tangled, seen, geared, menu>>

(* ... then the profile is read, and its options, which the client is      *)
(* given if there are any.                                                 *)
ReadMode ==
    /\ turn.pc = "announcing"
    /\ turn' = [turn EXCEPT !.pc = "named", !.profile = session.profile]
    /\ UNCHANGED <<session, switch, tangled, seen, geared, menu>>

Announce ==
    /\ turn.pc = "named"
    /\ turn' = [turn EXCEPT !.pc = "prompted", !.profile = "none"]
    /\ IF Labelled[turn.profile] = {} THEN UNCHANGED <<seen, geared>>
       ELSE /\ seen' = [profile |-> turn.profile,
                        options |-> ConfigOptions(turn.profile, session.options)]
            /\ geared' = {}
    /\ UNCHANGED <<session, switch, tangled, menu>>

(* The client may close the stream where it is given them.                 *)
LeavePrompt ==
    /\ turn.pc = "prompted"
    /\ turn' = NoTurn
    /\ UNCHANGED <<session, switch, tangled, seen, geared, menu>>

(* A dict is changed where it is, for the turn too that has not left it.   *)
Set(f, value) ==
    /\ session' = [session EXCEPT !.options[f] = value]
    /\ turn' = IF "options" \in turn.live THEN [turn EXCEPT !.options[f] = value] ELSE turn

(* set_config_option returns them too, after it has stored whether the     *)
(* value is "on", of whatever option.                                      *)
SetConfigOption(f, v) ==
    /\ Exists /\ f \in Labelled[session.profile]
    /\ Set(f, IF v = "on" THEN "true" ELSE "false")
    /\ seen' = [profile |-> session.profile,
                options |-> ConfigOptions(session.profile, session'.options)]
    /\ geared' = {}
    /\ UNCHANGED <<switch, tangled, menu>>

(* set_mode, or the agent of the gear menu, for each session that exists:  *)
(* the profile first ...                                                   *)
SwitchProfile(w, p) ==
    /\ Exists /\ switch[w] = Idle
    /\ session' = [session EXCEPT !.profile = p]
    /\ switch' = [switch EXCEPT ![w] = [to |-> p, at |-> "options"]]
    /\ tangled' = ~Calm
    /\ turn' = [turn EXCEPT !.torn = @ \/ turn.pc \in Reading]
    /\ UNCHANGED <<seen, geared, menu>>

(* Mutant: the options are changed in place.                               *)
SwitchOptions_InPlace(w) ==
    /\ switch[w].at = "options"
    /\ session' = [session EXCEPT !.options = Own(switch[w].to), !.of = switch[w].to]
    /\ turn' = [turn EXCEPT !.options = IF "options" \in turn.live THEN Own(switch[w].to) ELSE @]
    /\ switch' = [switch EXCEPT ![w].at = "overrides"]
    /\ UNCHANGED <<tangled, seen, geared, menu>>

(* ... then new dicts in place of the old ones, which a turn may keep ...  *)
SwitchOptions(w) ==
    /\ switch[w].at = "options"
    /\ session' = [session EXCEPT !.options = Own(switch[w].to), !.of = switch[w].to]
    /\ turn' = [turn EXCEPT !.live = @ \ {"options"}]
    /\ switch' = [switch EXCEPT ![w].at = "overrides"]
    /\ UNCHANGED <<tangled, seen, geared, menu>>

SwitchOverrides(w) ==
    /\ switch[w].at = "overrides"
    /\ session' = [session EXCEPT !.overrides = {}, !.tuned = "none"]
    /\ turn' = [turn EXCEPT !.live = @ \ {"overrides", "nested"}]
    /\ switch' = [switch EXCEPT ![w].at = "announced"]
    /\ UNCHANGED <<tangled, seen, geared, menu>>

(* What the gear menu is given after its own change; nothing takes an item *)
(* away again.                                                             *)
MenuAfter(w, p) == IF w = "gear" THEN menu \cup SettingsItems(p) ELSE menu

(* ... and the options are to be announced again.                          *)
SwitchDone(w) ==
    /\ switch[w].at = "announced"
    /\ session' = [session EXCEPT !.announced = FALSE]
    /\ menu' = MenuAfter(w, switch[w].to)
    /\ switch' = [switch EXCEPT ![w] = Idle]
    /\ seen' = Nothing /\ geared' = {}
    /\ UNCHANGED <<tangled, turn>>

(* The gear menu changes the agent before there is a session: the session  *)
(* to come begins with the default.                                        *)
SwitchMenu(p) ==
    /\ ~Exists
    /\ menu' = MenuAfter("gear", p)
    /\ UNCHANGED <<session, switch, tangled, seen, geared, turn>>

(* The gear menu changes a feature it was given, whoever's it is, or a     *)
(* parameter, of the turn too that shares the dict it is in.               *)
GearFeature(f, value) ==
    /\ Exists /\ f \in menu
    /\ Set(f, value)
    /\ geared' = IF seen = Nothing THEN geared ELSE geared \cup {f}
    /\ UNCHANGED <<switch, tangled, seen, menu>>

Shared(k) == "overrides" \in turn.live \/ (k \in Nested /\ "nested" \in turn.live)

GearParam(k) ==
    /\ Exists
    /\ session' = [session EXCEPT !.overrides = @ \cup {k},
                                  !.tuned = IF @ = "none" THEN session.profile ELSE @]
    /\ turn' = IF Shared(k) THEN [turn EXCEPT !.overrides = @ \cup {k}] ELSE turn
    /\ UNCHANGED <<switch, tangled, seen, geared, menu>>

-----------------------------------------------------------------------------
(* The call of run_turn reads its arguments one after the other: the name  *)
(* of the profile ...                                                      *)
ReadProfile ==
    /\ turn.pc = "prompted"
    /\ turn' = [turn EXCEPT !.pc = "profile", !.profile = session.profile,
                            !.torn = ~Calm \/ tangled]
    /\ UNCHANGED <<session, switch, tangled, seen, geared, menu>>

(* ... the options ...                                                     *)
ReadOptions ==
    /\ turn.pc = "profile"
    /\ turn' = [turn EXCEPT !.pc = "options", !.options = session.options, !.of = session.of,
                            !.live = {"options"}]
    /\ UNCHANGED <<session, switch, tangled, seen, geared, menu>>

(* ... and the overrides, only when there are some.                        *)
SendTurn ==
    /\ turn.pc = "options"
    /\ turn' = [turn EXCEPT !.pc = "sent", !.overrides = session.overrides,
                            !.tuned = session.tuned,
                            !.live = IF session.overrides = {} THEN @ ELSE @ \cup {"overrides"}]
    /\ UNCHANGED <<session, switch, tangled, seen, geared, menu>>

(* The overrides are merged after the runtime has started, a dict within   *)
(* them as it is ...                                                       *)
StartTurn ==
    /\ turn.pc = "sent"
    /\ turn' = [turn EXCEPT !.pc = "started",
                            !.live = IF "overrides" \in @ /\ turn.overrides \cap Nested # {}
                                     THEN (@ \ {"overrides"}) \cup {"nested"}
                                     ELSE @ \ {"overrides"}]
    /\ UNCHANGED <<session, switch, tangled, seen, geared, menu>>

(* ... and the options copied after the user and the uploads ...           *)
RunTurn ==
    /\ turn.pc = "started"
    /\ turn' = [turn EXCEPT !.pc = "running", !.live = @ \ {"options"}]
    /\ UNCHANGED <<session, switch, tangled, seen, geared, menu>>

(* ... before the model is made of the profile.                            *)
EndTurn ==
    /\ turn.pc = "running"
    /\ turn' = NoTurn
    /\ UNCHANGED <<session, switch, tangled, seen, geared, menu>>

Next ==
    \/ NewSession
    \/ Prompt \/ ReadMode \/ Announce \/ LeavePrompt
    \/ ReadProfile \/ ReadOptions \/ SendTurn \/ StartTurn \/ RunTurn \/ EndTurn
    \/ \E f \in Feature, v \in Offered : SetConfigOption(f, v)
    \/ \E w \in Switcher, p \in Profile : SwitchProfile(w, p)
    \/ \E w \in Switcher : SwitchOptions(w) \/ SwitchOverrides(w) \/ SwitchDone(w)
    \/ \E p \in Profile : SwitchMenu(p)
    \/ \E f \in Feature, value \in {"true", "false"} : GearFeature(f, value)
    \/ \E k \in Param : GearParam(k)

Spec == Init /\ [][Next]_vars

-----------------------------------------------------------------------------
(* Whatever it meets, a turn has the options of one profile, all of them,  *)
(* although it reads them after it has waited: a change of profile leaves  *)
(* it the dicts it began with.  They, and the overrides, are those of the  *)
(* profile it runs, unless it was sent within a change of profile, or      *)
(* after two changes at once had left the session with a mixture.          *)
TurnIsOfOneProfile ==
    /\ turn.pc \in WithOptions => \A f \in Labelled[turn.of] : turn.options[f] # Absent
    /\ turn.pc \in WithOptions /\ ~turn.torn => turn.of = turn.profile
    /\ turn.pc \in WithOverrides /\ ~turn.torn => turn.tuned \in {"none", turn.profile}

(* What the client was given as the options of its session is what they    *)
(* are, but for those the gear menu has changed since, and however changes *)
(* of profile met: the last to end has them announced again.               *)
AnnouncedIsCurrent ==
    session.announced /\ Calm /\ turn.pc \notin {"announcing", "named"}
        /\ Labelled[session.profile] # {} =>
        /\ seen.profile = session.profile
        /\ \A f \in Feature \ geared :
              seen.options[f] = ConfigOptions(session.profile, session.options)[f]
=============================================================================
