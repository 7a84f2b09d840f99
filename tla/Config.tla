-------------------------------- MODULE Config --------------------------------
(***************************************************************************)
(* The settings of archolith_proxy (config/, and update_config of           *)
(* routers/admin_router.py): the environment, a profile that fills what the *)
(* environment leaves open, a file of overrides on top, changes by the      *)
(* operator at run time, and a copy with a session's own values for the     *)
(* requests of that session.                                                *)
(***************************************************************************)
EXTENDS Integers, Sequences, FiniteSets, SequencesExt

CONSTANTS Fields,        \* names of settings
          Flags,         \* those that are booleans; the others are numbers
          Explicit,      \* those the environment sets
          Profiles,      \* profile name -> [fields it sets -> value]
          Profile,       \* ARCHOLITH_PROFILE
          FilterHere,    \* is the filter package installed?
          Tunable,       \* TUNABLE_FIELDS
          DenyList,      \* SESSION_CONFIG_DENYLIST
          ConfigBodies,  \* bodies of update_config: sequences of <<field, value>>
          Overlays,      \* overrides a session may have, likewise
          MaxUpdates, MaxStarts, MaxSpoilt  \* bounds

ASSUME ConfigAssumption ==
  /\ Tunable \subseteq Fields
  /\ \A body \in ConfigBodies : body \in Seq(ToSet(body))
  /\ {MaxUpdates, MaxStarts, MaxSpoilt} \subseteq Nat

VARIABLES settings,   \* field -> value, or nothing before the start
          file,       \* config_overrides.json: fields it holds -> value
          serving,    \* has the process started?
          overlay,    \* the settings and the effective ones of the last request
          updates, starts, spoilt,
          due,        \* history: field -> value of its last update answered
                      \* with persisted: true
          lost        \* history: those whose file was not written, or spoilt

configVars == <<settings, file, serving, overlay, updates, starts, spoilt, due, lost>>

(* -------------------------------- values -------------------------------- *)

\* A value that JSON brings is a flag, a number, or a text that can be read as
\* one of those, or as nothing ("junk").
Value(t, v) == [type |-> t, value |-> v]
Flag(b) == Value("flag", b)
Number(n) == Value("number", n)
TypeOfField(f) == IF f \in Flags THEN "flag" ELSE "number"
Junk == Value("text", "junk")

Default(f) == IF f \in Flags THEN Flag("false") ELSE Number("0")

\* expected_type(value): any text but the empty one is a true flag, and a text
\* with digits a number; other texts raise.
Cast(f, v) ==
  IF v.type = TypeOfField(f) THEN v
  ELSE IF f \in Flags THEN Flag(IF v = Number("0") THEN "false" ELSE "true")
  ELSE IF v = Junk THEN Junk
  ELSE Number(IF v.type = "text" THEN v.value ELSE IF v.value = "true" THEN "1" ELSE "0")

\* The admin endpoint reads the texts of a flag before it casts.
Coerced(f, v) ==
  IF f \in Flags /\ v.type = "text"
  THEN IF v.value \in {"true", "false"} THEN Flag(v.value) ELSE Junk
  ELSE Cast(f, v)

(* -------------------------------- startup ------------------------------- *)

Bundle == IF Profile \in DOMAIN Profiles THEN Profiles[Profile] ELSE <<>> \* as passthrough

Environment(f) == IF f \in Explicit THEN IF f \in Flags THEN Flag("true") ELSE Number("7")
                  ELSE Default(f)

\* _apply_profile: what the environment does not set.
Profiled(f) == IF f \in DOMAIN Bundle /\ f \notin Explicit THEN Bundle[f] ELSE Environment(f)

\* Mutant of Overridden: the profile is applied on top of the overrides.
OverriddenFirst(f) ==
  IF f \in DOMAIN Bundle /\ f \notin Explicit THEN Bundle[f]
  ELSE IF f \in DOMAIN file /\ Cast(f, file[f]) # Junk THEN Cast(f, file[f]) ELSE Environment(f)

\* _apply_overrides, on top of the profile; what cannot be cast is passed over.
Overridden(f) ==
  IF f \in DOMAIN file /\ Cast(f, file[f]) # Junk THEN Cast(f, file[f]) ELSE Profiled(f)

Chosen == [f \in Fields |-> Overridden(f)]

\* model_fields_set: what the environment sets, and every field assigned since.
FieldsSet == Explicit \cup DOMAIN Bundle \cup DOMAIN file

\* The lifespan refuses to start when filtering is on and not installed, unless
\* it is on by the profile alone. _apply_profile assigns the field, so that is
\* never found to be so.
FilterFromProfile == "filter_enabled" \in DOMAIN Bundle \ FieldsSet
RefusesFilter ==
  Chosen["filter_enabled"] = Flag("true") /\ ~FilterHere /\ ~FilterFromProfile

ConfigInit ==
  /\ settings = [f \in Fields |-> Default(f)]
  /\ file = <<>>
  /\ serving = FALSE
  /\ overlay = [base |-> settings, now |-> settings]
  /\ updates = 0 /\ starts = 0 /\ spoilt = 0
  /\ due = <<>>
  /\ lost = {}

StartProcess ==
  /\ ~serving /\ starts < MaxStarts
  /\ starts' = starts + 1
  /\ serving' = ~RefusesFilter
  /\ settings' = Chosen
  /\ overlay' = [base |-> settings', now |-> settings']
  /\ UNCHANGED <<file, updates, spoilt, due, lost>>

\* The file was cut off in a write: it cannot be parsed, and is read as empty.
Spoils == spoilt < MaxSpoilt /\ spoilt' = spoilt + 1 /\ file' = <<>>

\* A process ends at any time, also inside the write of the overrides.
EndProcess(cut) ==
  /\ serving /\ serving' = FALSE
  /\ IF cut THEN file # <<>> /\ Spoils /\ lost' = DOMAIN due
     ELSE UNCHANGED <<file, spoilt, lost>>
  /\ UNCHANGED <<settings, overlay, updates, starts, due>>

(* -------------------------------- updates ------------------------------- *)

\* The entries of a body before the one that refuses the whole request.
Forbidden(e) == e[1] = "synthetic_tools_enabled"
Refused422(body) == \E i \in DOMAIN body : Forbidden(body[i])
Handled(body) ==
  IF Refused422(body)
  THEN SubSeq(body, 1, SelectInSeq(body, Forbidden) - 1) ELSE body
Accepts(e) == e[1] \in Tunable /\ Coerced(e[1], e[2]) # Junk

\* The fields that a list of entries changes, with their last values.
Accepted(entries, f) == {i \in DOMAIN entries : entries[i][1] = f /\ Accepts(entries[i])}
Changes(entries) ==
  [f \in {g \in Tunable : Accepted(entries, g) # {}} |->
     Coerced(f, entries[Max(Accepted(entries, f))][2])]

Updated(old, new) ==
  [f \in DOMAIN old \cup DOMAIN new |-> IF f \in DOMAIN new THEN new[f] ELSE old[f]]

\* What becomes of the file when it is written: an error before the first byte
\* leaves it, a later one spoils it, and both are swallowed.
Writes(new, outcome) ==
  /\ outcome # "written" => DOMAIN new # {}
  /\ IF outcome = "cut" THEN Spoils
     ELSE /\ file' = IF outcome = "written" THEN Updated(file, new) ELSE file
          /\ UNCHANGED spoilt
  /\ due' = Updated(due, new)
  /\ lost' = CASE outcome = "written" -> lost \ DOMAIN new
                [] outcome = "refused" -> lost \cup DOMAIN new
                [] OTHER               -> DOMAIN due'

\* Entries are applied one by one: those before a forbidden one stay applied,
\* in memory only, though the request is refused.
UpdateConfig(body, persist, outcome) ==
  LET new == Changes(Handled(body))
  IN  /\ serving /\ updates < MaxUpdates
      /\ updates' = updates + 1
      /\ settings' = Updated(settings, new)
      /\ IF persist /\ ~Refused422(body) THEN Writes(new, outcome)
         ELSE /\ due' = [f \in DOMAIN due \ DOMAIN new |-> due[f]]
              /\ UNCHANGED <<file, spoilt, lost>>
      /\ UNCHANGED <<serving, overlay, starts>>

\* build_effective_settings: a copy in which the session's values replace those
\* of fields that may be replaced; a text turns every flag on.
Overlaid(f, v) ==
  IF f \in DenyList \/ Cast(f, v) = Junk THEN settings[f] ELSE Cast(f, v)

Request(own) ==
  /\ serving
  /\ overlay' = [base |-> settings,
                 now |-> [f \in Fields |-> IF f \in DOMAIN own THEN Overlaid(f, own[f])
                                           ELSE settings[f]]]
  /\ UNCHANGED <<settings, file, serving, updates, starts, spoilt, due, lost>>

ConfigNext ==
  \/ StartProcess
  \/ \E cut \in BOOLEAN : EndProcess(cut)
  \/ \E body \in ConfigBodies, persist \in BOOLEAN, outcome \in {"written", "refused", "cut"} :
       UpdateConfig(body, persist, outcome)
  \/ \E own \in Overlays : Request(own)

ConfigSpec == ConfigInit /\ [][ConfigNext]_configVars

(* ------------------------------- properties ----------------------------- *)

\* routers/admin_router.py, update_config: overrides are "re-applied on the next
\* startup": a setting whose last change was answered as persisted, and written,
\* has its value in every later process, over profile and environment, whatever
\* other writes failed since, unless the file was spoilt; and no session's values
\* reach a denied field.
SettingsKept ==
  /\ serving => \A f \in DOMAIN due \ lost : settings[f] = due[f]
  /\ \A f \in DenyList \cap Fields : overlay.now[f] = overlay.base[f]

===============================================================================
