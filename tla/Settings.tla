------------------------------- MODULE Settings -------------------------------
(***************************************************************************)
(* From the sections of the configuration document and the environment to  *)
(* the settings of a run (core/config/schema.py and coercion.py,           *)
(* common/config_utils.py).  A section is a record that has the keys that  *)
(* were written.  None is a value nobody gave, null and the empty string   *)
(* among them; Bad is one that is not of the type that is asked for.       *)
(***************************************************************************)
EXTENDS Integers, Sequences, FiniteSets

CONSTANTS
  None, Bad,
  Env,             \* the environment: a record like any section
  Knobs,           \* of each knob of the algorithm its kind and its default
  Defaults,        \* settings where nothing is configured, by name
  SessionMinutes,  \* TRADING_MINUTES_PER_DAY
  LegacyGrid       \* LEGACY_BAR_MINUTES

ASSUME SettingsAssumption == /\ SessionMinutes \in Nat \ {0} /\ LegacyGrid \in Nat \ {0}
                             /\ None \notin Int /\ Bad \notin Int /\ None # Bad

Given(section, key) == IF key \in DOMAIN section THEN section[key] ELSE None

-----------------------------------------------------------------------------
(* One value *)

\* reader: the environment goes before the section and the section before the default.
\* What is Bad here ends the reading of the whole configuration.
Setting(section, key, default) ==
  LET given == IF key \in DOMAIN Env THEN Env[key] ELSE Given(section, key)
  IN  IF given = None THEN default ELSE given

\* as_int and as_float, which never fail.
Number(value, default) == IF value \in {None, Bad} THEN default ELSE value

\* as_bool: what is not recognised is not taken for true.
Flag(value, default) == IF value \in BOOLEAN THEN value ELSE default

\* parse_symbols: an empty list is an empty list, and only what is not given is the default.
SymbolsOf(value, default) == IF value \in {None, Bad} THEN default ELSE value

EnvRef(value) == IF "env" \in DOMAIN value THEN Given(Env, value.env) ELSE value.literal

\* direct_or_env: the section's own, the variable it names, or the default variable.
Credential(section, key, named, fallback) ==
  CASE Given(section, key) # None                                 -> EnvRef(section[key])
    [] Given(section, key) = None /\ Given(section, named) # None -> Given(Env, section[named])
    [] OTHER                                                      -> Given(Env, fallback)

-----------------------------------------------------------------------------
(* The knobs of an algorithm.  Horizons have been counted in bars, minutes and days. *)

\* Python's round: half goes to the even side.
Rounded(n, d) ==
  LET q == n \div d  twice == 2 * (n % d)
  IN  IF twice > d \/ (twice = d /\ q % 2 = 1) THEN q + 1 ELSE q

MinutesKnob(section, default) ==
  LET grid == Number(Given(section, "grid"), LegacyGrid)
      step == IF grid = 0 THEN LegacyGrid ELSE grid
  IN  CASE "minutes" \in DOMAIN section -> Number(section.minutes, default)
        [] "minutes" \notin DOMAIN section /\ Number(Given(section, "bars"), None) # None
             -> section.bars * step
        [] OTHER -> default

\* The newest spelling wins; one that is there and unusable gives the default.
DaysKnob(section, default) ==
  CASE "days" \in DOMAIN section -> Number(section.days, default)
    [] "days" \notin DOMAIN section /\ "horizonDays" \in DOMAIN section
         -> Number(section.horizonDays, default)
    [] DOMAIN section \cap {"days", "horizonDays", "minutes", "bars"} = {} -> default
    [] OTHER -> LET days == Rounded(MinutesKnob(section, default * SessionMinutes), SessionMinutes)
                IN  IF days < 1 THEN 1 ELSE days

\* _coercer_for: the declared type says how a value is read.
Coerced(section, knob) ==
  LET k == Knobs[knob]  value == Given(section, knob) IN
  CASE k.kind = "days"    -> DaysKnob(section, k.default)
    [] k.kind = "number"  -> Number(value, k.default)
    [] k.kind = "flag"    -> Flag(value, k.default)
    [] k.kind = "symbols" -> SymbolsOf(value, k.default)

LoadTuning(section) == [knob \in DOMAIN Knobs |-> Coerced(section, knob)]

\* tuning_section: the first of the ids, today's before the retired, that has any tuning.
TuningSection(tuning, ids) ==
  LET kept == {i \in DOMAIN ids : ids[i] \in DOMAIN tuning /\ DOMAIN tuning[ids[i]] # {}}
  IN  IF kept = {} THEN <<>> ELSE tuning[ids[CHOOSE i \in kept : \A j \in kept : i <= j]]

-----------------------------------------------------------------------------
(* Providers, and the settings as a whole *)

\* _normalize_data_sources: of two categories one that lists nobody takes the other's list.
Providers(sources, category) ==
  LET twin == [market |-> "eod", eod |-> "market", news |-> "sentiment", sentiment |-> "news"]
      own == IF category \in DOMAIN sources THEN sources[category] ELSE <<>>
      other == IF category \in DOMAIN twin /\ twin[category] \in DOMAIN sources
               THEN sources[twin[category]] ELSE <<>>
  IN  IF own = <<>> THEN other ELSE own

ProviderOrder(sources, category) ==
  LET listed == Providers(sources, category)
  IN  Setting([order |-> IF listed = <<>> THEN None ELSE listed], "order", Defaults.order)

\* The symbols that may be traded: named, or those of the default that the master list has.
Universe(listed) ==
  LET tradable == Defaults.tradable
      own == IF tradable = {} THEN Defaults.symbols ELSE Defaults.symbols \cap tradable
  IN  Setting([SYMBOLS |-> IF listed = {} THEN None ELSE listed], "SYMBOLS", own)

\* get_config, its account chosen: the sections of the account, the algorithm and the sources.
Settled(account, section, tuning, listed, sources) ==
  [account |-> account,
   key     |-> Credential(section, "key", "keyEnv", "BROKER_KEY"),
   buffer  |-> Setting(section, "buffer", Defaults.buffer),
   kill    |-> Flag(Given(Env, "KILL"), FALSE),
   minimum |-> Setting(tuning, "minimum", Defaults.minimum),
   symbols |-> Universe(listed),
   order   |-> ProviderOrder(sources, "market")]

\* A value that cannot be read, or nothing to trade, is an error.
Usable(settings) ==
  /\ \A name \in DOMAIN settings : settings[name] # Bad
  /\ settings.symbols # {}
=============================================================================
