----------------------------- MODULE ConfigStore -----------------------------
(***************************************************************************)
(* The configuration file and those who share it.  The dashboard's save    *)
(* endpoints run in a thread pool; each reads the whole YAML document,     *)
(* changes its own section and writes the whole document back through a    *)
(* temporary file and os.replace, under a lock that covers the writing     *)
(* only.  The container's start finds the file, merges the older files     *)
(* into it or copies the defaults of the image, and may die at any point.  *)
(* A trading run reads the file again at every turn: for its binding, for  *)
(* its account, for what it trades and how, and for the brokerage of that  *)
(* account.                                                                *)
(***************************************************************************)
EXTENDS Settings

CONSTANTS
  Savers,       \* threads that serve save requests
  Account,        \* ids of deployment targets
  Broker,         \* brokerages an account may be put on
  Bodies,         \* bodies posted to /api/controls
  Seeds,          \* the documents an image may ship
  Legacies,       \* what the files of before the unification may merge to
  Tunings,        \* sections of tuning posted to /api/algorithm-config
  Universes,      \* lists of symbols posted to /api/universe
  Credentials,    \* of each account the fields no endpoint changes
  Sources,        \* the providers of each category of data, changed by hand only
  MaxRequests     \* bound: save requests served


VARIABLES
  file,      \* the configuration file: NoFile, Unreadable or a document
  tmp,       \* the temporary file next to it
  legacy,    \* what the older files hold together, NoFile when there are none
  seed,      \* the document the image ships, NoFile when it ships none
  proc,      \* the process: down, starting, merging, copying or up
  lock,      \* the thread that holds _CONFIG_WRITE_LOCK
  req,       \* the save request of each thread
  run,       \* a trading run's way to its brokerage
  served     \* save requests begun, for the bound

configVars == <<file, tmp, legacy, seed, proc, lock, req, run, served>>

-----------------------------------------------------------------------------
(* Documents: the accounts with their brokers and the default account, the *)
(* controls, the tuning of one algorithm under its id and its retired id,  *)
(* and the universe.                                                       *)

NoFile     == [error |-> "missing"]
Unreadable == [error |-> "yaml"]

NoControls == [trading |-> None, bindings |-> <<>>]

EmptyDocument == [broker |-> <<>>, default |-> None, controls |-> NoControls,
                  tuning |-> <<>>, universe |-> {}]

ASSUME AccountAssumption == None \notin Account \cup Broker /\ DOMAIN Credentials = Account
ASSUME RequestAssumption == None \notin Savers
\* The id of the algorithm and the one it had before, in the order they are looked up.
Ids == <<"canonical", "retired">>

IsDocument(d) == d \notin {NoFile, Unreadable}

\* A missing file loads as an empty mapping.
Document(f) == IF f = NoFile THEN EmptyDocument ELSE f

-----------------------------------------------------------------------------
(* controls.py: from what was posted or saved to the controls that apply.  *)

\* A mutant of BindingId: the id that was sent is kept, taken or not.
BindingIdAsSent(taken, preferred) ==
  IF preferred # None THEN preferred ELSE Cardinality(taken) + 1

\* The first id that is not taken; a preferred one that is free is kept.
BindingId(taken, preferred) ==
  IF preferred # None /\ preferred \notin taken
  THEN preferred
  ELSE CHOOSE i \in 1..(Cardinality(taken) + 1) :
         i \notin taken /\ \A j \in 1..(i - 1) : j \in taken

\* The clock of a binding: no clock, the algorithm's own, or the one it names.
\* A binding of before cron has a frequency; mcp meant no clock.
BindingCron(raw) ==
  CASE raw.cron = "absent"          -> IF raw.frequency = "mcp" THEN "empty" ELSE "default"
    [] raw.cron \in {"empty", "mcp"} -> "empty"
    [] raw.cron = "unusable"         -> "default"
    [] OTHER                         -> raw.cron

SanitizeBinding(raw, taken, fallback) ==
  [id        |-> BindingId(taken, raw.id),
   account   |-> IF raw.account # None THEN raw.account ELSE fallback,
   enabled   |-> raw.enabled /\ raw.strategy # "none",
   strategy  |-> IF raw.strategy = "none" THEN "dca" ELSE raw.strategy,
   cron      |-> BindingCron(raw),
   frequency |-> "absent"]

NoBinding == [id |-> None, account |-> None, enabled |-> FALSE,
              strategy |-> "dca", cron |-> "absent", frequency |-> "absent"]

\* Each binding is given its id in the light of those before it.
SanitizeBindings(raws, fallback) ==
  LET done[i \in DOMAIN raws] ==
        SanitizeBinding(raws[i], {done[j].id : j \in 1..(i - 1)}, fallback)
  IN  done

SanitizeControls(raw) ==
  LET given    == SanitizeBindings(raw.bindings, raw.trading)
      bindings == IF given = <<>> THEN SanitizeBindings(<<NoBinding>>, raw.trading) ELSE given
  IN  [trading  |-> IF raw.trading # None THEN raw.trading ELSE bindings[1].account,
       bindings |-> bindings]

LoadControls(f) == SanitizeControls(Document(f).controls)

IsList(s) == LET n == Cardinality(DOMAIN s) IN n \in Nat /\ s = [i \in 1..n |-> s[i]]

\* Controls as save_controls leaves them.
Stored(controls) ==
  /\ IsList(controls.bindings)
  /\ \A i \in DOMAIN controls.bindings : LET b == controls.bindings[i] IN
       /\ DOMAIN b = DOMAIN NoBinding
       /\ b.id # None /\ \A j \in 1..(i - 1) : controls.bindings[j].id # b.id
       /\ b.enabled \in BOOLEAN /\ b.strategy # "none"
       /\ b.cron \notin {"absent", "mcp", "unusable"} /\ b.frequency = "absent"
  /\ controls.trading = None => controls.bindings[1].account = None

\* A document whose controls nobody has saved yet, or that came out of a save like them; its
\* tuning is under one id.
AsSaved(d) ==
  /\ d.controls.bindings = <<>> \/ Stored(d.controls)
  /\ \E id \in {"canonical", "retired"} : DOMAIN d.tuning \subseteq {id}

\* The image ships a file the dashboard has saved, as config/walbot.yaml is, and the older files
\* are what the dashboard saved then.
ASSUME DocumentAssumption ==
  \A d \in Seeds \cup Legacies : DOMAIN d = DOMAIN EmptyDocument /\ AsSaved(d)

ASSUME BodiesAssumption == \A body \in Bodies : IsList(body.bindings)

ASSUME KnobsAssumption == "horizon" \in DOMAIN Knobs /\ Knobs["horizon"].kind = "days"

-----------------------------------------------------------------------------
(* The save endpoints: the section each puts on the document it has read.  *)

WithControls(base, body) == [base EXCEPT !.controls = SanitizeControls(body)]

\* An account keeps the broker it has when the body names none.
WithAccount(base, body) ==
  LET kept == IF body.account \in DOMAIN base.broker THEN base.broker[body.account] ELSE "alpaca"
      own  == IF body.broker = None THEN kept ELSE body.broker
  IN  [base EXCEPT
        !.broker  = [a \in DOMAIN base.broker \cup {body.account} |->
                       IF a = body.account THEN own ELSE base.broker[a]],
        !.default = IF @ = None THEN body.account ELSE @]

WithoutAccount(base, body) ==
  LET left == DOMAIN base.broker \ {body.account}
  IN  [base EXCEPT
        !.broker  = [a \in left |-> base.broker[a]],
        !.default = IF @ # body.account THEN @ ELSE CHOOSE a \in left : TRUE]

\* The tuning goes back to the key it was read from.
WithTuning(base, body) ==
  LET key == IF "canonical" \notin DOMAIN base.tuning /\ "retired" \in DOMAIN base.tuning
             THEN "retired" ELSE "canonical"
  IN  [base EXCEPT !.tuning = [k \in DOMAIN base.tuning \cup {key} |->
                                 IF k = key THEN body.value ELSE base.tuning[k]]]

WithUniverse(base, body) == [base EXCEPT !.universe = body.value]

Changed(kind, base, body) ==
  CASE kind = "controls" -> WithControls(base, body)
    [] kind = "account"  -> WithAccount(base, body)
    [] kind = "delete"   -> WithoutAccount(base, body)
    [] kind = "tuning"   -> WithTuning(base, body)
    [] kind = "universe" -> WithUniverse(base, body)

\* What the endpoints may be asked, by kind.
BodiesOf(kind) ==
  CASE kind = "controls" -> Bodies
    [] kind = "account"  -> [account : Account, broker : Broker \cup {None}]
    [] kind = "delete"   -> [account : Account]
    [] kind = "tuning"   -> [value : Tunings]
    [] kind = "universe" -> [value : Universes]

Endpoints == {"controls", "account", "delete", "tuning", "universe"}

-----------------------------------------------------------------------------
NoSave   == [pc |-> "idle"]
NoRun    == [pc |-> "idle"]

ConfigInit ==
        /\ seed \in Seeds \cup {NoFile}
        /\ legacy \in Legacies \cup {NoFile}
        /\ file = NoFile /\ tmp = NoFile /\ lock = None
        /\ proc = "down" /\ served = 0
        /\ req = [r \in Savers |-> NoSave]
        /\ run = NoRun

-----------------------------------------------------------------------------
(* prepare_config, once per start of the container.                        *)

\* An existing file is left alone; older files are merged; else the defaults
\* of the image are copied, and without those the process comes up bare.
Boot == /\ proc = "down"
        /\ proc' = IF file # NoFile THEN "up"
                    ELSE IF legacy # NoFile THEN "merging"
                    ELSE IF seed # NoFile THEN "copying"
                    ELSE "up"
        /\ file' = IF proc' = "copying" THEN EmptyDocument ELSE file
        /\ UNCHANGED <<tmp, legacy, seed, lock, req, run, served>>

\* The merged document goes through the temporary file like any other save.
WriteMerged == /\ proc = "merging" /\ tmp # legacy
               /\ tmp' \in {Unreadable, legacy}
               /\ UNCHANGED <<file, legacy, seed, proc, lock, req, run, served>>

InstallMerged == /\ proc = "merging" /\ tmp = legacy
                 /\ file' = tmp /\ tmp' = NoFile /\ proc' = "up"
                 /\ UNCHANGED <<legacy, seed, lock, req, run, served>>

\* shutil.copyfile opens the target, which empties it, and then fills it: on
\* the way there it may hold something that does not load.
CopySeed == /\ proc = "copying"
            /\ \/ file' = Unreadable /\ proc' = proc
               \/ file' = seed /\ proc' = "up"
            /\ UNCHANGED <<tmp, legacy, seed, lock, req, run, served>>

\* The process dies: its threads and its lock are gone, the files stay.
Crash == /\ proc # "down"
         /\ proc' = "down" /\ lock' = None
         /\ req' = [r \in Savers |-> NoSave]
         /\ run' = NoRun
         /\ UNCHANGED <<file, tmp, legacy, seed, served>>

-----------------------------------------------------------------------------
(* A save request.                                                         *)

\* The endpoint reads the whole document; one that does not load is an error.
Load(r) == /\ proc = "up" /\ req[r].pc = "idle" /\ served < MaxRequests
           /\ \E kind \in Endpoints : \E body \in BodiesOf(kind) :
                req' = [req EXCEPT ![r] =
                  IF file = Unreadable THEN NoSave
                  ELSE [pc |-> IF kind = "delete" THEN "check" ELSE "ready",
                        kind |-> kind, body |-> body, base |-> Document(file)]]
           /\ served' = served + 1
           /\ UNCHANGED <<file, tmp, legacy, seed, proc, lock, run>>

\* A target is deleted when it exists, is not the last one and no binding names
\* it; the controls for that are read again from the file.
MayDelete(r) == LET base == req[r].base  a == req[r].body.account IN
  /\ a \in DOMAIN base.broker
  /\ Cardinality(DOMAIN base.broker) > 1
  /\ file # Unreadable
  /\ \A i \in DOMAIN LoadControls(file).bindings : LoadControls(file).bindings[i].account # a

Check(r) == /\ req[r].pc = "check"
            /\ req' = [req EXCEPT ![r] = IF MayDelete(r) THEN [@ EXCEPT !.pc = "ready"] ELSE NoSave]
            /\ UNCHANGED <<file, tmp, legacy, seed, proc, lock, run, served>>

\* A mutant of MayLock: no lock.
MayLockAnyway(r) == TRUE

MayLock(r) == lock = None

Acquire(r) == /\ req[r].pc = "ready" /\ MayLock(r)
              /\ lock' = r
              /\ req' = [req EXCEPT ![r].pc = "locked"]
              /\ UNCHANGED <<file, tmp, legacy, seed, proc, run, served>>

\* The one temporary name is emptied and filled.
WriteTmp(r) == /\ req[r].pc = "locked"
               /\ \/ tmp' = Unreadable /\ UNCHANGED req
                  \/ /\ tmp' = Changed(req[r].kind, req[r].base, req[r].body)
                     /\ req' = [req EXCEPT ![r].pc = "written"]
               /\ UNCHANGED <<file, legacy, seed, proc, lock, run, served>>

\* os.replace; the endpoint answers from a document it reads again.
Replace(r) == /\ req[r].pc = "written"
              /\ file' = tmp /\ tmp' = NoFile /\ lock' = None
              /\ req' = [req EXCEPT ![r] = NoSave]
              /\ UNCHANGED <<legacy, seed, proc, run, served>>

-----------------------------------------------------------------------------
(* A trading run of an enabled binding: which account, which brokerage.    *)

RunStart == /\ proc = "up" /\ run.pc = "idle" /\ file # Unreadable
            /\ \E i \in DOMAIN LoadControls(file).bindings :
                 LET b == LoadControls(file).bindings[i] IN
                 /\ b.enabled
                 /\ run' = [pc |-> "bound", named |-> b.account]
            /\ UNCHANGED <<file, tmp, legacy, seed, proc, lock, req, served>>

\* A mutant of Resolve: an account that is gone gives way to the default one.
ResolveOrDefault(d, named) ==
  IF named \in DOMAIN d.broker THEN named
  ELSE IF d.default \in DOMAIN d.broker THEN d.default
  ELSE IF named # None THEN named ELSE "unnamed"

\* get_config: the named account, else the default, else any; a named account
\* that is not among the configured ones is an error.
Resolve(d, named) ==
  LET wanted == IF named # None THEN named
                ELSE IF d.default # None THEN d.default ELSE "unnamed"
  IN  IF wanted \in DOMAIN d.broker \/ DOMAIN d.broker = {} THEN wanted
      ELSE IF named # None THEN None
      ELSE CHOOSE a \in DOMAIN d.broker : TRUE

\* The first reads of get_config: the account and its credentials.
RunAccount == /\ run.pc = "bound" /\ file # Unreadable
              /\ LET account == Resolve(Document(file), run.named) IN
                 run' = IF account = None THEN NoRun
                        ELSE [pc |-> "account", named |-> run.named, account |-> account,
                              section |-> IF account \in DOMAIN Document(file).broker
                                          THEN Credentials[account] ELSE <<>>]
              /\ UNCHANGED <<file, tmp, legacy, seed, proc, lock, req, served>>

\* And those after it: the universe, the tuning and the sources.  What cannot be read ends the run.
RunConfig == /\ run.pc = "account" /\ file # Unreadable
             /\ LET d == Document(file)
                    tuning == TuningSection(d.tuning, Ids)
                    settings == Settled(run.account, run.section, tuning, d.universe, Sources)
                IN run' = IF ~Usable(settings) THEN NoRun
                          ELSE [pc |-> "configured", named |-> run.named,
                                settings |-> settings, knobs |-> LoadTuning(tuning)]
             /\ UNCHANGED <<file, tmp, legacy, seed, proc, lock, req, served>>

\* get_account_broker_type reads the accounts again.
BrokerOf(d, account) ==
  IF account \in DOMAIN d.broker THEN d.broker[account]
  ELSE IF DOMAIN d.broker = {} THEN "alpaca"
  ELSE IF account # "unnamed" THEN None
  ELSE d.broker[IF d.default \in DOMAIN d.broker THEN d.default ELSE CHOOSE a \in DOMAIN d.broker : TRUE]

RunBroker == /\ run.pc = "configured" /\ file # Unreadable
             /\ LET broker == BrokerOf(Document(file), run.settings.account) IN
                run' = IF broker = None THEN NoRun
                       ELSE [pc |-> "placed", named |-> run.named, settings |-> run.settings,
                             broker |-> broker]
             /\ UNCHANGED <<file, tmp, legacy, seed, proc, lock, req, served>>

RunEnd == /\ run.pc = "placed" /\ run' = NoRun
          /\ UNCHANGED <<file, tmp, legacy, seed, proc, lock, req, served>>

-----------------------------------------------------------------------------
Serve(r) == Load(r) \/ Check(r) \/ Acquire(r) \/ WriteTmp(r) \/ Replace(r)

ConfigNext ==
        \/ Boot \/ WriteMerged \/ InstallMerged \/ CopySeed \/ Crash
        \/ \E r \in Savers : Serve(r)
        \/ RunStart \/ RunAccount \/ RunConfig \/ RunBroker \/ RunEnd

ConfigSpec == ConfigInit /\ [][ConfigNext]_configVars

-----------------------------------------------------------------------------
(* Properties.                                                             *)

Differ(d, e) == {f \in DOMAIN EmptyDocument : d[f] # e[f]}

Sections == {{"broker", "default"}, {"controls"}, {"tuning"}, {"universe"}}

OneSection(d, e) == IsDocument(e) /\ \E s \in Sections : Differ(d, e) \subseteq s

\* The file as the abstract document, and the documents that requests in flight
\* have read.
Abstract == INSTANCE ConfigDocument WITH
  document   <- file,
  held       <- {req[r].base : r \in {q \in Savers : req[q].pc # "idle"}},
  NoDocument <- NoFile,
  Blank      <- EmptyDocument,
  Broken     <- Unreadable,
  Beginnings <- {EmptyDocument, Unreadable} \cup Seeds \cup Legacies

\* The file is whole whatever the threads and the crashes do: nobody reads a
\* half-written document, each save installs the saver's section on a document
\* the saver has read, and a start never puts defaults over what was saved
\* (yaml_io.py, _save_yaml_config and migrate_legacy_config; prepare_config).
OneWholeDocument == Abstract!Spec

\* An order goes to the account its binding names or nowhere, and is signed with that account's
\* own credentials where it has any, whatever is renamed, deleted or reverted between the reads of
\* the file (schema.py, get_config; accounts.py, get_account_broker_type).
RoutedAsBound ==
  run.pc = "placed" /\ run.named # None =>
    /\ run.settings.account = run.named
    /\ run.settings.key \in {Credential(Credentials[run.named], "key", "keyEnv", "BROKER_KEY"),
                             Given(Env, "BROKER_KEY")}

\* Controls are read as they were saved, but for bindings that name no account while the controls
\* do: those take the account of the controls when they are read.
ControlsRead ==
  file.controls.bindings # <<>> =>
    LET saved == file.controls  read == LoadControls(file) IN
    /\ read.trading = saved.trading
    /\ DOMAIN read.bindings = DOMAIN saved.bindings
    /\ \A i \in DOMAIN read.bindings :
         /\ \A j \in 1..(i - 1) : read.bindings[j].id # read.bindings[i].id
         /\ [read.bindings[i] EXCEPT !.account = None] = [saved.bindings[i] EXCEPT !.account = None]
         /\ \/ read.bindings[i].account = saved.bindings[i].account
            \/ saved.bindings[i].account = None /\ read.bindings[i].account = saved.trading

\* What a horizon was written as, in minutes.
Written(section) ==
  IF "days" \in DOMAIN section THEN section.days * SessionMinutes
  ELSE IF "horizonDays" \in DOMAIN section THEN section.horizonDays * SessionMinutes
  ELSE IF "minutes" \in DOMAIN section THEN section.minutes
  ELSE section.bars * Number(Given(section, "grid"), LegacyGrid)

\* A section whose horizon, in its newest spelling, is a number of its unit.
HasHorizon(section) ==
  LET newest == IF "days" \in DOMAIN section THEN "days"
                ELSE IF "horizonDays" \in DOMAIN section THEN "horizonDays"
                ELSE IF "minutes" \in DOMAIN section THEN "minutes" ELSE "bars"
  IN  /\ Given(section, newest) \in Int
      /\ Given(section, "grid") \in (Int \ {0}) \cup {None, Bad}

\* Tuning is read whatever id it was filed under, and its horizon in whatever unit it was written,
\* to the nearest day.
TuningRead ==
  \A id \in DOMAIN file.tuning :
    LET section == file.tuning[id]  read == LoadTuning(TuningSection(file.tuning, Ids)) IN
    DOMAIN section # {} =>
      /\ read = LoadTuning(section)
      /\ HasHorizon(section) =>
         \/ 2 * (read.horizon * SessionMinutes - Written(section)) \in -SessionMinutes..SessionMinutes
         \/ read.horizon = 1 /\ Written(section) < SessionMinutes

\* What a page was answered is what the scheduler and the runs read later, through renamed knobs
\* and algorithms and controls of before bindings had ids and crons (controls.py, save_controls;
\* payloads/algorithms.py, save_algorithm_config_payload; config_utils.py, days_knob).
SavedReadsBack == IsDocument(file) => ControlsRead /\ TuningRead
=============================================================================
