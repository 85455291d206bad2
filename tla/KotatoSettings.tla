---------------------------- MODULE KotatoSettings ----------------------------
(***************************************************************************)
(* The JSON settings manager KotatoSettings::Manager and its free          *)
(* functions Start / Write / Finish (core/kotato_settings.cpp).           *)
(*                                                                         *)
(* The in-memory font settings are a version number that the rest of the  *)
(* application bumps (cSetMainFont and friends); the custom file stores    *)
(* the version it was last written with.  Write() arms a single-shot       *)
(* timer of kWriteJsonTimeout, here Window ticks of a discrete clock; its  *)
(* timeout, or Finish(), writes the current settings.  Every file open may *)
(* fail when OpenCanFail holds.  The process ends by Finish() and a        *)
(* restart, or is killed at any point, also inside a file write: QFile     *)
(* opened WriteOnly truncates the file before anything is written.         *)
(***************************************************************************)
EXTENDS Integers

CONSTANTS
    MaxChanges,   \* bound: settings versions handed out over all runs
    MaxRuns,      \* bound: process lifetimes after the first
    Window,       \* kWriteJsonTimeout, in clock ticks
    OpenCanFail   \* whether a QFile::open may fail

NoValue == -1

\* The outcomes of one QFile::open.
Opens == IF OpenCanFail THEN BOOLEAN ELSE {TRUE}

VARIABLES
    started,       \* Data != nullptr
    timerActive,   \* _jsonWriteTimer.isActive()
    elapsed,       \* ticks since the timer was started, 0 when it is idle
    settings,      \* version of the in-memory font settings
    nextVersion,   \* version the next settings change produces
    defaultFile,   \* kotato-settings-default.json: "absent", "corrupt",
                   \* "written" (by writeDefaultFile) or "valid"
    customFile,    \* kotato-settings-custom.json: "absent", "corrupt", "valid"
    customValue,   \* settings version in the custom file, NoValue if none
    requested,     \* version of a Write() not yet written out, or NoValue
    writeFailed,   \* a writeCurrentSettings() failed to open the file since
    finished,      \* Finish() has run; the process exits
    runs           \* process lifetimes started after the first

\* Ghost variables, kept for the properties only.
VARIABLES
    idle,          \* ticks since the last Write() while the timer runs
    durable        \* version of the last complete custom file, or NoValue

vars == <<started, timerActive, elapsed, settings, nextVersion, defaultFile,
          customFile, customValue, requested, writeFailed, finished, runs,
          idle, durable>>

\* A fresh process: the Manager does not exist, the fonts are the built-in
\* defaults (version 0); the files are whatever earlier runs or the user
\* left behind.
Init ==
    /\ started = FALSE
    /\ timerActive = FALSE
    /\ elapsed = 0
    /\ settings = 0
    /\ nextVersion = 1
    /\ defaultFile \in {"absent", "corrupt", "written", "valid"}
    /\ customFile \in {"absent", "corrupt", "valid"}
    /\ customValue = IF customFile = "valid" THEN 0 ELSE NoValue
    /\ requested = NoValue
    /\ writeFailed = FALSE
    /\ finished = FALSE
    /\ runs = 0
    /\ idle = 0
    /\ durable = customValue

-----------------------------------------------------------------------------

\* DefaultFileIsValid(): the file must open, and its "version" member must
\* be a number equal to AppKotatoVersion.  writeDefaultFile() stores it as
\* a string, and QJsonValue::toInt() of a string is 0, so only a file
\* edited by hand with a numeric version passes.
DefaultFileIsValid(f, opens) == opens /\ f = "valid"

\* writeDefaultFile(): open WriteOnly (truncate) and write header and JSON.
WriteDefaultFile(opens) ==
    IF opens THEN defaultFile' = "written" ELSE UNCHANGED defaultFile

\* readCustomFile(): a missing file reports false; a file that cannot be
\* opened or parsed is kept and reports true without touching the fonts;
\* a parsed file sets the fonts.
ReadCustomFile(opens) ==
    CASE customFile = "valid" /\ opens -> settings' = customValue
      [] OTHER -> UNCHANGED settings

\* WriteDefaultCustomFile(): copy the bundled defaults (version 0) when the
\* output opens.
WriteDefaultCustomFile(opens) ==
    IF opens THEN /\ customFile' = "valid" /\ customValue' = 0
                  /\ durable' = 0
    ELSE UNCHANGED <<customFile, customValue, durable>>

\* Manager::fill().
Fill(checkOpens, defaultOpens, readOpens, customOpens) ==
    /\ IF DefaultFileIsValid(defaultFile, checkOpens)
       THEN UNCHANGED defaultFile
       ELSE WriteDefaultFile(defaultOpens)
    /\ ReadCustomFile(readOpens)
    /\ IF customFile = "absent"
       THEN WriteDefaultCustomFile(customOpens)
       ELSE UNCHANGED <<customFile, customValue, durable>>

\* writeCurrentSettings(): open WriteOnly, stop a running timer, write the
\* settings.  Used by writeTimeout() and write(true); the callers leave the
\* timer stopped.
WriteCurrentSettings(opens) ==
    IF opens
    THEN /\ customFile' = "valid" /\ customValue' = settings
         /\ durable' = settings
         /\ requested' = NoValue /\ writeFailed' = FALSE
    ELSE /\ writeFailed' = TRUE
         /\ UNCHANGED <<customFile, customValue, durable, requested>>

\* Defect: fill() applies the custom file's values even when it is missing.
StartReadsMissing ==
    /\ ~started /\ ~finished
    /\ started' = TRUE
    /\ settings' = customValue
    /\ UNCHANGED <<timerActive, elapsed, nextVersion, defaultFile,
                   customFile, customValue, requested, writeFailed,
                   finished, runs, idle, durable>>

\* Start(): create the manager once and fill() it.
Start ==
    /\ ~started /\ ~finished
    /\ started' = TRUE
    /\ \E v, d, r, c \in Opens : Fill(v, d, r, c)
    /\ UNCHANGED <<timerActive, elapsed, nextVersion, requested, writeFailed,
                   finished, runs, idle>>

\* Defect: every Write() restarts the timer, so steady activity starves it.
WriteRestartsTimer ==
    /\ ~finished
    /\ started
    /\ requested' = settings
    /\ idle' = 0
    /\ timerActive' = TRUE /\ elapsed' = 0
    /\ UNCHANGED <<started, settings, nextVersion, defaultFile, customFile,
                   customValue, writeFailed, finished, runs, durable>>

\* Write() -> write(false): start the timer unless it is already running.
Write ==
    /\ ~finished
    /\ started
    /\ requested' = settings
    /\ idle' = 0
    /\ IF timerActive THEN UNCHANGED <<timerActive, elapsed>>
       ELSE /\ timerActive' = TRUE /\ elapsed' = 0
    /\ UNCHANGED <<started, settings, nextVersion, defaultFile, customFile,
                   customValue, writeFailed, finished, runs, durable>>

\* The clock advances while the timer runs.
Tick ==
    /\ ~finished
    /\ timerActive
    /\ elapsed < Window
    /\ elapsed' = elapsed + 1
    /\ idle' = idle + 1
    /\ UNCHANGED <<started, timerActive, settings, nextVersion, defaultFile,
                   customFile, customValue, requested, writeFailed,
                   finished, runs, durable>>

\* The single-shot timer fires: writeTimeout() -> writeCurrentSettings().
WriteTimeout ==
    /\ ~finished
    /\ timerActive
    /\ elapsed = Window
    /\ timerActive' = FALSE /\ elapsed' = 0
    /\ \E opens \in Opens : WriteCurrentSettings(opens)
    /\ UNCHANGED <<started, settings, nextVersion, defaultFile, finished,
                   runs, idle>>

\* Defect: write(true) stops the pending timer without writing.
FinishNoFlush ==
    /\ ~finished
    /\ finished' = TRUE
    /\ timerActive' = FALSE /\ elapsed' = 0
    /\ UNCHANGED <<started, settings, nextVersion, defaultFile, customFile,
                   customValue, requested, writeFailed, runs, idle,
                    durable>>

\* Finish() -> write(true): a pending write is done now; without a pending
\* write, or without a Manager, nothing is written.
Finish ==
    /\ ~finished
    /\ finished' = TRUE
    /\ IF started /\ timerActive
       THEN /\ timerActive' = FALSE /\ elapsed' = 0
            /\ \E opens \in Opens : WriteCurrentSettings(opens)
       ELSE UNCHANGED <<timerActive, elapsed, customFile, customValue,
                        durable, requested, writeFailed>>
    /\ UNCHANGED <<started, settings, nextVersion, defaultFile, runs, idle>>

\* The user changes a font setting (cSetMainFont and friends, from the
\* fonts box of the running application).
ChangeSettings ==
    /\ started /\ ~finished
    /\ nextVersion <= MaxChanges
    /\ settings' = nextVersion
    /\ nextVersion' = nextVersion + 1
    /\ UNCHANGED <<started, timerActive, elapsed, defaultFile, customFile,
                   customValue, requested, writeFailed, finished, runs, idle,
                   durable>>

\* A new process: everything in memory is gone, the files stay.
NewProcess ==
    /\ runs < MaxRuns
    /\ runs' = runs + 1
    /\ started' = FALSE /\ finished' = FALSE
    /\ timerActive' = FALSE /\ elapsed' = 0 /\ idle' = 0
    /\ settings' = 0
    /\ requested' = NoValue /\ writeFailed' = FALSE
    /\ UNCHANGED nextVersion

\* The process is started again after it exited.
Restart ==
    /\ finished
    /\ NewProcess
    /\ UNCHANGED <<defaultFile, customFile, customValue, durable>>

\* The process is killed: between two events, inside writeCurrentSettings()
\* after its truncating open (the timer is pending), or inside fill() after
\* the truncating open of writeDefaultFile() or WriteDefaultCustomFile().
Crash ==
    /\ ~finished
    /\ NewProcess
    /\ \/ UNCHANGED <<defaultFile, customFile, customValue, durable>>
       \/ /\ started /\ timerActive
          /\ customFile' = "corrupt" /\ customValue' = NoValue
          /\ UNCHANGED <<defaultFile, durable>>
       \/ /\ ~started /\ \E v \in Opens : ~DefaultFileIsValid(defaultFile, v)
          /\ defaultFile' = "corrupt"
          /\ UNCHANGED <<customFile, customValue, durable>>
       \/ /\ ~started /\ customFile = "absent"
          /\ \E v, d \in Opens :
               IF DefaultFileIsValid(defaultFile, v)
               THEN UNCHANGED defaultFile
               ELSE WriteDefaultFile(d)
          /\ customFile' = "corrupt"
          /\ UNCHANGED <<customValue, durable>>

Next ==
    \/ Start \/ Write \/ Tick \/ WriteTimeout \/ Finish \/ ChangeSettings
    \/ Restart \/ Crash

\* The event loop delivers the timer's timeout while the process runs, and
\* time passes.  Crashes and restarts carry no fairness.
Spec == Init /\ [][Next]_vars /\ WF_vars(Tick) /\ WF_vars(WriteTimeout)

-----------------------------------------------------------------------------

TypeOK ==
    /\ started \in BOOLEAN /\ timerActive \in BOOLEAN /\ finished \in BOOLEAN
    /\ elapsed \in 0 .. Window /\ idle \in 0 .. Window
    /\ settings \in 0 .. MaxChanges
    /\ nextVersion \in 1 .. MaxChanges + 1
    /\ defaultFile \in {"absent", "corrupt", "written", "valid"}
    /\ customFile \in {"absent", "corrupt", "valid"}
    /\ customValue \in {NoValue} \cup 0 .. MaxChanges
    /\ requested \in {NoValue} \cup 0 .. MaxChanges
    /\ writeFailed \in BOOLEAN
    /\ runs \in 0 .. MaxRuns

\* Debounced writes never drop a request: whenever no write is scheduled,
\* every Write() of this process has been written out, unless the last
\* write attempt could not open the file.  This covers Finish(), which
\* must flush a pending write before the exit.
NoRequestedWriteLost ==
    ~timerActive /\ ~writeFailed => requested = NoValue

\* Every Write() is eventually written out, by the timer or by Finish(),
\* or lost to a failed open or to the process being killed.
WriteEventuallyPersisted ==
    (requested # NoValue) ~> (requested = NoValue \/ writeFailed)

\* Writes are debounced: the timer writes only after Window ticks without
\* a Write() (spec: "5 seconds of inactivity").
DebounceAfterInactivity ==
    [][WriteTimeout => idle = Window]_vars

\* A start runs with the settings last completely saved to the custom file.
SavedSettingsLoaded ==
    [][Start /\ durable # NoValue => settings' = durable]_vars
=============================================================================
