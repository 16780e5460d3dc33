---------------------------- MODULE ConfigManager ----------------------------
(***************************************************************************)
(* Hot reload: Watch and loadFromFile of src/config/config.go, with an     *)
(* editor that changes the file while the watcher runs.                    *)
(*                                                                         *)
(* A writer that truncates and then writes (os.WriteFile) causes two file  *)
(* events; one that moves the file away and creates it again causes an     *)
(* event for the move, and the watch is on the moved file until Watch adds *)
(* the path again; one that renames a new file over it takes the watch     *)
(* away without an event that Watch handles.  The watcher reloads on an    *)
(* event unless it has reloaded within the last 300 ms, in which case it   *)
(* drops the event.                                                        *)
(***************************************************************************)
EXTENDS Naturals

CONSTANTS Contents,   \* well-formed contents of the file
          Debounce,   \* 300 ms
          MaxEvents,  \* bound: events waiting in watcher.Events
          Styles,     \* how the editor changes the file
          StartFiles  \* contents of the file at the start

ASSUME ConfigAssumption ==
    /\ Debounce \in Nat
    /\ MaxEvents \in Nat \ {0}
    /\ Styles \subseteq {"once", "truncate", "move", "replace"}
    /\ StartFiles \subseteq Contents \cup {"broken"}
    /\ {"empty", "broken", "missing", "default", "none"} \cap Contents = {}

VARIABLES file,        \* contents of the file; "empty" parses as the zero
                       \* Config, "broken" does not parse, "missing" is no file
          writing,     \* what a writer is about to write, after truncating or
                       \* moving the file away
          events,      \* file events not received yet
          watched,     \* the watch is on the file at the path
          since,       \* time since lastReload, up to Debounce + 1
          loading,     \* loadFromFile has been called and has not read yet
          cfg,         \* cm.cfg
          overridden,  \* cm.cfg has the values of the environment
          quiet        \* history: the last write was one event to an idle watcher

configVars == <<file, writing, events, watched, since, loading, cfg, overridden, quiet>>

None == "none"
Parses(v) == v \notin {"broken", "missing"}
Texts == Contents \cup {"broken"}

\* NewConfigManager: defaults, replaced by the file if it parses, then the
\* values of the environment.  Then Watch.
ConfigInit ==
    /\ file \in StartFiles
    /\ cfg = IF Parses(file) THEN file ELSE "default"
    /\ overridden = TRUE
    /\ writing = None
    /\ events = 0
    /\ watched = TRUE
    /\ since = Debounce + 1
    /\ loading = FALSE
    /\ quiet = FALSE

Event == events' = IF watched /\ events < MaxEvents THEN events + 1 ELSE events

-----------------------------------------------------------------------------
\* The file gets contents v in one write.
Write(v) ==
    /\ "once" \in Styles
    /\ writing = None
    /\ file' = v
    /\ Event
    /\ quiet' = (watched /\ since > Debounce /\ events = 0 /\ ~loading)
    /\ UNCHANGED <<writing, watched, since, loading, cfg, overridden>>

\* os.WriteFile: O_TRUNC, and the write to come
Truncate(v) ==
    /\ "truncate" \in Styles
    /\ writing = None
    /\ writing' = v
    /\ file' = "empty"
    /\ Event
    /\ quiet' = FALSE
    /\ UNCHANGED <<watched, since, loading, cfg, overridden>>

\* The editor moves the file away, and will write a new one.
MoveAway(v) ==
    /\ "move" \in Styles
    /\ writing = None
    /\ writing' = v
    /\ file' = "missing"
    /\ Event
    /\ watched' = FALSE
    /\ quiet' = FALSE
    /\ UNCHANGED <<since, loading, cfg, overridden>>

WriteRest ==
    /\ writing # None
    /\ file' = writing
    /\ writing' = None
    /\ Event
    /\ UNCHANGED <<watched, since, loading, cfg, overridden, quiet>>

\* A new file is renamed over the old one.
Replace(v) ==
    /\ "replace" \in Styles
    /\ writing = None
    /\ file' = v
    /\ watched' = FALSE
    /\ quiet' = FALSE
    /\ UNCHANGED <<writing, events, since, loading, cfg, overridden>>

-----------------------------------------------------------------------------
\* Slip: the comparison of the debounce is the wrong way round.
HandleEventInverted ==
    /\ events > 0 /\ ~loading
    /\ events' = events - 1
    /\ watched' = (file # "missing")
    /\ IF since < Debounce
         THEN since' = 0 /\ loading' = TRUE
         ELSE UNCHANGED <<since, loading>>
    /\ UNCHANGED <<file, writing, cfg, overridden, quiet>>

\* The loop of Watch: watcher.Add, whose error is ignored; then
\* time.Since(lastReload) > 300ms, or the event is dropped.
HandleEvent ==
    /\ events > 0 /\ ~loading
    /\ events' = events - 1
    /\ watched' = (file # "missing")
    /\ IF since > Debounce
         THEN since' = 0 /\ loading' = TRUE
         ELSE UNCHANGED <<since, loading>>
    /\ UNCHANGED <<file, writing, cfg, overridden, quiet>>

\* Slip: a parse error is only logged.
LoadFromFileIgnoresError ==
    /\ loading
    /\ loading' = FALSE
    /\ cfg' = file
    /\ UNCHANGED <<file, writing, events, watched, since, overridden, quiet>>

\* Slip: the values of the environment are applied at start-up only.
LoadFromFileForgetsEnv ==
    /\ loading
    /\ loading' = FALSE
    /\ IF Parses(file) THEN cfg' = file /\ overridden' = FALSE
       ELSE UNCHANGED <<cfg, overridden>>
    /\ UNCHANGED <<file, writing, events, watched, since, quiet>>

\* loadFromFile reads and parses; an error keeps the configuration.
\* applyEnvOverridesLocked runs under the lock of the assignment.
LoadFromFile ==
    /\ loading
    /\ loading' = FALSE
    /\ IF Parses(file) THEN cfg' = file /\ overridden' = TRUE
       ELSE UNCHANGED <<cfg, overridden>>
    /\ UNCHANGED <<file, writing, events, watched, since, quiet>>

Elapse ==
    /\ since <= Debounce
    /\ since' = since + 1
    /\ UNCHANGED <<file, writing, events, watched, loading, cfg, overridden, quiet>>

ConfigNext ==
    \/ \E v \in Texts : Write(v) \/ Truncate(v) \/ MoveAway(v) \/ Replace(v)
    \/ WriteRest
    \/ HandleEvent
    \/ LoadFromFile
    \/ Elapse

-----------------------------------------------------------------------------
(* Properties *)

\* The watcher's state is well typed, and the active configuration is the
\* default, the zero one or something well-formed: a file that is broken or
\* missing while it is read never replaces it.
ConfigTypeOK ==
    /\ file \in Texts \cup {"empty", "missing"}
    /\ writing \in Texts \cup {None}
    /\ events \in 0..MaxEvents
    /\ since \in 0..(Debounce + 1)
    /\ {watched, loading, overridden, quiet} \subseteq BOOLEAN
    /\ cfg \in Contents \cup {"default", "empty"}

\* A change that is one event to an idle watcher, more than 300 ms after the
\* last reload, is loaded (if it parses) unless the file changes again.
QuietWriteLoaded ==
    \A v \in Contents : (quiet /\ file = v) ~> (cfg = v \/ ~quiet \/ file # v)
=============================================================================
