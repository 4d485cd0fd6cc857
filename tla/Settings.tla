------------------------------ MODULE Settings ------------------------------
(***************************************************************************)
(* Runtime settings, saved in the portal while the collector runs.  The    *)
(* portal commits a save and a higher settings_revision in one             *)
(* transaction; the collector reads the revision and the settings in two,  *)
(* and remembers the revision it believes to have applied.                 *)
(***************************************************************************)
EXTENDS Naturals, Sequences

CONSTANTS
  MaxSaves, \* bound: saves
  MaxFaults \* bound: database errors and crashes

ASSUME SettingsBounds == MaxSaves \in Nat /\ MaxFaults \in Nat

VARIABLES
  saves,  \* what the saves stored so far, as usable or not; as many as the revision
  pc,     \* where the main thread of the collector is
  loaded, \* next_config: the revision of the settings read last
  noted,  \* revision: what _reload_settings_if_changed read
  config, \* self.config: the revision of the settings in use
  seen,   \* self._settings_revision
  startup, \* history: the revisions saved while this process started up, until a
          \* reload takes their place
  faults

process == <<pc, loaded, noted, config, seen>>
vars == <<saves, process, startup, faults>>

Revision == Len(saves)
Revisions == 0 .. MaxSaves

\* Settings the collector can be built from: node_rpc_urls names a node.  The
\* defaults of a new database, revision 0, name none.
Usable(revision) == revision > 0 /\ saves[revision]

TypeOK ==
  /\ saves \in Seq(BOOLEAN) /\ Revision \in Revisions
  /\ pc \in {"down", "starting", "running", "load", "apply"}
  /\ {loaded, noted, config, seen} \cup startup \subseteq Revisions
  /\ faults \in 0 .. MaxFaults

Init ==
  /\ saves = <<>>
  /\ pc = "down"
  /\ loaded = 0 /\ noted = 0 /\ config = 0 /\ seen = 0
  /\ startup = {}
  /\ faults = 0

\* An administrator saves.  An empty list of nodes passes validate_settings,
\* and a save of other keys leaves the list as it is.
Save(usable) ==
  /\ Revision < MaxSaves
  /\ saves' = Append(saves, usable)
  /\ startup' = IF pc = "starting" THEN startup \cup {Revision'} ELSE startup
  /\ UNCHANGED <<process, faults>>

\* The first step of a process: load_runtime_config.
Start ==
  /\ pc = "down"
  /\ loaded' = Revision
  /\ startup' = {}
  /\ pc' = "starting"
  /\ UNCHANGED <<saves, noted, config, seen, faults>>

\* The constructor reads the revision, then builds the components from settings
\* that were loaded before: a save in between is taken for applied.  When it
\* raises, the process exits and the supervisor starts another.
Construct ==
  /\ pc = "starting"
  /\ IF Usable(loaded)
     THEN /\ seen' = Revision
          /\ config' = loaded
          /\ pc' = "running"
     ELSE /\ pc' = "down"
          /\ UNCHANGED <<seen, config>>
  /\ UNCHANGED <<saves, loaded, noted, startup, faults>>

\* The sleep between two polls looks for another revision.
Check ==
  /\ pc = "running"
  /\ Revision # seen
  /\ noted' = Revision
  /\ pc' = "load"
  /\ UNCHANGED <<saves, loaded, config, seen, startup, faults>>

Load ==
  /\ pc = "load"
  /\ loaded' = Revision
  /\ pc' = "apply"
  /\ UNCHANGED <<saves, noted, config, seen, startup, faults>>

\* Mutant: the revision to remember is read when the settings have been applied.
ApplyRereadsRevision ==
  /\ pc = "apply"
  /\ IF Usable(loaded)
     THEN config' = loaded /\ seen' = Revision /\ startup' = {}
     ELSE UNCHANGED <<config, seen, startup>>
  /\ pc' = "running"
  /\ UNCHANGED <<saves, loaded, noted, faults>>

\* Mutant: the new settings are in use before they have proved usable.
ApplySwapsFirst ==
  /\ pc = "apply"
  /\ config' = loaded
  /\ IF Usable(loaded)
     THEN seen' = noted /\ startup' = {}
     ELSE UNCHANGED <<seen, startup>>
  /\ pc' = "running"
  /\ UNCHANGED <<saves, loaded, noted, faults>>

\* _apply_runtime_config builds everything before it swaps anything; only a
\* success is remembered, so that a refusal is tried again a second later.
Apply ==
  /\ pc = "apply"
  /\ IF Usable(loaded)
     THEN config' = loaded /\ seen' = noted /\ startup' = {}
     ELSE UNCHANGED <<config, seen, startup>>
  /\ pc' = "running"
  /\ UNCHANGED <<saves, loaded, noted, faults>>

Fault ==
  /\ faults < MaxFaults
  /\ faults' = faults + 1

\* Mutant: a revision whose settings could not be read is remembered all the same.
LoadRaisesRemembers ==
  /\ Fault
  /\ pc = "load"
  /\ pc' = "running"
  /\ seen' = noted
  /\ UNCHANGED <<saves, loaded, noted, config, startup>>

\* The settings cannot be read: the error is caught and the old ones are kept.
LoadRaises ==
  /\ Fault
  /\ pc = "load"
  /\ pc' = "running"
  /\ UNCHANGED <<saves, loaded, noted, config, seen, startup>>

\* The process ends: a crash, a restart, or the revision cannot be read, which
\* nothing in run_forever catches.
Exit ==
  /\ Fault
  /\ pc # "down"
  /\ pc' = "down"
  /\ UNCHANGED <<saves, loaded, noted, config, seen, startup>>

CollectorStep == Start \/ Construct \/ Check \/ Load \/ Apply

Next ==
  \/ \E usable \in BOOLEAN : Save(usable)
  \/ CollectorStep
  \/ LoadRaises \/ Exit

\* The supervisor restarts the process and its loop keeps looking.
Spec == Init /\ [][Next]_vars /\ WF_vars(CollectorStep)
-----------------------------------------------------------------------------
(***************************************************************************)
(* Properties                                                              *)
(***************************************************************************)

Running == pc \in {"running", "load", "apply"}

\* A revision that the collector takes for applied, and that is newer than the
\* settings it uses, was saved while this very process started up, and nothing
\* was applied since.  A save at any other time is late, never lost.
NoSaveIsLost == Running => config + 1 .. seen \subseteq startup

\* A collector that runs does so with settings it could be built from; it keeps
\* the previous ones over a save that it cannot use.
ConfigIsUsable == Running => Usable(config)

\* When the saves have ended and the last is usable, it ends up in use, unless it
\* is one of a start-up that no later save made good.
LatestIsApplied ==
  <>[](Revision > 0 /\ Usable(Revision)
         => Running /\ (config = Revision \/ Revision \in startup))

\* README.md: the collector "checks for a new settings revision every 60
\* seconds and applies valid changes without a process restart".
LatestIsUsed ==
  <>[](Revision > 0 /\ Usable(Revision) => Running /\ config = Revision)
=============================================================================
