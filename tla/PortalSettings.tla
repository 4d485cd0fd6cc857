--------------------------- MODULE PortalSettings ---------------------------
(***************************************************************************)
(* Settings with the portal's own copy of them.  The handler of a save     *)
(* commits, reads all settings back in another transaction and installs    *)
(* what it read as runtime_config of the web server; handlers of other     *)
(* saves run between any two of these steps.                               *)
(***************************************************************************)
EXTENDS Settings

CONSTANT Savers \* bound: saves answered at a time

VARIABLES
  copy,   \* the revision that runtime_config holds
  saver,  \* local variables of the handlers
  burst   \* history: the first of the latest saves that overlap one another

portalVars == <<copy, saver, burst>>

Answered == [pc |-> "idle"]

PortalInit ==
  /\ Init
  /\ copy = Revision
  /\ saver = [t \in Savers |-> Answered]
  /\ burst = Revision

\* set_settings commits.
SaveCommits(t, usable) ==
  /\ saver[t] = Answered
  /\ Save(usable)
  /\ saver' = [saver EXCEPT ![t] = [pc |-> "committed"]]
  /\ burst' = IF \A other \in Savers : saver[other] = Answered THEN Revision' ELSE burst
  /\ UNCHANGED copy

\* Mutant of SaveReads: only what this save stored is known, not what came before it.
SaveReadsEarly(t) ==
  /\ saver[t].pc = "committed"
  /\ saver' = [saver EXCEPT ![t] = [pc |-> "read", revision |-> copy]]
  /\ UNCHANGED <<vars, copy, burst>>

\* Its last statement is get_settings.
SaveReads(t) ==
  /\ saver[t].pc = "committed"
  /\ saver' = [saver EXCEPT ![t] = [pc |-> "read", revision |-> Revision]]
  /\ UNCHANGED <<vars, copy, burst>>

\* self.runtime_config.update(updated)
SaveInstalls(t) ==
  /\ saver[t].pc = "read"
  /\ copy' = saver[t].revision
  /\ saver' = [saver EXCEPT ![t] = Answered]
  /\ UNCHANGED <<vars, burst>>

\* The web server starts again and loads the settings.
RestartPortal ==
  /\ copy' = Revision
  /\ saver' = [t \in Savers |-> Answered]
  /\ burst' = Revision
  /\ UNCHANGED vars

PortalNext ==
  \/ \E t \in Savers : (\E usable \in BOOLEAN : SaveCommits(t, usable))
                         \/ SaveReads(t) \/ SaveInstalls(t)
  \/ RestartPortal
  \/ (CollectorStep \/ LoadRaises \/ Exit) /\ UNCHANGED portalVars

PortalSpec ==
  PortalInit /\ [][PortalNext]_<<vars, portalVars>> /\ WF_vars(CollectorStep)
-----------------------------------------------------------------------------
\* When all saves are answered, the portal shows what is stored, or the settings
\* after one of the saves that overlapped the last: of a save that met no other,
\* exactly what is stored.
CopyIsLatest ==
  (\A t \in Savers : saver[t] = Answered) => burst <= copy /\ copy <= Revision
=============================================================================
