------------------------------ MODULE MCPortal ------------------------------
(***************************************************************************)
(* An instance for TLC of what the portal writes and what the collector    *)
(* makes of it: settings, accounts, sessions and subscriptions.  The four  *)
(* share no state, so a behaviour moves one of them and leaves the others  *)
(* as they began.                                                          *)
(***************************************************************************)
EXTENDS PortalSettings, Accounts, Sessions, MCSubscriptions

VARIABLE part

settingsVars == <<vars, portalVars>>
allVars == <<settingsVars, accountVars, sessionVars, subscriptionVars, part>>

MCInit ==
  /\ part \in {"settings", "accounts", "sessions", "subscriptions"}
  /\ PortalInit /\ AccountsInit /\ SessionsInit /\ SubscriptionsInit
  /\ part = "subscriptions" \/ home = [chat |-> home1, hook |-> Nowhere]

MCNext ==
  /\ UNCHANGED part
  /\ \/ /\ part = "settings" /\ PortalNext
        /\ UNCHANGED <<accountVars, sessionVars, subscriptionVars>>
     \/ /\ part = "accounts" /\ AccountsNext
        /\ UNCHANGED <<settingsVars, sessionVars, subscriptionVars>>
     \/ /\ part = "sessions" /\ SessionsNext
        /\ UNCHANGED <<settingsVars, accountVars, subscriptionVars>>
     \/ /\ part = "subscriptions" /\ SubscriptionsNext
        /\ UNCHANGED <<settingsVars, accountVars, sessionVars>>

MCCollectorStep ==
  /\ part = "settings" /\ CollectorStep
  /\ UNCHANGED <<portalVars, accountVars, sessionVars, subscriptionVars, part>>

MCPollStep ==
  /\ part = "subscriptions" /\ PollStep
  /\ UNCHANGED <<portal, settingsVars, accountVars, sessionVars, part>>

MCSpec ==
  MCInit /\ [][MCNext]_allVars /\ WF_allVars(MCCollectorStep) /\ WF_allVars(MCPollStep)
=============================================================================
