----------------------------- MODULE SetupProps -----------------------------
(* What the setup screens and the deployment must guarantee. *)
EXTENDS Setup

Deployed(c) ==
  \E t \in Ids : th[t].kind = "deploy" /\ th[t].pc = "ok" /\ th[t].rom = c.rom /\ th[t].host = c.host

\* Whatever the user clicks while threads are running: Continue is enabled only
\* with a configuration, and every MiSTer session runs with the host and the ROM
\* of a deployment that went through all its steps and reached the helper.
NoSessionWithoutDeploy ==
  /\ contBtn => config # None
  /\ config # None => Deployed(config)
  /\ \A w \in Ws : wcfg[w] # None /\ wcfg[w].endpoint = "mister" => Deployed(wcfg[w])

\* "ROM selected. Test & Deploy to continue.": while nobody acts on a
\* busy screen, or from the command line, one can only go past the ROM screen with the ROM it shows, and
\* helper, core and that ROM are then on the MiSTer (unless the base64 fallback
\* wrote a file).
DeployedAsShown ==
  endpoint = "mister" /\ ~disturbed /\ (contBtn \/ screen \in {"relay_setup", "session"}) =>
    /\ config # None /\ config.rom = rom
    /\ \A f \in {"helper", "core", rom} : remote[config.host][f] \in {"current", "maybe"}

\* The Deploy and Diagnose buttons always come back.
ButtonsComeBack == running ~> ~running
=============================================================================
