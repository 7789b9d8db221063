------------------------------- MODULE Setup -------------------------------
(***************************************************************************)
(* The screens of the bridge GUI around a MiSTer: setup_screen.py with its *)
(* deploy and diagnose threads (mister_deploy.py, mister_diagnostics.py),  *)
(* relay_setup_screen.py, session_screen.py and the life of its            *)
(* SessionWorker threads; and `bridge mister-deploy`, which runs the same  *)
(* deployment.  Tk runs one handler at a time; worker threads hand their   *)
(* results to it with after(0, ...), a queue.  Status and log texts, and   *)
(* Copy Diagnostics, are left out.  The EverDrive's ROM screen is in Rom.  *)
(***************************************************************************)
EXTENDS Naturals, Sequences, FiniteSets

CONSTANTS
  Roms,        \* ROM files, with different names
  CliRoms,     \* the --rom arguments of mister-deploy, None if there is none
  Hosts,       \* host names or addresses of MiSTers
  MaxThreads,  \* bound: deploy, diagnose and command-line runs
  MaxWorkers,  \* bound: sessions
  None

ASSUME SetupAssumption ==
  /\ MaxThreads \in Nat /\ MaxWorkers \in Nat /\ None \notin Roms \cup Hosts
  /\ CliRoms \subseteq Roms \cup {None} /\ Roms \cap {"helper", "core"} = {}

VARIABLES
  screen, endpoint,            \* the visible screen, controller.endpoint_type
  rom, host,                   \* _rom_path, _mister_host_var
  running,                     \* _deploy_running
  deployBtn, diagBtn, contBtn, connectBtn,   \* are the buttons enabled
  config, session,             \* controller.mister_config, session_config
  code,                        \* is a session code typed in
  com,                         \* is a COM port detected
  saved,                       \* UserSettings.mister_host on disk
  th,                          \* the worker threads of the ROM screen
  calls,                       \* callbacks waiting in Tk's queue
  remote, helper,              \* each MiSTer: its files, and the helper process
  disturbed,                   \* has anyone acted while a run was busy, or from the
                               \* command line
  wpc, wcfg, stop, worker      \* SessionWorkers, the one SessionScreen holds

guiVars == <<screen, endpoint, rom, host, deployBtn, diagBtn, contBtn, connectBtn, code, com>>
setupVars == <<running, config, saved, th, calls, disturbed>>
mister == <<remote, helper>>
workers == <<wpc, wcfg, stop, worker>>
vars == <<guiVars, setupVars, session, mister, workers>>

Ids == 1 .. MaxThreads
Ws == 1 .. MaxWorkers
Files == {"helper", "core"} \cup Roms
Config == [endpoint : {"edn8", "mister"}, rom : Roms \cup {None}, host : Hosts \cup {None}]

ASSUME NoneIsNoConfig == None \notin Config

\* "maybe": written, in part or in full, through the base64 fallback, whose result
\* nobody looks at.
TypeOK ==
  /\ screen \in {"device_select", "rom_setup", "relay_setup", "session"}
  /\ endpoint \in {"edn8", "mister"}
  /\ rom \in Roms \cup {None} /\ host \in Hosts \cup {None} /\ saved \in Hosts \cup {None}
  /\ {running, deployBtn, diagBtn, contBtn, connectBtn, code, com, disturbed} \subseteq BOOLEAN
  /\ config \in Config \cup {None} /\ session \in Config \cup {None}
  /\ th \in [Ids -> [kind : {"deploy", "cli", "diagnose", None}, file : {"helper", "core", "rom"},
                     pc : {"idle", "connect", "tools", "check", "put", "restart", "wait",
                           "health", "ok", "err"},
                     rom : Roms \cup {None}, host : Hosts \cup {None}]]
  /\ calls \in Seq([what : {"deployed", "failed", "diagnosed"},
                    rom : Roms \cup {None}, host : Hosts \cup {None}])
  /\ remote \in [Hosts -> [Files -> {"missing", "old", "partial", "maybe", "current"}]]
  /\ helper \in [Hosts -> {"down", "dying", "up"}]
  /\ wpc \in [Ws -> {"idle", "opening", "loop", "ended"}]
  /\ wcfg \in [Ws -> Config \cup {None}] /\ stop \in [Ws -> BOOLEAN]
  /\ worker \in Ws \cup {None}

Init ==
  /\ screen = "device_select" /\ endpoint = "edn8"
  /\ rom = None /\ host = None /\ saved \in Hosts \cup {None}
  /\ running = FALSE /\ deployBtn = FALSE /\ diagBtn = FALSE /\ contBtn = FALSE
  /\ connectBtn = FALSE /\ config = None /\ session = None /\ code = FALSE /\ com = FALSE
  /\ th = [t \in Ids |-> [kind |-> None, file |-> "helper", pc |-> "idle", rom |-> None, host |-> None]]
  /\ calls = <<>> /\ disturbed = FALSE
  /\ \E f \in {"missing", "old"} :
       remote = [h \in Hosts |-> [x \in Files |-> IF x \in Roms THEN "missing" ELSE f]]
  /\ helper = [h \in Hosts |-> "down"]
  /\ wpc = [w \in Ws |-> "idle"] /\ wcfg = [w \in Ws |-> None]
  /\ stop = [w \in Ws |-> FALSE] /\ worker = None

-----------------------------------------------------------------------------
(* Helpers *)

\* _update_mister_deploy_state, on the state after the handler's assignments.
UpdateDeployState ==
  /\ deployBtn' = (~running' /\ rom' # None /\ host' # None)
  /\ diagBtn' = (~running' /\ host' # None)

\* _update_connect_state, called when the code changes and when the screen opens.
ConnectReady == code' /\ IF endpoint = "mister" THEN config # None ELSE com'

Alive(t) == th[t].pc \notin {"idle", "ok", "err"}
\* A run is under way, or its result waits in Tk's queue.
Busy == calls # <<>> \/ \E t \in Ids : Alive(t)

\* threading.Thread(...).start()
Start(kind, r, h) ==
  /\ \E t \in Ids :
       /\ th[t].pc = "idle" /\ \A u \in 1 .. t - 1 : th[u].pc # "idle"
       /\ th' = [th EXCEPT ![t] = [kind |-> kind, file |-> "helper", pc |-> "connect",
                                   rom |-> r, host |-> h]]
  /\ disturbed' = (disturbed \/ Busy \/ kind = "cli")

Goto(t, label) == th' = [th EXCEPT ![t].pc = label]

\* The thread ends: the GUI's ones post a callback, with the thread's arguments.
\* Mutant: the result names the ROM that is selected now.
ResultOfScreen(t, what) == [what |-> what, rom |-> rom, host |-> th[t].host]
\* Mutant: it names the last file uploaded.
ResultOfAsset(t, what) == [what |-> what, rom |-> th[t].file, host |-> th[t].host]
Result(t, what) == [what |-> what, rom |-> th[t].rom, host |-> th[t].host]
Finish(t, label) ==
  /\ Goto(t, label)
  /\ calls' = CASE th[t].kind = "cli" -> calls
                [] th[t].kind = "diagnose" -> Append(calls, Result(t, "diagnosed"))
                [] OTHER -> Append(calls, Result(t, IF label = "ok" THEN "deployed" ELSE "failed"))

-----------------------------------------------------------------------------
(* The screens *)

\* DeviceSelectScreen._select and ROMSetupScreen.on_show, which find no ROM yet.
SelectDevice(d) ==
  /\ screen = "device_select" /\ screen' = "rom_setup" /\ endpoint' = d
  /\ rom' = None /\ contBtn' = FALSE /\ config' = None
  /\ IF d = "mister"
     THEN host' = saved /\ running' = running /\ UpdateDeployState
     ELSE UNCHANGED <<host, running, deployBtn, diagBtn>>
  /\ UNCHANGED <<connectBtn, code, com, saved, th, calls, disturbed, session, mister, workers>>

\* Typing in the host field runs its trace.
TypeHost(h) ==
  /\ screen = "rom_setup" /\ endpoint = "mister" /\ h # host
  /\ host' = h /\ UNCHANGED <<rom, running>> /\ UpdateDeployState
  /\ UNCHANGED <<screen, endpoint, contBtn, connectBtn, code, com, config, saved, th, calls,
                 disturbed, session, mister, workers>>

\* Mutant: the configuration of an earlier deployment survives.
InspectRomKeepsConfig(r) ==
  /\ UNCHANGED <<config, contBtn, running, host>> /\ UpdateDeployState
\* _inspect_rom for a MiSTer.
InspectRom(r) ==
  /\ config' = None /\ contBtn' = FALSE
  /\ UNCHANGED <<running, host>> /\ UpdateDeployState

\* _pick_file.  A file that is no readable NES ROM is kept as _rom_path too, and
\* _inspect_rom then only disables Continue.
PickFile(r) ==
  /\ screen = "rom_setup" /\ endpoint = "mister" /\ rom' = r
  /\ \/ InspectRom(r)
     \/ contBtn' = FALSE /\ UNCHANGED <<config, running, host, deployBtn, diagBtn>>
  /\ disturbed' = (disturbed \/ Busy)
  /\ UNCHANGED <<screen, endpoint, connectBtn, code, com, saved, th, calls, session, mister, workers>>

\* _deploy_to_mister disables Deploy and Continue, but neither Browse nor Diagnose.
DeployToMister ==
  /\ screen = "rom_setup" /\ endpoint = "mister" /\ deployBtn /\ rom # None /\ host # None
  /\ running' = TRUE /\ deployBtn' = FALSE /\ contBtn' = FALSE /\ config' = None
  /\ Start("deploy", rom, host)
  /\ UNCHANGED <<screen, endpoint, rom, host, diagBtn, connectBtn, code, com, saved, calls,
                 session, mister, workers>>

DiagnoseMister ==
  /\ screen = "rom_setup" /\ endpoint = "mister" /\ diagBtn /\ host # None
  /\ running' = TRUE /\ UNCHANGED <<rom, host>> /\ UpdateDeployState
  /\ Start("diagnose", None, host)
  /\ UNCHANGED <<screen, endpoint, contBtn, connectBtn, code, com, config, saved, calls,
                 session, mister, workers>>

\* _on_mister_deploy_success and _error, _on_mister_diagnostics_success and _error.
\* Mutant: the end of a diagnosis does not release the buttons.
StillRunning(call) == call.what = "diagnosed" /\ running
RunningAfter(call) == FALSE
HandleCall ==
  /\ calls # <<>> /\ calls' = Tail(calls)
  /\ running' = RunningAfter(Head(calls))
  /\ config' = CASE Head(calls).what = "deployed" ->
                     [endpoint |-> "mister", rom |-> Head(calls).rom, host |-> Head(calls).host]
                 [] Head(calls).what = "failed" -> None
                 [] OTHER -> config
  /\ contBtn' = CASE Head(calls).what = "deployed" -> TRUE
                  [] Head(calls).what = "failed" -> FALSE
                  [] OTHER -> contBtn
  /\ UNCHANGED <<rom, host>> /\ UpdateDeployState
  /\ UNCHANGED <<screen, endpoint, connectBtn, code, com, saved, th, disturbed, session, mister, workers>>

\* RelaySetupScreen.on_show: the COM ports are detected again.
ShowRelaySetup ==
  /\ screen' = "relay_setup" /\ code' = code
  /\ IF endpoint = "edn8" THEN com' \in BOOLEAN ELSE com' = com
  /\ connectBtn' = ConnectReady

\* _continue; what it does to the ROM of an EverDrive is Rom!Continue.
Continue ==
  /\ screen = "rom_setup" /\ (endpoint = "mister" => contBtn /\ config # None)
  /\ ShowRelaySetup
  /\ UNCHANGED <<endpoint, rom, host, deployBtn, diagBtn, contBtn, setupVars, session, mister, workers>>

\* RelaySetupScreen._back; on_show of the ROM screen sees the same device.
Back ==
  /\ screen = "relay_setup" /\ screen' = "rom_setup"
  /\ IF endpoint = "mister"
     THEN UNCHANGED <<rom, host, running>> /\ UpdateDeployState
     ELSE UNCHANGED <<rom, host, running, deployBtn, diagBtn>>
  /\ UNCHANGED <<endpoint, contBtn, connectBtn, code, com, config, saved, th, calls, disturbed,
                 session, mister, workers>>

TypeCode(ok) ==
  /\ screen = "relay_setup" /\ code' = ok /\ code # ok /\ com' = com /\ connectBtn' = ConnectReady
  /\ UNCHANGED <<screen, endpoint, rom, host, deployBtn, diagBtn, contBtn, setupVars, session,
                 mister, workers>>

-----------------------------------------------------------------------------
(* The threads: MisterDeployService, run_mister_diagnostics.  Any step over  *)
(* SSH may raise.                                                            *)

CliDeploy(r, h) ==
  /\ Start("cli", r, h)
  /\ UNCHANGED <<guiVars, running, config, saved, calls, session, mister, workers>>

\* ensure_file's asset, and where the thread goes after it.
Asset(t) == IF th[t].file = "rom" THEN th[t].rom ELSE th[t].file
AfterAsset(t) ==
  th' = [th EXCEPT ![t].file = CASE @ = "helper" -> "core" [] @ = "core" -> "rom" [] OTHER -> @,
                   ![t].pc = IF th[t].file = "rom" \/ (th[t].file = "core" /\ th[t].rom = None)
                             THEN "restart" ELSE "check"]
SetFile(t, value) == remote' = [remote EXCEPT ![th[t].host][Asset(t)] = value]

\* A failed connection is part of the report of a diagnosis.
Connect(t) ==
  /\ th[t].pc = "connect"
  /\ \/ /\ Goto(t, "tools") /\ UNCHANGED calls
        /\ saved' = IF th[t].kind = "deploy" THEN th[t].host ELSE saved
     \/ Finish(t, IF th[t].kind = "diagnose" THEN "ok" ELSE "err") /\ UNCHANGED saved
  /\ UNCHANGED mister

\* A diagnosis starts a helper that is installed and not listening.
Tools(t) ==
  /\ th[t].pc = "tools"
  /\ \/ Finish(t, "err")
     \/ /\ UNCHANGED calls
        /\ Goto(t, IF th[t].kind # "diagnose" THEN "check"
                   ELSE IF helper[th[t].host] = "up" \/ remote[th[t].host]["helper"] = "missing"
                   THEN "health" ELSE "restart")
  /\ UNCHANGED <<saved, mister>>

\* ensure_file: the hashes agree, or differ, or sha256sum fails and the file is
\* uploaded whatever it holds: through SFTP, which truncates it first, or through the
\* base64 fallback, which may raise before, while or after it writes the file.
Check(t) ==
  LET now == remote[th[t].host][Asset(t)]
  IN /\ th[t].pc = "check"
     /\ \/ now \in {"current", "maybe"} /\ SetFile(t, "current") /\ AfterAsset(t) /\ UNCHANGED calls
        \/ SetFile(t, "partial") /\ Goto(t, "put") /\ UNCHANGED calls
        \/ SetFile(t, "maybe") /\ AfterAsset(t) /\ UNCHANGED calls
        \/ Finish(t, "err") /\ (UNCHANGED remote \/ SetFile(t, "maybe"))
     /\ UNCHANGED <<saved, helper>>

\* sftp.put: done, or raises and leaves a part of the file.
Put(t) ==
  /\ th[t].pc = "put"
  /\ \/ SetFile(t, "current") /\ AfterAsset(t) /\ UNCHANGED calls
     \/ Finish(t, "err") /\ UNCHANGED remote
  /\ UNCHANGED <<saved, helper>>

\* restart_helper: pkill, then nohup in the background.  The new process may not
\* start; while the old one is still dying its port is still open.
Restart(t) ==
  LET h == th[t].host
  IN /\ th[t].pc = "restart"
     /\ helper' \in {[helper EXCEPT ![h] = x] :
          x \in {"down"} \cup (IF helper[h] = "up" THEN {"dying"} ELSE {})
                \cup (IF remote[h]["helper"] \in {"old", "maybe", "current"} THEN {"up"} ELSE {})}
     /\ Goto(t, "wait")
     /\ UNCHANGED <<calls, saved, remote>>

\* nc -z up to 20 times; only a deployment gives up after that.
Wait(t) ==
  LET h == th[t].host
  IN /\ th[t].pc = "wait"
     /\ helper' = [helper EXCEPT ![h] = IF @ = "dying" THEN "down" ELSE @]
     /\ \/ (helper[h] # "down" \/ th[t].kind = "diagnose") /\ Goto(t, "health") /\ UNCHANGED calls
        \/ Finish(t, "err")
     /\ UNCHANGED <<saved, remote>>

\* probe_mister_helper, for the GUI inside a second diagnosis.
Health(t) ==
  /\ th[t].pc = "health"
  /\ \/ (helper[th[t].host] = "up" \/ th[t].kind = "diagnose") /\ Finish(t, "ok")
     \/ Finish(t, "err")
  /\ UNCHANGED <<saved, mister>>

ThreadStep(t) ==
  /\ Connect(t) \/ Tools(t) \/ Check(t) \/ Put(t) \/ Restart(t) \/ Wait(t) \/ Health(t)
  /\ UNCHANGED <<guiVars, running, config, disturbed, session, workers>>

\* The MiSTer is switched off and on.
Reboot(h) ==
  /\ helper[h] # "down" /\ helper' = [helper EXCEPT ![h] = "down"]
  /\ UNCHANGED <<guiVars, setupVars, session, remote, workers>>

-----------------------------------------------------------------------------
(* Sessions *)

\* RelaySetupScreen._connect (a ValueError stays), then SessionScreen.on_show.
ConnectSession ==
  /\ screen = "relay_setup" /\ connectBtn /\ (endpoint = "mister" => config # None)
  /\ screen' = "session"
  /\ session' = IF endpoint = "mister" THEN config
                ELSE [endpoint |-> "edn8", rom |-> None, host |-> None]
  /\ \E w \in Ws :
       /\ wpc[w] = "idle" /\ \A v \in 1 .. w - 1 : wpc[v] # "idle"
       /\ wpc' = [wpc EXCEPT ![w] = "opening"] /\ wcfg' = [wcfg EXCEPT ![w] = session']
       /\ worker' = w
  /\ UNCHANGED <<endpoint, rom, host, deployBtn, diagBtn, contBtn, connectBtn, code, com,
                 setupVars, mister, stop>>

\* _disconnect: stop() waits at most three seconds for the thread to end.
Disconnect ==
  /\ screen = "session" /\ ShowRelaySetup
  /\ stop' = [stop EXCEPT ![worker] = TRUE]
  /\ UNCHANGED <<endpoint, rom, host, deployBtn, diagBtn, contBtn, setupVars, session, mister,
                 wpc, wcfg, worker>>

\* _run: the endpoint and the relay are opened, or an exception ends the thread.
OpenSession(w) ==
  /\ wpc[w] = "opening"
  /\ \E label \in {"loop", "ended"} : wpc' = [wpc EXCEPT ![w] = label]
  /\ UNCHANGED <<guiVars, setupVars, session, mister, wcfg, stop, worker>>

\* The loop looks at the stop flag once per iteration, and the blocking calls of an
\* iteration may put that off for any time: nothing is fair to a worker.
LeaveLoop(w) ==
  /\ wpc[w] = "loop" /\ stop[w]
  /\ wpc' = [wpc EXCEPT ![w] = "ended"]
  /\ UNCHANGED <<guiVars, setupVars, session, mister, wcfg, stop, worker>>

\* An exception that reaches the end of _run.
WorkerFails(w) ==
  /\ wpc[w] = "loop" /\ wpc' = [wpc EXCEPT ![w] = "ended"]
  /\ UNCHANGED <<guiVars, setupVars, session, mister, wcfg, stop, worker>>

-----------------------------------------------------------------------------
UserStep ==
  \/ \E d \in {"edn8", "mister"} : SelectDevice(d)
  \/ \E h \in Hosts \cup {None} : TypeHost(h)
  \/ \E r \in Roms : PickFile(r)
  \/ \E ok \in BOOLEAN : TypeCode(ok)
  \/ \E r \in CliRoms, h \in Hosts : CliDeploy(r, h)
  \/ DeployToMister \/ DiagnoseMister \/ Continue \/ Back \/ ConnectSession \/ Disconnect

Next ==
  \/ UserStep \/ HandleCall
  \/ \E t \in Ids : ThreadStep(t)
  \/ \E w \in Ws : OpenSession(w) \/ LeaveLoop(w) \/ WorkerFails(w)
  \/ \E h \in Hosts : Reboot(h)

\* Tk serves its queue, and every blocking call of a deploy or diagnose thread ends:
\* SSH commands and the helper's sockets have timeouts; sftp.put has none of its own
\* and ends with its connection.  The user and the sessions owe nothing.
Fairness ==
  /\ WF_vars(HandleCall)
  /\ \A t \in Ids : WF_vars(ThreadStep(t))

Spec == Init /\ [][Next]_vars
FairSpec == Spec /\ Fairness
=============================================================================
