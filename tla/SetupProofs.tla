---------------------------- MODULE SetupProofs ----------------------------
(* A session runs only with what was deployed, for any numbers of ROMs,     *)
(* MiSTers, threads and sessions.                                           *)
EXTENDS SetupProps, TLAPS

Kinds == {"deploy", "cli", "diagnose"}
Thread == [kind : Kinds \cup {None}, file : {"helper", "core", "rom"},
           pc : {"idle", "connect", "tools", "check", "put", "restart", "wait", "health", "ok", "err"},
           rom : Roms \cup {None}, host : Hosts \cup {None}]
Call == [what : {"deployed", "failed", "diagnosed"},
         rom : Roms \cup {None}, host : Hosts \cup {None}]

\* The part of TypeOK the argument needs.
Shapes ==
  /\ rom \in Roms \cup {None} /\ host \in Hosts \cup {None} /\ saved \in Hosts \cup {None}
  /\ th \in [Ids -> Thread] /\ calls \in Seq(Call)
  /\ config \in Config \cup {None} /\ wcfg \in [Ws -> Config \cup {None}]

\* A thread that was started has a kind.
Started == \A t \in Ids : th[t].pc # "idle" => th[t].kind \in Kinds

\* "deployed" in Tk's queue comes from a deployment that went through.
CallsTrue == \A i \in 1 .. Len(calls) : calls[i].what = "deployed" => Deployed(calls[i])

SessionInv == Shapes /\ Started /\ CallsTrue /\ NoSessionWithoutDeploy

\* A deployment that went through has gone through for ever, when threads that
\* are over stay as they are.
LEMMA DeployedStays ==
  ASSUME NEW c, Deployed(c),
         \A t \in Ids : th[t].pc = "ok" => th'[t] = th[t]
  PROVE  \E t \in Ids : th'[t].kind = "deploy" /\ th'[t].pc = "ok"
                        /\ th'[t].rom = c.rom /\ th'[t].host = c.host
BY DEF Deployed

\* Starting a thread leaves the others alone.
LEMMA StartStep ==
  ASSUME Shapes, Started, NEW kind \in Kinds,
         NEW r \in Roms \cup {None}, NEW h \in Hosts \cup {None}, Start(kind, r, h)
  PROVE  /\ th' \in [Ids -> Thread] /\ Started'
         /\ \A t \in Ids : th[t].pc = "ok" => th'[t] = th[t]
<1> DEFINE new == [kind |-> kind, file |-> "helper", pc |-> "connect", rom |-> r, host |-> h]
<1>1. PICK t0 \in Ids : th[t0].pc = "idle" /\ th' = [th EXCEPT ![t0] = new]
  BY DEF Start
<1>2. new \in Thread
  BY DEF Thread
<1>3. th \in [Ids -> Thread]
  BY DEF Shapes
<1>4. th' \in [Ids -> Thread]
  BY <1>1, <1>2, <1>3
<1>5. new.pc = "connect" /\ new.kind = kind
  OBVIOUS
<1> HIDE DEF new
<1>6. \A t \in Ids : th'[t] = IF t = t0 THEN new ELSE th[t]
  BY <1>1, <1>3
<1> QED  BY <1>1, <1>4, <1>5, <1>6 DEF Started

\* Where one thread goes, with its results in Tk's queue.
Moves(t) ==
  /\ \A u \in Ids \ {t} : th'[u] = th[u]
  /\ th'[t] \in Thread /\ th'[t].kind = th[t].kind /\ th'[t].rom = th[t].rom
  /\ th'[t].host = th[t].host
  /\ th'[t].pc # "idle"
  /\ \/ calls' = calls
     \/ \E what \in {"deployed", "failed", "diagnosed"} :
          /\ calls' = Append(calls, [what |-> what, rom |-> th[t].rom, host |-> th[t].host])
          /\ what = "deployed" => th[t].kind = "deploy" /\ th'[t].pc = "ok"

\* th[t].pc = label moves thread t and no other.
LEMMA GotoMoves ==
  ASSUME Shapes, NEW t \in Ids, NEW label \in {"tools", "check", "put", "restart", "wait", "health", "ok", "err"},
         Goto(t, label)
  PROVE  /\ th' \in [Ids -> Thread]
         /\ \A u \in Ids \ {t} : th'[u] = th[u]
         /\ th'[t].pc = label /\ th'[t].kind = th[t].kind /\ th'[t].rom = th[t].rom
         /\ th'[t].host = th[t].host
<1>1. th \in [Ids -> Thread] /\ th' = [th EXCEPT ![t].pc = label]
  BY DEF Shapes, Goto
<1>2. [th[t] EXCEPT !.pc = label] \in Thread
  BY <1>1 DEF Thread
<1> QED  BY <1>1, <1>2 DEF Thread

\* So does going on to the next file.
LEMMA AssetMoves ==
  ASSUME Shapes, NEW t \in Ids, AfterAsset(t)
  PROVE  /\ th' \in [Ids -> Thread]
         /\ \A u \in Ids \ {t} : th'[u] = th[u]
         /\ th'[t].pc \in {"restart", "check"} /\ th'[t].kind = th[t].kind
         /\ th'[t].rom = th[t].rom /\ th'[t].host = th[t].host
BY ZenonT(60) DEF Shapes, AfterAsset, Thread

\* A thread that ends posts what it was started with; "deployed" only when it
\* is a deployment that went through.
LEMMA FinishMoves ==
  ASSUME Shapes, Started, NEW t \in Ids, th[t].pc # "idle", NEW label \in {"ok", "err"},
         Finish(t, label)
  PROVE  th' \in [Ids -> Thread] /\ Moves(t)
<1>1. Goto(t, label)
  BY DEF Finish
<1>2. th[t].kind \in Kinds
  BY DEF Started
<1>3. \/ calls' = calls
      \/ \E what \in {"deployed", "failed", "diagnosed"} :
          /\ calls' = Append(calls, [what |-> what, rom |-> th[t].rom, host |-> th[t].host])
          /\ what = "deployed" => th[t].kind = "deploy" /\ label = "ok"
  BY <1>2 DEF Finish, Result, Kinds
<1> QED  BY <1>1, <1>3, GotoMoves DEF Moves

\* Every step of a thread is such a move.
LEMMA ThreadMoves ==
  ASSUME Shapes, Started, NEW t \in Ids, ThreadStep(t)
  PROVE  th[t].pc \notin {"idle", "ok"} /\ th' \in [Ids -> Thread] /\ Moves(t)
<1>1. CASE Connect(t)
  <2>1. th[t].pc = "connect"
    BY <1>1 DEF Connect
  <2>2. CASE Goto(t, "tools") /\ UNCHANGED calls
    BY <2>1, <2>2, GotoMoves DEF Moves
  <2>3. CASE \E label \in {"ok", "err"} : Finish(t, label)
    BY <2>1, <2>3, FinishMoves
  <2> QED  BY <1>1, <2>2, <2>3 DEF Connect
<1>2. CASE Tools(t)
  <2>1. th[t].pc = "tools"
    BY <1>2 DEF Tools
  <2>2. CASE UNCHANGED calls /\ \E label \in {"check", "health", "restart"} : Goto(t, label)
    BY <2>1, <2>2, GotoMoves DEF Moves
  <2>3. CASE Finish(t, "err")
    BY <2>1, <2>3, FinishMoves
  <2> QED  BY <1>2, <2>2, <2>3 DEF Tools
<1>3. CASE Check(t)
  <2>1. th[t].pc = "check"
    BY <1>3 DEF Check
  <2>2. CASE UNCHANGED calls /\ AfterAsset(t)
    BY <2>1, <2>2, AssetMoves DEF Moves
  <2>3. CASE UNCHANGED calls /\ Goto(t, "put")
    BY <2>1, <2>3, GotoMoves DEF Moves
  <2>4. CASE Finish(t, "err")
    BY <2>1, <2>4, FinishMoves
  <2> QED  BY <1>3, <2>2, <2>3, <2>4 DEF Check
<1>4. CASE Put(t)
  <2>1. th[t].pc = "put"
    BY <1>4 DEF Put
  <2>2. CASE UNCHANGED calls /\ AfterAsset(t)
    BY <2>1, <2>2, AssetMoves DEF Moves
  <2>3. CASE Finish(t, "err")
    BY <2>1, <2>3, FinishMoves
  <2> QED  BY <1>4, <2>2, <2>3 DEF Put
<1>5. CASE Restart(t)
  <2>1. th[t].pc = "restart" /\ Goto(t, "wait") /\ UNCHANGED calls
    BY <1>5 DEF Restart
  <2> QED  BY <2>1, GotoMoves DEF Moves
<1>6. CASE Wait(t)
  <2>1. th[t].pc = "wait"
    BY <1>6 DEF Wait
  <2>2. CASE UNCHANGED calls /\ Goto(t, "health")
    BY <2>1, <2>2, GotoMoves DEF Moves
  <2>3. CASE Finish(t, "err")
    BY <2>1, <2>3, FinishMoves
  <2> QED  BY <1>6, <2>2, <2>3 DEF Wait
<1>7. CASE Health(t)
  <2>1. th[t].pc = "health"
    BY <1>7 DEF Health
  <2> QED  BY <1>7, <2>1, FinishMoves DEF Health
<1> QED  BY <1>1, <1>2, <1>3, <1>4, <1>5, <1>6, <1>7 DEF ThreadStep

-----------------------------------------------------------------------------
\* The steps of the threads keep the invariant.
LEMMA ThreadKeeps ==
  ASSUME SessionInv, NEW t \in Ids, ThreadStep(t)
  PROVE  SessionInv'
<1>1. Shapes /\ Started /\ CallsTrue /\ NoSessionWithoutDeploy
  BY DEF SessionInv
<1>2. th[t].pc \notin {"idle", "ok"} /\ th' \in [Ids -> Thread] /\ Moves(t)
  BY <1>1, ThreadMoves
<1>3. UNCHANGED <<rom, host, config, contBtn, wcfg>> /\ saved' \in Hosts \cup {None}
  <2>1. UNCHANGED <<rom, host, config, contBtn, wcfg>>
    BY DEF ThreadStep, guiVars, workers
  <2>2. th[t].host \in Hosts \cup {None}
    BY <1>1 DEF Shapes, Thread
  <2>3. saved' = saved \/ saved' = th[t].host
    BY DEF ThreadStep, Connect, Tools, Check, Put, Restart, Wait, Health
  <2> QED  BY <1>1, <2>1, <2>2, <2>3 DEF Shapes
<1>4. \A u \in Ids : th[u].pc = "ok" => th'[u] = th[u]
  BY <1>2 DEF Moves
<1>5. Started'
  BY <1>1, <1>2 DEF Started, Moves
<1>6. calls' \in Seq(Call) /\ CallsTrue'
  <2>1. th[t].rom \in Roms \cup {None} /\ th[t].host \in Hosts \cup {None} /\ calls \in Seq(Call)
    BY <1>1 DEF Shapes, Thread
  <2>2. ASSUME NEW i \in 1 .. Len(calls), calls[i].what = "deployed"
        PROVE  \E u \in Ids : /\ th'[u].kind = "deploy" /\ th'[u].pc = "ok"
                              /\ th'[u].rom = calls[i].rom /\ th'[u].host = calls[i].host
    <3>1. Deployed(calls[i])
      BY <1>1, <2>2 DEF CallsTrue
    <3> QED  BY <3>1, <1>4, DeployedStays
  <2>3. CASE calls' = calls
    BY <2>1, <2>2, <2>3 DEF CallsTrue, Deployed
  <2>4. ASSUME NEW what \in {"deployed", "failed", "diagnosed"},
               calls' = Append(calls, [what |-> what, rom |-> th[t].rom, host |-> th[t].host]),
               what = "deployed" => th[t].kind = "deploy" /\ th'[t].pc = "ok"
        PROVE  calls' \in Seq(Call) /\ CallsTrue'
    <3> DEFINE new == [what |-> what, rom |-> th[t].rom, host |-> th[t].host]
    <3>1. new \in Call
      BY <2>1 DEF Call
    <3>2. new.what = what /\ new.rom = th[t].rom /\ new.host = th[t].host
      OBVIOUS
    <3>3. calls' = Append(calls, new)
      BY <2>4
    <3> HIDE DEF new
    <3>4. calls' \in Seq(Call) /\ Len(calls') = Len(calls) + 1
      BY <2>1, <3>1, <3>3
    <3>5. \A i \in 1 .. Len(calls') : calls'[i] = IF i \in 1 .. Len(calls) THEN calls[i] ELSE new
      BY <2>1, <3>1, <3>3
    <3>6. what = "deployed" =>
            /\ th'[t].kind = "deploy" /\ th'[t].pc = "ok"
            /\ th'[t].rom = new.rom /\ th'[t].host = new.host
      BY <1>2, <2>4, <3>2 DEF Moves
    <3>7. ASSUME NEW i \in 1 .. Len(calls'), calls'[i].what = "deployed"
          PROVE  \E u \in Ids : /\ th'[u].kind = "deploy" /\ th'[u].pc = "ok"
                                /\ th'[u].rom = calls'[i].rom /\ th'[u].host = calls'[i].host
      <4>1. CASE i \in 1 .. Len(calls)
        BY <2>2, <3>5, <3>7, <4>1
      <4>2. CASE i \notin 1 .. Len(calls)
        BY <3>2, <3>5, <3>6, <3>7, <4>2
      <4> QED  BY <4>1, <4>2
    <3> QED  BY <3>4, <3>7 DEF CallsTrue, Deployed
  <2> QED  BY <1>2, <2>3, <2>4 DEF Moves
<1>7. NoSessionWithoutDeploy'
  BY <1>1, <1>3, <1>4, DeployedStays DEF NoSessionWithoutDeploy, Deployed
<1> QED  BY <1>1, <1>2, <1>3, <1>5, <1>6, <1>7 DEF SessionInv, Shapes

\* So do the steps that leave finished threads, Tk's queue and the sessions
\* alone, and either keep the configuration or drop it.
LEMMA QuietKeeps ==
  ASSUME SessionInv, th' \in [Ids -> Thread], Started',
         \A t \in Ids : th[t].pc = "ok" => th'[t] = th[t],
         UNCHANGED <<calls, wcfg>>, config' \in {config, None}, contBtn' => config' # None,
         rom' \in Roms \cup {None}, host' \in Hosts \cup {None}, saved' \in Hosts \cup {None}
  PROVE  SessionInv'
<1>1. Shapes /\ Started /\ CallsTrue /\ NoSessionWithoutDeploy
  BY DEF SessionInv
<1>2. Shapes'
  BY <1>1 DEF Shapes
<1>3. CallsTrue'
  BY <1>1, DeployedStays DEF CallsTrue, Deployed
<1>4. NoSessionWithoutDeploy'
  BY <1>1, DeployedStays DEF NoSessionWithoutDeploy, Deployed
<1> QED  BY <1>2, <1>3, <1>4 DEF SessionInv

\* The three handlers that start a thread.
LEMMA StartKeeps ==
  ASSUME SessionInv,
         DeployToMister \/ DiagnoseMister \/ \E r \in CliRoms, h \in Hosts : CliDeploy(r, h)
  PROVE  SessionInv'
<1>1. Shapes /\ Started /\ (contBtn => config # None)
  BY DEF SessionInv, NoSessionWithoutDeploy
<1>2. rom \in Roms \cup {None} /\ host \in Hosts \cup {None} /\ saved \in Hosts \cup {None}
  BY <1>1 DEF Shapes
<1>3. \E kind \in Kinds, r \in Roms \cup {None}, h \in Hosts \cup {None} : Start(kind, r, h)
  <2>1. CASE DeployToMister
    BY <1>2, <2>1 DEF DeployToMister, Kinds
  <2>2. CASE DiagnoseMister
    BY <1>2, <2>2 DEF DiagnoseMister, Kinds
  <2>3. CASE \E r \in CliRoms, h \in Hosts : CliDeploy(r, h)
    BY <2>3, SetupAssumption DEF CliDeploy, Kinds
  <2> QED  BY <2>1, <2>2, <2>3
<1>4. /\ th' \in [Ids -> Thread] /\ Started'
      /\ \A t \in Ids : th[t].pc = "ok" => th'[t] = th[t]
  BY <1>1, <1>3, StartStep
<1>5. /\ UNCHANGED <<calls, wcfg, rom, host, saved>>
      /\ config' \in {config, None} /\ (contBtn' => config' # None)
  BY <1>1 DEF DeployToMister, DiagnoseMister, CliDeploy, guiVars, workers
<1> QED  BY <1>2, <1>4, <1>5, QuietKeeps

\* Tk runs the oldest callback: the configuration it sets was deployed.
LEMMA HandleCallKeeps ==
  ASSUME SessionInv, HandleCall
  PROVE  SessionInv'
<1>1. Shapes /\ Started /\ CallsTrue /\ NoSessionWithoutDeploy
  BY DEF SessionInv
<1>2. UNCHANGED <<rom, host, saved, th, wcfg>> /\ calls # <<>> /\ calls' = Tail(calls)
  BY DEF HandleCall, workers
<1>3. calls \in Seq(Call)
  BY <1>1 DEF Shapes
<1>4. /\ Len(calls) > 0 /\ calls' \in Seq(Call) /\ Len(calls') = Len(calls) - 1
      /\ \A i \in 1 .. Len(calls') : i + 1 \in 1 .. Len(calls) /\ calls'[i] = calls[i + 1]
  BY <1>2, <1>3
<1>5. Head(calls) = calls[1] /\ 1 \in 1 .. Len(calls) /\ Head(calls) \in Call
  BY <1>3, <1>4
<1>6. CallsTrue'
  BY <1>1, <1>2, <1>4 DEF CallsTrue, Deployed
<1>7. config' \in Config \cup {None} /\ (contBtn' => config' # None)
      /\ (config' # None => Deployed(config'))
  <2>1. CASE Head(calls).what = "deployed"
    <3> DEFINE new == [endpoint |-> "mister", rom |-> Head(calls).rom, host |-> Head(calls).host]
    <3>1. config' = new
      BY <2>1 DEF HandleCall
    <3>2. new \in Config
      BY <1>5 DEF Config, Call
    <3>3. Deployed(Head(calls))
      BY <1>1, <1>5, <2>1 DEF CallsTrue
    <3>4. Deployed(new)
      BY <3>3 DEF Deployed
    <3> QED  BY <3>1, <3>2, <3>4, NoneIsNoConfig
  <2>2. CASE Head(calls).what = "failed"
    BY <2>2 DEF HandleCall
  <2>3. CASE Head(calls).what = "diagnosed"
    <3>1. config' = config /\ contBtn' = contBtn
      BY <2>3 DEF HandleCall
    <3> QED  BY <1>1, <3>1 DEF Shapes, NoSessionWithoutDeploy
  <2> QED  BY <1>5, <2>1, <2>2, <2>3 DEF Call
<1>8. NoSessionWithoutDeploy'
  BY <1>1, <1>2, <1>7 DEF NoSessionWithoutDeploy, Deployed
<1> QED  BY <1>1, <1>2, <1>4, <1>6, <1>7, <1>8 DEF SessionInv, Shapes, Started

\* A session starts with the configuration of the ROM screen.
LEMMA ConnectKeeps ==
  ASSUME SessionInv, ConnectSession
  PROVE  SessionInv'
<1>1. Shapes /\ Started /\ CallsTrue /\ NoSessionWithoutDeploy
  BY DEF SessionInv
<1>2. UNCHANGED <<rom, host, saved, th, calls, config, contBtn>>
  BY DEF ConnectSession, setupVars
<1>3. session' \in Config /\ (session'.endpoint = "mister" => Deployed(session'))
  <2> DEFINE edn8 == [endpoint |-> "edn8", rom |-> None, host |-> None]
  <2>1. edn8 \in Config /\ edn8.endpoint = "edn8"
    BY DEF Config
  <2>2. CASE endpoint = "mister"
    <3>1. session' = config /\ config # None
      BY <2>2 DEF ConnectSession
    <3> QED  BY <1>1, <3>1 DEF Shapes, NoSessionWithoutDeploy
  <2>3. CASE endpoint # "mister"
    <3>1. session' = edn8
      BY <2>3 DEF ConnectSession
    <3> QED  BY <2>1, <3>1
  <2> QED  BY <2>2, <2>3
<1>4. PICK w \in Ws : wcfg' = [wcfg EXCEPT ![w] = session']
  BY DEF ConnectSession
<1>5. /\ wcfg' \in [Ws -> Config \cup {None}]
      /\ \A v \in Ws : wcfg'[v] = IF v = w THEN session' ELSE wcfg[v]
  BY <1>1, <1>3, <1>4 DEF Shapes
<1>6. NoSessionWithoutDeploy'
  BY <1>1, <1>2, <1>3, <1>5 DEF NoSessionWithoutDeploy, Deployed
<1> QED  BY <1>1, <1>2, <1>5, <1>6 DEF SessionInv, Shapes, Started, CallsTrue, Deployed

\* The invariant behind the sessions holds however screens and threads interleave.
THEOREM SessionInvariant == Spec => []SessionInv
<1>1. Init => SessionInv
  <2> SUFFICES ASSUME Init PROVE SessionInv
    OBVIOUS
  <2>1. calls \in Seq(Call) /\ Len(calls) = 0
    BY DEF Init
  <2>2. th \in [Ids -> Thread] /\ \A t \in Ids : th[t].pc = "idle"
    BY DEF Init, Thread, Kinds
  <2>3. Shapes
    BY <2>1, <2>2 DEF Init, Shapes
  <2>4. NoSessionWithoutDeploy
    BY DEF Init, NoSessionWithoutDeploy
  <2> QED  BY <2>1, <2>2, <2>3, <2>4 DEF SessionInv, Started, CallsTrue
<1>2. SessionInv /\ [Next]_vars => SessionInv'
  <2> SUFFICES ASSUME SessionInv, [Next]_vars PROVE SessionInv'
    OBVIOUS
  <2>1. Shapes /\ Started /\ (contBtn => config # None)
    BY DEF SessionInv, NoSessionWithoutDeploy
  <2>2. /\ rom \in Roms \cup {None} /\ host \in Hosts \cup {None}
        /\ saved \in Hosts \cup {None} /\ th \in [Ids -> Thread]
    BY <2>1 DEF Shapes
  <2>3. ASSUME UNCHANGED <<th, calls, wcfg, saved>>, config' \in {config, None},
               contBtn' => config' # None,
               rom' \in Roms \cup {None}, host' \in Hosts \cup {None}
        PROVE  SessionInv'
    <3>1. Started'
      BY <2>1, <2>3 DEF Started
    <3> QED  BY <2>2, <2>3, <3>1, QuietKeeps
  <2>4. ASSUME NEW d \in {"edn8", "mister"}, SelectDevice(d) PROVE SessionInv'
    BY <2>2, <2>3, <2>4 DEF SelectDevice, workers
  <2>5. ASSUME NEW h \in Hosts \cup {None}, TypeHost(h) PROVE SessionInv'
    BY <2>1, <2>2, <2>3, <2>5 DEF TypeHost, workers
  <2>6. ASSUME NEW r \in Roms, PickFile(r) PROVE SessionInv'
    BY <2>1, <2>2, <2>3, <2>6 DEF PickFile, InspectRom, workers
  <2>7. ASSUME NEW ok \in BOOLEAN, TypeCode(ok) PROVE SessionInv'
    BY <2>1, <2>2, <2>3, <2>7 DEF TypeCode, setupVars, workers
  <2>8. CASE DeployToMister \/ DiagnoseMister \/ \E r \in CliRoms, h \in Hosts : CliDeploy(r, h)
    BY <2>8, StartKeeps
  <2>9. CASE Continue
    BY <2>1, <2>2, <2>3, <2>9 DEF Continue, setupVars, workers
  <2>10. CASE Back
    BY <2>1, <2>2, <2>3, <2>10 DEF Back, workers
  <2>11. CASE ConnectSession
    BY <2>11, ConnectKeeps
  <2>12. CASE Disconnect
    BY <2>1, <2>2, <2>3, <2>12 DEF Disconnect, setupVars
  <2>13. CASE HandleCall
    BY <2>13, HandleCallKeeps
  <2>14. ASSUME NEW t \in Ids, ThreadStep(t) PROVE SessionInv'
    BY <2>14, ThreadKeeps
  <2>15. ASSUME NEW w \in Ws, OpenSession(w) \/ LeaveLoop(w) \/ WorkerFails(w) PROVE SessionInv'
    BY <2>1, <2>2, <2>3, <2>15 DEF OpenSession, LeaveLoop, WorkerFails, guiVars, setupVars
  <2>16. ASSUME NEW h \in Hosts, Reboot(h) PROVE SessionInv'
    BY <2>1, <2>2, <2>3, <2>16 DEF Reboot, guiVars, setupVars, workers
  <2>17. CASE UNCHANGED vars
    BY <2>1, <2>2, <2>3, <2>17 DEF vars, guiVars, setupVars, workers
  <2> QED  BY <2>4, <2>5, <2>6, <2>7, <2>8, <2>9, <2>10, <2>11, <2>12, <2>13, <2>14, <2>15,
              <2>16, <2>17 DEF Next, UserStep
<1> QED  BY <1>1, <1>2, PTL DEF Spec

\* Whatever the user clicks while threads are running, in the GUI and from the
\* command line: Continue is enabled only with a configuration (_on_mister_deploy_success,
\* _pick_file, _deploy_to_mister), and every MiSTer session has the host and the
\* ROM of a deployment that went through.
THEOREM SessionsDeployed == Spec => []NoSessionWithoutDeploy
<1>1. SessionInv => NoSessionWithoutDeploy
  BY DEF SessionInv
<1> QED  BY <1>1, SessionInvariant, PTL

-----------------------------------------------------------------------------
(* Types *)

Flags ==
  /\ running \in BOOLEAN /\ deployBtn \in BOOLEAN /\ diagBtn \in BOOLEAN /\ contBtn \in BOOLEAN
  /\ connectBtn \in BOOLEAN /\ code \in BOOLEAN /\ com \in BOOLEAN /\ disturbed \in BOOLEAN
Screens ==
  /\ screen \in {"device_select", "rom_setup", "relay_setup", "session"}
  /\ endpoint \in {"edn8", "mister"}
FileStates == {"missing", "old", "partial", "maybe", "current"}
Devices ==
  /\ remote \in [Hosts -> [Files -> FileStates]]
  /\ helper \in [Hosts -> {"down", "dying", "up"}]
Sessions ==
  /\ session \in Config \cup {None}
  /\ wpc \in [Ws -> {"idle", "opening", "loop", "ended"}]
  /\ stop \in [Ws -> BOOLEAN] /\ worker \in Ws \cup {None}

\* TypeOK, part by part.
LEMMA TypeParts == TypeOK <=> Shapes /\ Flags /\ Screens /\ Devices /\ Sessions
<1>1. {running, deployBtn, diagBtn, contBtn, connectBtn, code, com, disturbed} \subseteq BOOLEAN <=> Flags
  BY Zenon DEF Flags
<1> QED  BY <1>1 DEF TypeOK, Shapes, Screens, Devices, Sessions, Thread, Call, Kinds, FileStates

\* A step of a thread touches one MiSTer, and nothing of the screens.
LEMMA ThreadTypes ==
  ASSUME Devices, NEW t \in Ids, ThreadStep(t)
  PROVE  /\ UNCHANGED <<guiVars, running, config, disturbed, session, workers>> /\ Devices'
<1>1. UNCHANGED <<guiVars, running, config, disturbed, session, workers>>
  BY DEF ThreadStep
<1>2. ASSUME NEW v \in FileStates, SetFile(t, v) PROVE remote' \in [Hosts -> [Files -> FileStates]]
  BY <1>2 DEF SetFile, Devices
<1>3. remote' = remote \/ \E v \in FileStates : SetFile(t, v)
  BY DEF ThreadStep, Connect, Tools, Check, Put, Restart, Wait, Health, mister, FileStates
<1>4. helper' \in [Hosts -> {"down", "dying", "up"}]
  <2>1. CASE Restart(t)
    BY <2>1 DEF Restart, Devices
  <2>2. CASE Wait(t)
    BY <2>2 DEF Wait, Devices
  <2>3. CASE helper' = helper
    BY <2>3 DEF Devices
  <2> QED  BY <2>1, <2>2, <2>3 DEF ThreadStep, Connect, Tools, Check, Put, Health, mister
<1> QED  BY <1>1, <1>2, <1>3, <1>4 DEF Devices

\* Every step keeps the types.
LEMMA TypeStep ==
  ASSUME TypeOK, Shapes', [Next]_vars
  PROVE  TypeOK'
<1>1. Shapes /\ Flags /\ Screens /\ Devices /\ Sessions
  BY TypeParts
<1>2. SUFFICES (Flags /\ Screens /\ Devices /\ Sessions)'
  BY TypeParts, PTL
<1>3. ASSUME UNCHANGED <<session, mister, workers>>, Flags', Screens'
      PROVE  (Flags /\ Screens /\ Devices /\ Sessions)'
  BY <1>1, <1>3 DEF mister, workers, Devices, Sessions
<1>4. ASSUME NEW d \in {"edn8", "mister"}, SelectDevice(d) PROVE (Flags /\ Screens /\ Devices /\ Sessions)'
  <2>1. Flags'
    BY <1>1, <1>4 DEF SelectDevice, UpdateDeployState, Flags
  <2>2. Screens'
    BY <1>4 DEF SelectDevice, Screens
  <2> QED  BY <1>3, <1>4, <2>1, <2>2 DEF SelectDevice
<1>5. ASSUME NEW h \in Hosts \cup {None}, TypeHost(h) PROVE (Flags /\ Screens /\ Devices /\ Sessions)'
  <2>1. Flags' /\ Screens'
    BY <1>1, <1>5 DEF TypeHost, UpdateDeployState, Flags, Screens
  <2> QED  BY <1>3, <1>5, <2>1 DEF TypeHost
<1>6. ASSUME NEW r \in Roms, PickFile(r) PROVE (Flags /\ Screens /\ Devices /\ Sessions)'
  <2>1. Flags' /\ Screens'
    BY <1>1, <1>6 DEF PickFile, InspectRom, UpdateDeployState, Flags, Screens
  <2> QED  BY <1>3, <1>6, <2>1 DEF PickFile
<1>7. ASSUME NEW ok \in BOOLEAN, TypeCode(ok) PROVE (Flags /\ Screens /\ Devices /\ Sessions)'
  <2>1. Flags' /\ Screens'
    BY <1>1, <1>7 DEF TypeCode, ConnectReady, setupVars, Flags, Screens
  <2> QED  BY <1>3, <1>7, <2>1 DEF TypeCode
<1>8. ASSUME NEW r \in CliRoms, NEW h \in Hosts, CliDeploy(r, h) PROVE (Flags /\ Screens /\ Devices /\ Sessions)'
  <2>1. Flags' /\ Screens'
    BY <1>1, <1>8 DEF CliDeploy, Start, guiVars, Flags, Screens
  <2> QED  BY <1>3, <1>8, <2>1 DEF CliDeploy
<1>9. CASE DeployToMister
  <2>1. Flags' /\ Screens'
    BY <1>1, <1>9 DEF DeployToMister, Start, Flags, Screens
  <2> QED  BY <1>3, <1>9, <2>1 DEF DeployToMister
<1>10. CASE DiagnoseMister
  <2>1. Flags' /\ Screens'
    BY <1>1, <1>10 DEF DiagnoseMister, UpdateDeployState, Start, Flags, Screens
  <2> QED  BY <1>3, <1>10, <2>1 DEF DiagnoseMister
<1>11. CASE Continue
  <2>1. Flags' /\ Screens'
    BY <1>1, <1>11 DEF Continue, ShowRelaySetup, ConnectReady, setupVars, Flags, Screens
  <2> QED  BY <1>3, <1>11, <2>1 DEF Continue
<1>12. CASE Back
  <2>1. Flags' /\ Screens'
    BY <1>1, <1>12 DEF Back, UpdateDeployState, Flags, Screens
  <2> QED  BY <1>3, <1>12, <2>1 DEF Back
<1>13. CASE ConnectSession
  <2>1. Flags' /\ Screens' /\ Devices'
    BY <1>1, <1>13 DEF ConnectSession, setupVars, mister, Flags, Screens, Devices
  <2>2. session' \in Config \cup {None}
    BY <1>1, <1>13 DEF ConnectSession, Shapes, Config
  <2>3. Sessions'
    BY <1>1, <1>13, <2>2 DEF ConnectSession, Sessions
  <2> QED  BY <2>1, <2>3
<1>14. CASE Disconnect
  <2>1. Flags' /\ Screens' /\ Devices'
    BY <1>1, <1>14 DEF Disconnect, ShowRelaySetup, ConnectReady, setupVars, mister, Flags, Screens, Devices
  <2>2. Sessions'
    BY <1>1, <1>14 DEF Disconnect, Sessions
  <2> QED  BY <2>1, <2>2
<1>15. CASE HandleCall
  <2>1. Flags' /\ Screens'
    BY <1>1, <1>15 DEF HandleCall, RunningAfter, UpdateDeployState, Flags, Screens
  <2> QED  BY <1>3, <1>15, <2>1 DEF HandleCall
<1>16. ASSUME NEW t \in Ids, ThreadStep(t) PROVE (Flags /\ Screens /\ Devices /\ Sessions)'
  <2>1. UNCHANGED <<guiVars, running, disturbed, session, workers>> /\ Devices'
    BY <1>1, <1>16, ThreadTypes
  <2> QED  BY <1>1, <2>1 DEF guiVars, workers, Flags, Screens, Sessions
<1>17. ASSUME NEW w \in Ws, OpenSession(w) \/ LeaveLoop(w) \/ WorkerFails(w)
       PROVE  (Flags /\ Screens /\ Devices /\ Sessions)'
  <2>1. UNCHANGED <<guiVars, setupVars, mister>>
    BY <1>17 DEF OpenSession, LeaveLoop, WorkerFails
  <2>2. Sessions'
    BY <1>1, <1>17 DEF OpenSession, LeaveLoop, WorkerFails, Sessions
  <2> QED  BY <1>1, <2>1, <2>2 DEF guiVars, setupVars, mister, Flags, Screens, Devices
<1>18. ASSUME NEW h \in Hosts, Reboot(h) PROVE (Flags /\ Screens /\ Devices /\ Sessions)'
  <2>1. Devices'
    BY <1>1, <1>18 DEF Reboot, Devices
  <2> QED  BY <1>1, <1>18, <2>1 DEF Reboot, guiVars, setupVars, workers, Flags, Screens, Sessions
<1>19. CASE UNCHANGED vars
  BY <1>1, <1>19 DEF vars, guiVars, setupVars, mister, workers, Flags, Screens, Devices, Sessions
<1> QED  BY <1>4, <1>5, <1>6, <1>7, <1>8, <1>9, <1>10, <1>11, <1>12, <1>13, <1>14, <1>15, <1>16,
            <1>17, <1>18, <1>19 DEF Next, UserStep

\* Types of the screens, the threads, the MiSTers and the sessions.
THEOREM SetupTypes == Spec => []TypeOK
<1>1. Init => TypeOK
  <2> SUFFICES ASSUME Init PROVE TypeOK
    OBVIOUS
  <2>1. Shapes
    <3>1. calls \in Seq(Call) /\ th \in [Ids -> Thread]
      BY DEF Init, Thread, Kinds
    <3> QED  BY <3>1 DEF Init, Shapes
  <2>2. Flags /\ Screens /\ Sessions
    BY DEF Init, Flags, Screens, Sessions
  <2>3. Devices
    BY DEF Init, Devices, FileStates
  <2> QED  BY <2>1, <2>2, <2>3, TypeParts
<1>2. TypeOK /\ SessionInv' /\ [Next]_vars => TypeOK'
  BY TypeStep DEF SessionInv
<1> QED  BY <1>1, <1>2, SessionInvariant, PTL DEF Spec

-----------------------------------------------------------------------------
(* What was deployed is what the screen shows *)

Good(h, f) == remote[h][f] \in {"current", "maybe"}
AllGood(h, r) == h \in Hosts /\ r \in Roms /\ \A f \in {"helper", "core", r} : Good(h, f)

\* At most one run is under way, or its result waits in Tk's queue.
Single ==
  /\ \A t, u \in Ids : Alive(t) /\ Alive(u) => t = u
  /\ calls = <<>> \/ (Len(calls) = 1 /\ \A t \in Ids : ~Alive(t))

\* How far a deployment is with its files.
Uploaded(t) ==
  LET h == th[t].host
  IN /\ th[t].pc \in {"connect", "tools"} => th[t].file = "helper"
     /\ th[t].pc \in {"check", "put"} /\ th[t].file = "core" => Good(h, "helper")
     /\ th[t].pc \in {"check", "put"} /\ th[t].file = "rom" => Good(h, "helper") /\ Good(h, "core")
     /\ th[t].pc \in {"restart", "wait", "health"} => AllGood(h, th[t].rom)

\* While a deployment is under way, or its result waits, nobody goes past the screen.
Locked == endpoint = "mister" /\ screen = "rom_setup" /\ ~contBtn
Underway == \A t \in Ids :
  /\ th[t].pc # "idle" => th[t].kind # "cli"
  /\ th[t].kind = "diagnose" => th[t].pc \notin {"check", "put"}
  /\ Alive(t) /\ th[t].kind = "deploy" =>
       Locked /\ th[t].host \in Hosts /\ th[t].rom = rom /\ rom # None /\ Uploaded(t)
Reported ==
  calls # <<>> /\ calls[1].what # "diagnosed" =>
    Locked /\ (calls[1].what = "deployed" => calls[1].rom = rom /\ AllGood(calls[1].host, rom))
Shown ==
  /\ contBtn => config # None /\ config.rom = rom /\ AllGood(config.host, rom)
  /\ endpoint = "mister" /\ screen \in {"relay_setup", "session"} => contBtn

ShownInv == ~disturbed => Single /\ Underway /\ Reported /\ Shown

\* A thread at work goes on, or ends and leaves its result in Tk's queue.
LEMMA ThreadShown ==
  ASSUME SessionInv, Devices, Single, Underway, Reported, Shown, NEW t \in Ids, Alive(t),
         \A u \in Ids \ {t} : th'[u] = th[u],
         th'[t].kind = th[t].kind, th'[t].rom = th[t].rom, th'[t].host = th[t].host,
         UNCHANGED <<screen, endpoint, rom, config, contBtn>>,
         th[t].kind = "diagnose" => th'[t].pc \notin {"check", "put"} /\ remote' = remote,
         \/ Alive(t)' /\ calls' = calls /\ (th[t].kind = "deploy" => Uploaded(t)')
         \/ /\ ~Alive(t)'
            /\ \E what \in {"deployed", "failed", "diagnosed"} :
                 /\ calls' = Append(calls, [what |-> what, rom |-> th[t].rom, host |-> th[t].host])
                 /\ what = "diagnosed" <=> th[t].kind = "diagnose"
                 /\ what = "deployed" => AllGood(th[t].host, th[t].rom)'
  PROVE  (Single /\ Underway /\ Reported /\ Shown)'
<1>1. calls = <<>> /\ \A u \in Ids \ {t} : ~Alive(u)
  BY DEF Single
<1>2. \A u \in Ids \ {t} : ~Alive(u)'
  BY <1>1 DEF Alive
<1>3. th[t].kind \in {"deploy", "diagnose"}
  <2>1. th[t].kind \in Kinds /\ th[t].kind # "cli"
    BY DEF SessionInv, Started, Underway, Alive
  <2> QED  BY <2>1 DEF Kinds
<1>4. th[t].kind = "deploy" => Locked /\ th[t].host \in Hosts /\ th[t].rom = rom /\ rom # None
  BY DEF Underway
<1>5. Shown'
  BY <1>3, <1>4 DEF Shown, Locked, AllGood, Good
<1>6. CASE Alive(t)' /\ calls' = calls /\ (th[t].kind = "deploy" => Uploaded(t)')
  <2>1. Single'
    BY <1>1, <1>2, <1>6 DEF Single
  <2>2. Underway'
    BY <1>2, <1>3, <1>4, <1>6 DEF Underway, Locked, Alive
  <2>3. Reported'
    BY <1>1, <1>6 DEF Reported
  <2> QED  BY <1>5, <2>1, <2>2, <2>3
<1>7. CASE /\ ~Alive(t)'
           /\ \E what \in {"deployed", "failed", "diagnosed"} :
                 /\ calls' = Append(calls, [what |-> what, rom |-> th[t].rom, host |-> th[t].host])
                 /\ what = "diagnosed" <=> th[t].kind = "diagnose"
                 /\ what = "deployed" => AllGood(th[t].host, th[t].rom)'
  <2>1. PICK what \in {"deployed", "failed", "diagnosed"} :
                 /\ calls' = Append(calls, [what |-> what, rom |-> th[t].rom, host |-> th[t].host])
                 /\ what = "diagnosed" <=> th[t].kind = "diagnose"
                 /\ what = "deployed" => AllGood(th[t].host, th[t].rom)'
    BY <1>7
  <2> DEFINE r == [what |-> what, rom |-> th[t].rom, host |-> th[t].host]
  <2>2. r.what = what /\ r.rom = th[t].rom /\ r.host = th[t].host
    OBVIOUS
  <2>3. calls' = Append(<<>>, r)
    BY <1>1, <2>1
  <2> HIDE DEF r
  <2>4. Len(calls') = 1 /\ calls'[1] = r
    BY <2>3
  <2>5. Single'
    BY <1>2, <1>7, <2>4 DEF Single
  <2>6. Underway'
    BY <1>2, <1>7 DEF Underway, Alive
  <2>7. Reported'
    <3>1. what # "diagnosed" => Locked /\ th[t].rom = rom
      BY <1>3, <1>4, <2>1
    <3> QED  BY <2>1, <2>2, <2>4, <3>1 DEF Reported, Locked, AllGood, Good
  <2> QED  BY <1>5, <2>5, <2>6, <2>7
<1> QED  BY <1>6, <1>7

Unmoved == UNCHANGED <<screen, endpoint, rom, config, contBtn>>
Quiet == Single /\ Underway /\ Reported /\ Shown

\* A thread ends: a deployment is reported as done only when its files are there.
LEMMA FinishShown ==
  ASSUME SessionInv, Devices, Quiet, Unmoved, NEW t \in Ids, Alive(t), NEW label \in {"ok", "err"},
         Finish(t, label), label = "ok" \/ th[t].kind = "diagnose" => remote' = remote,
         label = "ok" /\ th[t].kind = "deploy" => AllGood(th[t].host, th[t].rom)
  PROVE  Quiet'
<1>1. Shapes /\ Started /\ Single /\ Underway /\ Reported /\ Shown /\ th[t].pc # "idle"
  BY DEF SessionInv, Quiet, Alive
<1>2. th[t].kind \in {"deploy", "diagnose"}
  <2>1. th[t].kind \in Kinds /\ th[t].kind # "cli"
    BY <1>1 DEF Started, Underway
  <2> QED  BY <2>1 DEF Kinds
<1>3. /\ \A u \in Ids \ {t} : th'[u] = th[u]
      /\ th'[t].pc = label /\ th'[t].kind = th[t].kind /\ th'[t].rom = th[t].rom /\ th'[t].host = th[t].host
  BY <1>1, GotoMoves DEF Finish
<1>4. \E what \in {"deployed", "failed", "diagnosed"} :
        /\ calls' = Append(calls, [what |-> what, rom |-> th[t].rom, host |-> th[t].host])
        /\ what = "diagnosed" <=> th[t].kind = "diagnose"
        /\ what = "deployed" => AllGood(th[t].host, th[t].rom)'
  <2>1. CASE th[t].kind = "diagnose"
    <3>1. calls' = Append(calls, [what |-> "diagnosed", rom |-> th[t].rom, host |-> th[t].host])
      BY <2>1 DEF Finish, Result
    <3> QED  BY <2>1, <3>1
  <2>2. CASE th[t].kind = "deploy"
    <3> DEFINE w == IF label = "ok" THEN "deployed" ELSE "failed"
    <3>1. calls' = Append(calls, [what |-> w, rom |-> th[t].rom, host |-> th[t].host])
      BY <2>2 DEF Finish, Result
    <3>2. w \in {"deployed", "failed"} /\ (w = "deployed" => label = "ok")
      OBVIOUS
    <3> HIDE DEF w
    <3>3. w = "deployed" => AllGood(th[t].host, th[t].rom)'
      BY <1>3, <2>2, <3>2 DEF AllGood, Good
    <3> QED  BY <2>2, <3>1, <3>2, <3>3
  <2> QED  BY <1>2, <2>1, <2>2
<1>5. ~Alive(t)' /\ th'[t].pc \notin {"check", "put"}
  BY <1>3 DEF Alive
<1> QED  BY <1>1, <1>3, <1>4, <1>5, ThreadShown DEF Quiet, Unmoved

\* A thread goes on without touching a file.
LEMMA GotoShown ==
  ASSUME SessionInv, Devices, Quiet, Unmoved, NEW t \in Ids, Alive(t),
         NEW label \in {"tools", "check", "put", "restart", "wait", "health"},
         Goto(t, label), UNCHANGED <<calls, remote>>,
         th[t].kind = "diagnose" => label \notin {"check", "put"},
         th[t].kind = "deploy" =>
           \/ th[t].pc \in {"connect", "tools"} /\ label \in {"tools", "check"}
           \/ th[t].pc \in {"restart", "wait", "health"} /\ label \in {"restart", "wait", "health"}
  PROVE  Quiet'
<1>1. Shapes /\ Started /\ Single /\ Underway /\ Reported /\ Shown /\ th[t].pc # "idle"
  BY DEF SessionInv, Quiet, Alive
<1>2. /\ \A u \in Ids \ {t} : th'[u] = th[u]
      /\ th'[t].pc = label /\ th'[t].kind = th[t].kind /\ th'[t].rom = th[t].rom /\ th'[t].host = th[t].host
  BY <1>1, GotoMoves
<1>3. th'[t].file = th[t].file
  BY <1>1 DEF Goto, Shapes, Thread
<1>4. Alive(t)'
  BY <1>2 DEF Alive
<1>5. th[t].kind = "deploy" => Uploaded(t)'
  BY <1>1, <1>2, <1>3 DEF Underway, Uploaded, AllGood, Good
<1> QED  BY <1>1, <1>2, <1>4, <1>5, ThreadShown DEF Quiet, Unmoved

\* A file is written; a deployment goes on only when it is complete.
LEMMA FileShown ==
  ASSUME SessionInv, Devices, Quiet, Unmoved, NEW t \in Ids, th[t].pc \in {"check", "put"},
         NEW v \in FileStates, SetFile(t, v), UNCHANGED calls,
         \/ AfterAsset(t) /\ v \in {"current", "maybe"}
         \/ Goto(t, "put")
  PROVE  Quiet'
<1>1. Shapes /\ Started /\ Single /\ Underway /\ Reported /\ Shown /\ Alive(t)
  BY DEF SessionInv, Quiet, Alive
<1>2. th[t].kind = "deploy"
  <2>1. th[t].kind \in Kinds /\ th[t].kind # "cli" /\ th[t].kind # "diagnose"
    BY <1>1 DEF Started, Underway
  <2> QED  BY <2>1 DEF Kinds
<1> DEFINE h == th[t].host
           r == th[t].rom
<1>3. h \in Hosts /\ r \in Roms /\ Uploaded(t) /\ th[t] \in Thread /\ th \in [Ids -> Thread]
  BY <1>1, <1>2 DEF Underway, Shapes, Thread
<1>4. r \notin {"helper", "core"} /\ th[t].file \in {"helper", "core", "rom"} /\ {"helper", "core", r} \subseteq Files
  BY <1>3, SetupAssumption DEF Thread, Files
<1>5. \A f \in {"helper", "core", r} : remote'[h][f] = IF f = Asset(t) THEN v ELSE remote[h][f]
  BY <1>3, <1>4 DEF SetFile, Devices
<1>6. Asset(t) = IF th[t].file = "rom" THEN r ELSE th[t].file
  BY DEF Asset
<1>7. CASE AfterAsset(t) /\ v \in {"current", "maybe"}
  <2>1. /\ \A u \in Ids \ {t} : th'[u] = th[u]
        /\ th'[t].kind = th[t].kind /\ th'[t].rom = r /\ th'[t].host = h
        /\ th'[t].pc \in {"restart", "check"}
    BY <1>1, <1>7, AssetMoves
  <2>2. /\ th'[t].file = CASE th[t].file = "helper" -> "core" [] th[t].file = "core" -> "rom" [] OTHER -> th[t].file
        /\ th'[t].pc = IF th[t].file = "rom" THEN "restart" ELSE "check"
    <3>1. r # None
      BY <1>3, SetupAssumption
    <3> QED  BY <1>3, <1>7, <3>1 DEF AfterAsset, Thread
  <2>3. Alive(t)'
    BY <2>1 DEF Alive
  <2>4. Uploaded(t)'
    <3>1. CASE th[t].file = "helper"
      BY <1>4, <1>5, <1>6, <1>7, <2>1, <2>2, <3>1 DEF Uploaded, Good
    <3>2. CASE th[t].file = "core"
      BY <1>3, <1>4, <1>5, <1>6, <1>7, <2>1, <2>2, <3>2 DEF Uploaded, Good
    <3>3. CASE th[t].file = "rom"
      BY <1>3, <1>4, <1>5, <1>6, <1>7, <2>1, <2>2, <3>3 DEF Uploaded, Good, AllGood
    <3> QED  BY <1>4, <3>1, <3>2, <3>3
  <2> QED  BY <1>1, <1>2, <2>1, <2>3, <2>4, ThreadShown DEF Quiet, Unmoved
<1>8. CASE Goto(t, "put")
  <2>1. /\ \A u \in Ids \ {t} : th'[u] = th[u]
        /\ th'[t].kind = th[t].kind /\ th'[t].rom = r /\ th'[t].host = h /\ th'[t].pc = "put"
    BY <1>1, <1>8, GotoMoves
  <2>2. th'[t].file = th[t].file
    BY <1>3, <1>8 DEF Goto, Thread
  <2>3. Alive(t)'
    BY <2>1 DEF Alive
  <2>4. Uploaded(t)'
    BY <1>3, <1>4, <1>5, <1>6, <2>1, <2>2 DEF Uploaded, Good
  <2> QED  BY <1>1, <1>2, <2>1, <2>3, <2>4, ThreadShown DEF Quiet, Unmoved
<1> QED  BY <1>7, <1>8

\* Every step of a thread.
LEMMA ThreadQuiet ==
  ASSUME SessionInv, Devices, Quiet, NEW t \in Ids, ThreadStep(t)
  PROVE  Quiet'
<1>1. Unmoved
  BY DEF ThreadStep, guiVars, Unmoved
<1>2. th[t].kind = "deploy" /\ Alive(t) => Uploaded(t)
  BY DEF Quiet, Underway
<1>4. CASE Connect(t)
  <2>1. th[t].pc = "connect" /\ Alive(t) /\ remote' = remote
    BY <1>4 DEF Connect, Alive, mister
  <2>2. CASE Goto(t, "tools") /\ UNCHANGED calls
    BY <1>1, <2>1, <2>2, GotoShown
  <2>3. CASE Finish(t, IF th[t].kind = "diagnose" THEN "ok" ELSE "err")
    BY <1>1, <2>1, <2>3, FinishShown
  <2> QED  BY <1>4, <2>2, <2>3 DEF Connect
<1>5. CASE Tools(t)
  <2>1. th[t].pc = "tools" /\ Alive(t) /\ remote' = remote
    BY <1>5 DEF Tools, Alive, mister
  <2>2. CASE Finish(t, "err")
    BY <1>1, <2>1, <2>2, FinishShown
  <2>3. CASE UNCHANGED calls /\ ~Finish(t, "err")
    <3>1. \E label \in {"check", "health", "restart"} :
            /\ Goto(t, label)
            /\ th[t].kind # "diagnose" => label = "check"
            /\ th[t].kind = "diagnose" => label # "check"
      <4>1. CASE th[t].kind # "diagnose"
        <5>1. Goto(t, "check")
          BY <1>5, <2>3, <4>1 DEF Tools
        <5> QED  BY <4>1, <5>1
      <4>2. CASE th[t].kind = "diagnose"
        <5>1. Goto(t, "health") \/ Goto(t, "restart")
          BY <1>5, <2>3, <4>2 DEF Tools
        <5> QED  BY <4>2, <5>1
      <4> QED  BY <4>1, <4>2
    <3> QED  BY <1>1, <2>1, <2>3, <3>1, GotoShown
  <2> QED  BY <1>5, <2>2, <2>3 DEF Tools
<1>6. CASE Check(t)
  <2>1. th[t].pc = "check" /\ Alive(t)
    BY <1>6 DEF Check, Alive
  <2>2. CASE Finish(t, "err")
    <3>1. th[t].kind # "diagnose"
      BY <2>1 DEF Quiet, Underway
    <3> QED  BY <1>1, <2>1, <2>2, <3>1, FinishShown
  <2>3. CASE \E v \in FileStates : SetFile(t, v) /\ UNCHANGED calls
             /\ ((AfterAsset(t) /\ v \in {"current", "maybe"}) \/ Goto(t, "put"))
    BY <1>1, <2>1, <2>3, FileShown
  <2> QED  BY <1>6, <2>2, <2>3 DEF Check, FileStates
<1>7. CASE Put(t)
  <2>1. th[t].pc = "put" /\ Alive(t)
    BY <1>7 DEF Put, Alive
  <2>2. CASE Finish(t, "err") /\ UNCHANGED remote
    BY <1>1, <2>1, <2>2, FinishShown
  <2>3. CASE SetFile(t, "current") /\ AfterAsset(t) /\ UNCHANGED calls
    BY <1>1, <2>1, <2>3, FileShown DEF FileStates
  <2> QED  BY <1>7, <2>2, <2>3 DEF Put
<1>8. CASE Restart(t)
  <2>1. th[t].pc = "restart" /\ Alive(t) /\ Goto(t, "wait") /\ UNCHANGED <<calls, remote>>
    BY <1>8 DEF Restart, Alive
  <2> QED  BY <1>1, <2>1, GotoShown
<1>9. CASE Wait(t)
  <2>1. th[t].pc = "wait" /\ Alive(t) /\ remote' = remote
    BY <1>9 DEF Wait, Alive
  <2>2. CASE Goto(t, "health") /\ UNCHANGED calls
    BY <1>1, <2>1, <2>2, GotoShown
  <2>3. CASE Finish(t, "err")
    BY <1>1, <2>1, <2>3, FinishShown
  <2> QED  BY <1>9, <2>2, <2>3 DEF Wait
<1>10. CASE Health(t)
  <2>1. th[t].pc = "health" /\ Alive(t) /\ remote' = remote
    BY <1>10 DEF Health, Alive, mister
  <2>2. th[t].kind = "deploy" => AllGood(th[t].host, th[t].rom)
    BY <1>2, <2>1 DEF Uploaded
  <2> QED  BY <1>1, <1>10, <2>1, <2>2, FinishShown DEF Health
<1> QED  BY <1>4, <1>5, <1>6, <1>7, <1>8, <1>9, <1>10 DEF ThreadStep

\* A run starts: nobody was disturbed only if none was under way.
LEMMA StartQuiet ==
  ASSUME SessionInv, Quiet, ~disturbed', NEW kind \in {"deploy", "diagnose"},
         NEW r \in Roms \cup {None}, NEW h \in Hosts, Start(kind, r, h),
         UNCHANGED <<screen, endpoint, rom, calls, remote>>,
         kind = "deploy" => endpoint = "mister" /\ screen = "rom_setup" /\ ~contBtn' /\ r = rom /\ rom # None,
         kind = "diagnose" => UNCHANGED <<config, contBtn>>
  PROVE  Quiet'
<1> DEFINE new == [kind |-> kind, file |-> "helper", pc |-> "connect", rom |-> r, host |-> h]
<1>1. ~disturbed /\ calls = <<>> /\ \A u \in Ids : ~Alive(u)
  BY DEF Start, Busy
<1>2. PICK t \in Ids : th' = [th EXCEPT ![t] = new]
  BY DEF Start
<1>3. th \in [Ids -> Thread]
  BY DEF SessionInv, Shapes
<1>4. new.kind = kind /\ new.file = "helper" /\ new.pc = "connect" /\ new.rom = r /\ new.host = h
  OBVIOUS
<1> HIDE DEF new
<1>5. th'[t] = new /\ \A u \in Ids \ {t} : th'[u] = th[u]
  BY <1>2, <1>3
<1>6. \A u \in Ids \ {t} : ~Alive(u)'
  BY <1>1, <1>5 DEF Alive
<1>7. Single'
  BY <1>1, <1>6 DEF Single
<1>8. Reported'
  BY <1>1 DEF Reported
<1>9. Shown'
  <2>1. CASE kind = "deploy"
    BY <2>1 DEF Quiet, Shown, AllGood, Good
  <2>2. CASE kind = "diagnose"
    BY <2>2 DEF Quiet, Shown, AllGood, Good
  <2> QED  BY <2>1, <2>2
<1>10. Underway'
  <2>1. Uploaded(t)'
    BY <1>4, <1>5 DEF Uploaded
  <2>2. Alive(t)' /\ th'[t].kind = "deploy" =>
          Locked' /\ th'[t].host \in Hosts /\ th'[t].rom = rom' /\ rom' # None
    BY <1>4, <1>5 DEF Locked
  <2>3. th'[t].kind # "cli" /\ th'[t].pc \notin {"check", "put"}
    BY <1>4, <1>5
  <2>4. \A u \in Ids \ {t} : (th'[u].pc # "idle" => th'[u].kind # "cli") /\ (th'[u].kind = "diagnose" => th'[u].pc \notin {"check", "put"})
    BY <1>5 DEF Quiet, Underway
  <2> QED  BY <1>6, <2>1, <2>2, <2>3, <2>4 DEF Underway
<1> QED  BY <1>7, <1>8, <1>9, <1>10 DEF Quiet

\* A step of the screens that leaves threads, Tk's queue and the MiSTers' files alone.
LEMMA ScreenQuiet ==
  ASSUME Quiet, UNCHANGED <<th, calls, remote>>,
         \/ UNCHANGED <<screen, endpoint, rom, config, contBtn>>
         \/ /\ screen # "rom_setup" /\ screen' = "rom_setup"
            /\ ~contBtn' \/ UNCHANGED <<endpoint, rom, config, contBtn>>
         \/ (endpoint = "mister" => contBtn) /\ UNCHANGED <<endpoint, rom, config, contBtn>>
         \/ /\ screen \in {"relay_setup", "session"} /\ screen' \in {"relay_setup", "session"}
            /\ UNCHANGED <<endpoint, rom, config, contBtn>>
         \/ /\ calls = <<>> /\ (\A t \in Ids : ~Alive(t)) /\ screen' = "rom_setup" /\ ~contBtn'
  PROVE  Quiet'
<1>1. Single'
  BY DEF Quiet, Single, Alive
<1>2. Shown'
  BY DEF Quiet, Shown, AllGood, Good
<1>3. Underway'
  BY DEF Quiet, Underway, Locked, Uploaded, AllGood, Good, Alive
<1>4. Reported'
  BY DEF Quiet, Reported, Locked, AllGood, Good
<1> QED  BY <1>1, <1>2, <1>3, <1>4 DEF Quiet

\* Tk runs the callback: the configuration it sets is the one that was deployed, of
\* the ROM the screen still shows.
LEMMA HandleCallQuiet ==
  ASSUME SessionInv, Quiet, HandleCall
  PROVE  Quiet'
<1>1. calls \in Seq(Call) /\ calls # <<>> /\ calls' = Tail(calls) /\ UNCHANGED <<screen, endpoint, rom, th, remote>>
  BY DEF SessionInv, Shapes, HandleCall, mister
<1>2. Len(calls) = 1 /\ \A t \in Ids : ~Alive(t)
  BY <1>1 DEF Quiet, Single
<1>3. calls' = <<>>
  <2>1. Len(calls') = 0 /\ calls' \in Seq(Call)
    BY <1>1, <1>2
  <2> QED  BY <2>1
<1>4. Head(calls) = calls[1] /\ calls[1] \in Call
  BY <1>1, <1>2
<1>5. Single' /\ Reported'
  BY <1>1, <1>2, <1>3 DEF Single, Reported, Alive
<1>6. Underway'
  BY <1>1, <1>2 DEF Quiet, Underway, Alive
<1>7. Shown'
  <2>1. CASE calls[1].what = "deployed"
    <3> DEFINE new == [endpoint |-> "mister", rom |-> calls[1].rom, host |-> calls[1].host]
    <3>1. config' = new /\ contBtn'
      BY <1>4, <2>1 DEF HandleCall
    <3>2. new \in Config /\ new.rom = calls[1].rom /\ new.host = calls[1].host
      BY <1>4 DEF Config, Call
    <3>3. calls[1].rom = rom /\ AllGood(calls[1].host, rom)
      BY <1>1, <2>1 DEF Quiet, Reported
    <3>4. new # None
      BY <3>2, NoneIsNoConfig
    <3> HIDE DEF new
    <3> QED  BY <1>1, <3>1, <3>2, <3>3, <3>4 DEF Shown, AllGood, Good
  <2>2. CASE calls[1].what = "failed"
    <3>1. ~contBtn' /\ Locked
      BY <1>1, <1>4, <2>2 DEF HandleCall, Quiet, Reported
    <3> QED  BY <1>1, <3>1 DEF Shown, Locked
  <2>3. CASE calls[1].what = "diagnosed"
    <3>1. config' = config /\ contBtn' = contBtn
      BY <1>4, <2>3 DEF HandleCall
    <3> QED  BY <1>1, <3>1 DEF Quiet, Shown, AllGood, Good
  <2> QED  BY <1>4, <2>1, <2>2, <2>3 DEF Call
<1> QED  BY <1>5, <1>6, <1>7 DEF Quiet

\* Every step keeps what was deployed in step with the screen, until somebody acts
\* on a busy screen or from the command line.
LEMMA QuietStep ==
  ASSUME SessionInv, Devices, ~disturbed => Quiet, [Next]_vars, ~disturbed'
  PROVE  Quiet'
<1>1. Shapes /\ ~disturbed
  <2>1. Shapes
    BY DEF SessionInv
  <2>3. CASE UserStep
    <3>1. \/ UNCHANGED disturbed
          \/ \E kind, r, h : Start(kind, r, h)
          \/ \E r \in Roms : PickFile(r)
      BY <2>3 DEF UserStep, SelectDevice, TypeHost, TypeCode, CliDeploy, DeployToMister, DiagnoseMister,
                  Continue, Back, ConnectSession, Disconnect, setupVars
    <3>2. ASSUME NEW kind, NEW r, NEW h, Start(kind, r, h) PROVE ~disturbed
      BY <3>2 DEF Start
    <3>3. ASSUME NEW r \in Roms, PickFile(r) PROVE ~disturbed
      BY <3>3 DEF PickFile
    <3> QED  BY <2>1, <3>1, <3>2, <3>3
  <2>4. CASE ~UserStep
    <3>1. UNCHANGED disturbed
      BY <2>4 DEF Next, HandleCall, ThreadStep, OpenSession, LeaveLoop, WorkerFails, Reboot, vars, setupVars
    <3> QED  BY <2>1, <3>1
  <2> QED  BY <2>3, <2>4
<1>2. Quiet
  BY <1>1
<1>3. ASSUME NEW d \in {"edn8", "mister"}, SelectDevice(d) PROVE Quiet'
  BY <1>2, <1>3, ScreenQuiet DEF SelectDevice, mister
<1>4. ASSUME NEW h \in Hosts \cup {None}, TypeHost(h) PROVE Quiet'
  BY <1>2, <1>4, ScreenQuiet DEF TypeHost, mister
<1>5. ASSUME NEW r \in Roms, PickFile(r) PROVE Quiet'
  <2>1. calls = <<>> /\ (\A t \in Ids : ~Alive(t)) /\ screen' = "rom_setup" /\ ~contBtn'
    BY <1>5 DEF PickFile, InspectRom, Busy
  <2> QED  BY <1>2, <1>5, <2>1, ScreenQuiet DEF PickFile, mister
<1>6. ASSUME NEW ok \in BOOLEAN, TypeCode(ok) PROVE Quiet'
  BY <1>2, <1>6, ScreenQuiet DEF TypeCode, setupVars, mister
<1>7. ~\E r \in CliRoms, h \in Hosts : CliDeploy(r, h)
  BY DEF CliDeploy, Start
<1>8. CASE DeployToMister
  <2>1. rom \in Roms \cup {None} /\ host \in Hosts
    BY <1>1, <1>8 DEF DeployToMister, Shapes
  <2> QED  BY <1>2, <1>8, <2>1, StartQuiet DEF DeployToMister, mister
<1>9. CASE DiagnoseMister
  <2>1. host \in Hosts
    BY <1>1, <1>9 DEF DiagnoseMister, Shapes
  <2> QED  BY <1>2, <1>9, <2>1, StartQuiet DEF DiagnoseMister, mister
<1>10. CASE Continue
  BY <1>2, <1>10, ScreenQuiet DEF Continue, setupVars, mister
<1>11. CASE Back
  BY <1>2, <1>11, ScreenQuiet DEF Back, mister
<1>12. CASE ConnectSession
  BY <1>2, <1>12, ScreenQuiet DEF ConnectSession, setupVars, mister
<1>13. CASE Disconnect
  BY <1>2, <1>13, ScreenQuiet DEF Disconnect, ShowRelaySetup, setupVars, mister
<1>14. CASE HandleCall
  BY <1>2, <1>14, HandleCallQuiet
<1>15. ASSUME NEW t \in Ids, ThreadStep(t) PROVE Quiet'
  BY <1>2, <1>15, ThreadQuiet
<1>16. ASSUME NEW w \in Ws, OpenSession(w) \/ LeaveLoop(w) \/ WorkerFails(w) PROVE Quiet'
  BY <1>2, <1>16, ScreenQuiet DEF OpenSession, LeaveLoop, WorkerFails, guiVars, setupVars, mister
<1>17. ASSUME NEW h \in Hosts, Reboot(h) PROVE Quiet'
  BY <1>2, <1>17, ScreenQuiet DEF Reboot, guiVars, setupVars
<1>18. CASE UNCHANGED vars
  BY <1>2, <1>18, ScreenQuiet DEF vars, guiVars, setupVars, mister
<1> QED  BY <1>3, <1>4, <1>5, <1>6, <1>7, <1>8, <1>9, <1>10, <1>11, <1>12, <1>13, <1>14, <1>15,
            <1>16, <1>17, <1>18 DEF Next, UserStep

\* "ROM selected. Test & Deploy to continue." keeps its word for any ROMs and MiSTers:
\* with nobody acting on a busy screen, one goes past the ROM screen only with the ROM
\* it shows, and helper, core and that ROM are then on the configured MiSTer.
THEOREM ShownIsDeployed == Spec => []DeployedAsShown
<1>1. Init => ShownInv
  <2> SUFFICES ASSUME Init PROVE Single /\ Underway /\ Reported /\ Shown
    BY DEF ShownInv
  <2>1. calls = <<>> /\ \A t \in Ids : th[t].pc = "idle" /\ th[t].kind = None
    BY DEF Init
  <2>2. \A t \in Ids : ~Alive(t)
    BY <2>1 DEF Alive
  <2>3. Underway
    BY <2>1, <2>2 DEF Underway
  <2> QED  BY <2>1, <2>2, <2>3 DEF Single, Reported, Shown, Init
<1>2. SessionInv /\ TypeOK /\ ShownInv /\ [Next]_vars => ShownInv'
  BY QuietStep, TypeParts DEF ShownInv, Quiet
<1>3. ShownInv => DeployedAsShown
  BY DEF ShownInv, Shown, DeployedAsShown, AllGood, Good
<1> QED  BY <1>1, <1>2, <1>3, SessionInvariant, SetupTypes, PTL DEF Spec
=============================================================================
